---------------------------- MODULE MCFulfillment ----------------------------
(* Instance of Fulfillment for TLC: a v2 case (h1), whose resolution needs   *)
(* the goods back (r1) or waives the return (r2), and a v1 case (h3), which  *)
(* ask for the same item.                                                    *)
EXTENDS Fulfillment, TLC

CONSTANTS h1, h3, i1, r1, r2, r3, e1, e2, ev1, ev2

MCHandoffOf == r1 :> h1 @@ r2 :> h1 @@ r3 :> h3
MCScope == r1 :> {i1} @@ r2 :> {i1} @@ r3 :> {i1}

MCTimes == 1..2
=============================================================================
