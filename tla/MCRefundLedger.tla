--------------------------- MODULE MCRefundLedger ---------------------------
(* Instances of RefundLedger for TLC: three handoffs that compete for two    *)
(* items. h1 is asked for with two contents, h3 belongs to a v2 case.        *)
EXTENDS RefundLedger, TLC

CONSTANTS h1, h2, h3, i1, i2, r1, r1b, r2, r3, e1, e2

MCHandoffOf == r1 :> h1 @@ r1b :> h1 @@ r2 :> h2 @@ r3 :> h3
MCScope == r1 :> {i1, i2} @@ r1b :> {i1} @@ r2 :> {i2} @@ r3 :> {i1}

\* The run with SerialWriters leaves out the third handoff.
MCDuoHandoffOf == r1 :> h1 @@ r1b :> h1 @@ r2 :> h2
MCDuoScope == r1 :> {i1, i2} @@ r1b :> {i1} @@ r2 :> {i2}

MCExecutorSymmetry == Permutations({e1, e2})
=============================================================================
