---------------------------- MODULE MCAgentGraph ----------------------------
(* Instances of AgentGraph for TLC: cases that open different paths, with    *)
(* prices and histories on both sides of the gates.                          *)
EXTENDS AgentGraph, TLC

CONSTANTS i1, i2

\* A line of a v2 order, received, in time for every path.
OpenLine ==
  [inScope |-> TRUE, single |-> TRUE, exception |-> "NONE_CONFIRMED", submitted |-> 1,
   deadline |-> [p \in Paths |-> 1], effective |-> [p \in Paths |-> 0],
   expiry |-> [p \in Paths |-> None], delivery |-> "RECEIVED", receipt |-> TRUE,
   investigated |-> FALSE, split |-> FALSE, spec |-> TRUE, spent |-> FALSE,
   reserved |-> FALSE, withinMax |-> TRUE, refundable |-> 1]

Calm == [accountAge |-> 90, orders |-> 6, sameReason |-> 0, refunded |-> 1]
Risky == [accountAge |-> 30, orders |-> 2, sameReason |-> 3, refunded |-> 2]

V2Case(line, buyer, attached, reasons, vague) ==
  [schema |-> "v2", lines |-> {i1}, facts |-> (i1 :> line), returns |-> "MODEL_JUDGMENT",
   threshold |-> 1, buyer |-> buyer, attached |-> attached,
   reasons |-> reasons, vague |-> vague]

\* Received in time; sold with the history of a risky buyer; lost on the way,
\* too late to change one's mind; too dear to be released unseen; and spent.
Received == V2Case(OpenLine, Calm, FALSE, {"ITEM_DAMAGED", "CHANGED_MIND"}, FALSE)
ReceivedByRisky == V2Case(OpenLine, Risky, TRUE, {"CHANGED_MIND"}, FALSE)
Lost == V2Case([OpenLine EXCEPT !.delivery = "CONFIRMED_UNDELIVERED", !.investigated = TRUE,
                                !.receipt = FALSE, !.refundable = 2], Calm, FALSE,
               {"MISSING_ITEM", "CHANGED_MIND"}, TRUE)
Late == V2Case([OpenLine EXCEPT !.deadline["COOLING_OFF"] = 0], Calm, TRUE,
               {"CHANGED_MIND", "WRONG_ITEM"}, FALSE)
Spent == V2Case([OpenLine EXCEPT !.spent = TRUE], Calm, TRUE, {"CHANGED_MIND"}, TRUE)

\* Two lines under v1 whose sum is above the threshold.
TwoLines ==
  [schema |-> "v1", lines |-> {i1, i2}, facts |-> (i1 :> OpenLine @@ i2 :> OpenLine),
   returns |-> "NOT_REQUIRED", threshold |-> 1, buyer |-> None, attached |-> TRUE,
   reasons |-> {"ITEM_DAMAGED"}, vague |-> FALSE]

MCCases == {Received, ReceivedByRisky, Lost, Late, Spent, TwoLines}
=============================================================================
