----------------------------- MODULE CaseStatus -----------------------------
(***************************************************************************)
(* The statuses of a case and the moves between them                       *)
(* (apps/api/src/return_agent/store.py, ALLOWED_TRANSITIONS).              *)
(***************************************************************************)

\* What an interrupted agent run waits for (AgentInterruptKind).
InterruptKinds ==
  {"CLARIFICATION", "EVIDENCE_REQUEST", "HUMAN_REVIEW", "POLICY_CONFIRMATION"}

\* The status a case has while it waits for a reply of that kind.
Awaiting ==
  [CLARIFICATION |-> "AWAITING_CLARIFICATION",
   EVIDENCE_REQUEST |-> "AWAITING_EVIDENCE",
   HUMAN_REVIEW |-> "AWAITING_HUMAN_REVIEW",
   POLICY_CONFIRMATION |-> "AWAITING_POLICY_CONFIRMATION"]

\* The statuses a v2 case passes through while goods are on their way back.
ReturnStatuses ==
  {"AWAITING_RETURN_CONFIRMATION", "AWAITING_RETURN", "AWAITING_RETURN_INSPECTION"}

Closed == {"RESOLVED", "ESCALATED"}

Statuses ==
  {"OBSERVING", "EXECUTING"} \cup {Awaiting[k] : k \in InterruptKinds}
    \cup ReturnStatuses \cup Closed

AllowedTransitions ==
  [OBSERVING |-> {Awaiting[k] : k \in InterruptKinds}
                   \cup {"AWAITING_RETURN_CONFIRMATION", "AWAITING_RETURN",
                         "EXECUTING", "ESCALATED"},
   AWAITING_CLARIFICATION |-> {"OBSERVING", "ESCALATED"},
   AWAITING_EVIDENCE |-> {"OBSERVING", "ESCALATED"},
   AWAITING_HUMAN_REVIEW |-> {"OBSERVING", "EXECUTING", "ESCALATED"},
   AWAITING_POLICY_CONFIRMATION |-> {"OBSERVING", "ESCALATED"},
   AWAITING_RETURN_CONFIRMATION |-> {"AWAITING_RETURN", "ESCALATED"},
   AWAITING_RETURN |-> {"AWAITING_RETURN_INSPECTION", "ESCALATED"},
   AWAITING_RETURN_INSPECTION |-> {"EXECUTING", "ESCALATED"},
   EXECUTING |-> {"RESOLVED", "ESCALATED"},
   RESOLVED |-> {},
   ESCALATED |-> {}]

\* CaseStore.transition refuses every other move.
CanMove(from, to) == to \in AllowedTransitions[from]
=============================================================================
