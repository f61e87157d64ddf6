---------------------------- MODULE RefundPromise ----------------------------
(***************************************************************************)
(* What the refund ledger promises to the rest of the system, without      *)
(* executors, reservations, retries or failures: a refund is one atomic    *)
(* payment, made for a handoff that was not answered yet and for items     *)
(* nobody was refunded for; the answer given for a handoff is the truth    *)
(* about its payment and is given once.                                    *)
(***************************************************************************)
CONSTANTS Handoffs, Requests, HandoffOf, Scope

VARIABLES
  paid,          \* requests that were paid
  report         \* the answer given for each handoff

vars == <<paid, report>>

Init ==
  /\ paid = {}
  /\ report = [h \in Handoffs |-> "open"]

PaidFor(h) == \E r \in paid : HandoffOf[r] = h

Pay(r) ==
  /\ report[HandoffOf[r]] = "open"
  /\ ~PaidFor(HandoffOf[r])
  /\ \A s \in paid : Scope[r] \cap Scope[s] = {}
  /\ paid' = paid \cup {r}
  /\ UNCHANGED report

Succeed(h) ==
  /\ report[h] = "open"
  /\ PaidFor(h)
  /\ report' = [report EXCEPT ![h] = "succeeded"]
  /\ UNCHANGED paid

Refuse(h) ==
  /\ report[h] = "open"
  /\ ~PaidFor(h)
  /\ report' = [report EXCEPT ![h] = "rejected"]
  /\ UNCHANGED paid

Next ==
  \/ \E r \in Requests : Pay(r)
  \/ \E h \in Handoffs : Succeed(h) \/ Refuse(h)

Spec == Init /\ [][Next]_vars
=============================================================================
