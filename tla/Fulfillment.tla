----------------------------- MODULE Fulfillment -----------------------------
(***************************************************************************)
(* The refund of a policy v2 case after its resolution                     *)
(* (apps/api/src/return_agent/capabilities/fulfillment.py and the return   *)
(* endpoints of policy_routes.py): an authorization reserves the item, the *)
(* buyer consents to the return, a trusted producer reports arrival and    *)
(* inspection, and only then do fulfillment workers carry the refund out,  *)
(* with the executor and the tables of RefundLedger.                       *)
(*                                                                         *)
(* Every case has one authorization, named here by its handoff, and every  *)
(* transaction locks it. The executors of the ledger are the fulfillment   *)
(* workers and the bridges that refund v1 cases, which compete for items.  *)
(* One producer reports; events of several producers carry disjoint ids    *)
(* within an authorization. Definitions marked (fault) are slips the       *)
(* properties below must catch.                                            *)
(***************************************************************************)
EXTENDS Naturals, Sequences, CaseStatus

CONSTANTS
  Handoffs, Items, Requests, Executors, HandoffOf, Scope, V2, SerialWriters,
  None,
  NeedsReturn,   \* requests whose return decision requires the goods back
  EventIds,      \* ids of return events
  Times,         \* values of occurred_at
  MaxFaults      \* bound: failed calls, dead workers, outlasted leases

ASSUME FulfillmentAssumption ==
  /\ NeedsReturn \subseteq Requests
  /\ Times \subseteq Nat
  /\ MaxFaults \in Nat
  /\ None \notin EventIds \cup Executors \cup Statuses

VARIABLES
  content, state, started, reservation, refunded, completions,
  decision, money, pc, req, result,
  status,          \* cases.status of each v2 case
  done,            \* final statuses of its "done" events
  rejected,        \* cases the bridge escalated over an event of the agent
  authorization,   \* return_authorizations.state, None: no row
  consent,         \* confirmation_payload
  arrived,         \* arrived_event_id
  inspection,      \* inspection_event_id
  receipts,        \* return_event_receipts: the events accepted
  lease,           \* lease_owner
  job,             \* the authorization each fulfillment worker leased
  answer,          \* what execute() returned to it
  outlasted,       \* authorizations leased while a worker was still at work
  faults           \* faults so far

\* What the ledger assumes of its constants.
ASSUME LedgerAssumption ==
  /\ HandoffOf \in [Requests -> Handoffs]
  /\ Scope \in [Requests -> SUBSET Items]
  /\ \A r \in Requests : Scope[r] # {}
  /\ V2 \subseteq Handoffs
  /\ SerialWriters \in BOOLEAN
  /\ None \notin Requests \cup Handoffs \cup {"APPLIED", "REJECTED"}

Ledger == INSTANCE RefundLedger

ledgerVars == <<content, state, started, reservation, refunded, completions,
                decision, money, pc, req, result>>
caseVars == <<status, done, rejected>>
returnVars == <<consent, arrived, inspection, receipts>>
workerVars == <<lease, job, answer, outlasted>>
vars == <<content, state, started, reservation, refunded, completions, decision,
          money, pc, req, result, status, done, rejected, authorization, consent,
          arrived, inspection, receipts, lease, job, answer, outlasted, faults>>

Open == ReturnStatuses \cup {"EXECUTING"}
Inspections == {"INSPECTION_PASSED", "INSPECTION_DISPUTED"}
EventTypes == Inspections \cup {"RETURN_ARRIVED", "RETURN_OVERDUE"}

\* A return event; an inspection names the arrival it is about.
Events == {m \in [handoff : V2, id : EventIds, type : EventTypes, at : Times,
                  arrival : EventIds \cup {None}] :
             m.type \notin Inspections => m.arrival = None}

Init ==
  /\ Ledger!Init
  /\ status = [h \in V2 |-> "OBSERVING"]
  /\ done = [h \in V2 |-> <<>>]
  /\ rejected = {}
  /\ authorization = [h \in V2 |-> None]
  /\ consent = [h \in V2 |-> None]
  /\ arrived = [h \in V2 |-> None]
  /\ inspection = [h \in V2 |-> None]
  /\ receipts = {}
  /\ lease = [h \in V2 |-> None]
  /\ job = [e \in Executors |-> None]
  /\ answer = [e \in Executors |-> None]
  /\ outlasted = {}
  /\ faults = 0

-----------------------------------------------------------------------------
(* The case and the authorization move together. *)

\* (fault) a second "done" event although the case had the status already.
AnnounceAlways(h, target) ==
  done' = IF target \in Closed THEN [done EXCEPT ![h] = Append(@, target)] ELSE done

Announce(h, target) ==
  done' = IF target \in Closed /\ status[h] # target
          THEN [done EXCEPT ![h] = Append(@, target)] ELSE done

\* transition(); a move the case cannot make raises and nothing is committed.
Transition(h, target) ==
  /\ status[h] = target \/ CanMove(status[h], target)
  /\ status' = [status EXCEPT ![h] = target]
  /\ authorization' = [authorization EXCEPT ![h] = target]
  /\ Announce(h, target)
  /\ UNCHANGED rejected

-----------------------------------------------------------------------------
(* Authorization and consent. *)

\* (fault) the execution is inserted, its items are not reserved.
EnterOnly(r) ==
  /\ HandoffOf[r] \in V2
  /\ Ledger!Insert(r, "IN_PROGRESS")
  /\ UNCHANGED <<started, reservation, refunded, completions, decision, money,
                 pc, req, result>>

\* The refund_executions row and the reservations of the request.
Enter(r) == Ledger!Register(r)

\* register_authorization, called to project the resolution of a v2 case. The
\* consent the buyer gave to the policy path counts if the requirement is still
\* the one consented to. An authorization that exists already is returned as
\* it is, and one that cannot be made is an invalid event (EscalateByBridge).
RegisterAuthorization(r) ==
  LET h == HandoffOf[r] IN
  /\ h \in V2
  /\ authorization[h] = None
  /\ Enter(r)
  /\ \E given \in {None, "accepted"} :
       /\ consent' = [consent EXCEPT ![h] = given]
       /\ Transition(h, IF r \notin NeedsReturn THEN "EXECUTING"
                        ELSE IF given = None THEN "AWAITING_RETURN_CONFIRMATION"
                                             ELSE "AWAITING_RETURN")
  /\ UNCHANGED <<arrived, inspection, receipts, workerVars, faults>>

AsksForConsent(h) == authorization[h] = "AWAITING_RETURN_CONFIRMATION"

\* confirm_return: the first answer stands, a repeated one changes nothing.
ConfirmReturn(h, accept) ==
  /\ consent[h] = None
  /\ AsksForConsent(h)
  /\ consent' = [consent EXCEPT ![h] = IF accept THEN "accepted" ELSE "declined"]
  /\ Transition(h, IF accept THEN "AWAITING_RETURN" ELSE "ESCALATED")
  /\ UNCHANGED <<ledgerVars, arrived, inspection, receipts, workerVars, faults>>

-----------------------------------------------------------------------------
(* accept_return_event. *)

\* An event whose id has a receipt is answered with that receipt, or refused if
\* its content differs.
New(m) == \A n \in receipts : n.id # m.id

Arrives(m) ==
  /\ m.type = "RETURN_ARRIVED"
  /\ authorization[m.handoff] = "AWAITING_RETURN"
  /\ arrived[m.handoff] = None

\* (fault) an inspection may have taken place before the arrival it names.
InspectedAnytime(m) ==
  /\ m.type \in Inspections
  /\ authorization[m.handoff] = "AWAITING_RETURN_INSPECTION"
  /\ m.arrival = arrived[m.handoff]

\* The inspection of the goods that arrived, no earlier than they did.
Inspected(m) ==
  /\ m.type \in Inspections
  /\ authorization[m.handoff] = "AWAITING_RETURN_INSPECTION"
  /\ m.arrival = arrived[m.handoff]
  /\ \E a \in receipts : /\ a.id = m.arrival
                         /\ a.handoff = m.handoff
                         /\ a.type = "RETURN_ARRIVED"
                         /\ a.at <= m.at

\* (fault) an overdue return is reported while the refund is being paid.
OverdueAnytime(m) ==
  /\ m.type = "RETURN_OVERDUE"
  /\ authorization[m.handoff] \in Open

Overdue(m) ==
  /\ m.type = "RETURN_OVERDUE"
  /\ authorization[m.handoff] \in {"AWAITING_RETURN", "AWAITING_RETURN_INSPECTION"}

AcceptReturnEvent(m) ==
  LET h == m.handoff IN
  /\ New(m)
  /\ \/ /\ Arrives(m)
        /\ arrived' = [arrived EXCEPT ![h] = m.id]
        /\ Transition(h, "AWAITING_RETURN_INSPECTION")
        /\ UNCHANGED inspection
     \/ /\ Inspected(m)
        /\ inspection' = [inspection EXCEPT ![h] = m.id]
        /\ Transition(h, IF m.type = "INSPECTION_PASSED" THEN "EXECUTING"
                                                         ELSE "ESCALATED")
        /\ UNCHANGED arrived
     \/ /\ Overdue(m)
        /\ Transition(h, "ESCALATED")
        /\ UNCHANGED <<arrived, inspection>>
  /\ receipts' = receipts \cup {m}
  /\ UNCHANGED <<ledgerVars, consent, workerVars, faults>>

-----------------------------------------------------------------------------
(* FulfillmentWorker.run_once and the executor it calls. *)

Fault == faults < MaxFaults /\ faults' = faults + 1

\* (fault) a lease is never taken over.
LeaseFree(h) == lease[h] = None

\* Nobody works under the lease any more, so that it runs out after 120 s.
LeaseOver(h) == ~\E w \in Executors : lease[h] = w /\ job[w] = h

\* The lease of an authorization that is executing; now and then a worker
\* outlasts its lease and another one takes over.
Lease(w, h) ==
  /\ job[w] = None
  /\ pc[w] = "idle"
  /\ authorization[h] = "EXECUTING"
  /\ \/ LeaseOver(h) /\ UNCHANGED <<outlasted, faults>>
     \/ ~LeaseOver(h) /\ outlasted' = outlasted \cup {h} /\ Fault
  /\ lease' = [lease EXCEPT ![h] = w]
  /\ job' = [job EXCEPT ![w] = h]
  /\ UNCHANGED <<ledgerVars, caseVars, authorization, returnVars, answer>>

\* execute() with the request of the authorization: a terminal row is its
\* answer, everything else takes the steps of the ledger.
Execute(w) ==
  LET h == job[w] IN
  /\ h # None
  /\ answer[w] = None
  /\ pc[w] = "idle"
  /\ \/ /\ state[h] \in Ledger!Terminal
        /\ answer' = [answer EXCEPT ![w] = state[h]]
        /\ UNCHANGED ledgerVars
     \/ /\ Ledger!Begin(w, content[h])
        /\ UNCHANGED answer
  /\ UNCHANGED <<caseVars, authorization, returnVars, lease, job, outlasted, faults>>

\* check_release, but for the reservations, which the ledger's Authorize tests:
\* the authorization is executing and, where goods must come back, the buyer
\* agreed and the recorded inspection passed the goods that arrived.
Released(h, r) ==
  /\ authorization[h] = "EXECUTING"
  /\ r \in NeedsReturn =>
       /\ consent[h] = "accepted"
       /\ arrived[h] # None
       /\ \E m \in receipts : /\ m.handoff = h
                              /\ m.id = inspection[h]
                              /\ m.type = "INSPECTION_PASSED"
                              /\ m.arrival = arrived[h]

\* A bridge begins the refund of a v1 case.
ExecuteV1(e, r) ==
  /\ job[e] = None
  /\ HandoffOf[r] \notin V2
  /\ Ledger!Begin(e, r)
  /\ UNCHANGED <<caseVars, authorization, returnVars, workerVars, faults>>

\* One transaction or call of execute(). When it returns, the worker has the
\* outcome of the row.
ExecutorStep(e) ==
  /\ \/ /\ Ledger!Authorize(e)
        /\ HandoffOf[req[e]] \in V2 /\ pc'[e] = "pend" =>
             Released(HandoffOf[req[e]], req[e])
     \/ Ledger!Reject(e)
     \/ Ledger!Overwrite(e)
     \/ Ledger!Pend(e)
     \/ Ledger!MarkStarted(e)
     \/ Ledger!Apply(e)
     \/ Ledger!Complete(e)
  /\ answer' = IF job[e] # None /\ pc'[e] = "idle"
               THEN [answer EXCEPT ![e] = state'[job[e]]] ELSE answer
  /\ UNCHANGED <<caseVars, authorization, returnVars, lease, job, outlasted, faults>>

LeaveJob(w) ==
  /\ job' = [job EXCEPT ![w] = None]
  /\ answer' = [answer EXCEPT ![w] = None]

\* execute() raises, an unavailable release check included, or the worker dies.
ExecutorFails(e) ==
  /\ Fault
  /\ \/ Ledger!Fail(e)
     \/ pc[e] = "idle" /\ job[e] # None /\ UNCHANGED ledgerVars
  /\ LeaveJob(e)
  /\ UNCHANGED <<caseVars, authorization, returnVars, lease, outlasted>>

\* The second transaction of run_once: a worker that is not the owner of the
\* lease any more changes nothing. A case that cannot follow raises, and the
\* lease stays behind.
Finish(w) ==
  LET h == job[w]
      target == IF answer[w] = "SUCCEEDED" THEN "RESOLVED" ELSE "ESCALATED" IN
  /\ answer[w] # None
  /\ \/ /\ authorization[h] = "EXECUTING"
        /\ lease[h] = w
        /\ Transition(h, target)
        /\ lease' = [lease EXCEPT ![h] = None]
     \/ /\ authorization[h] # "EXECUTING" \/ lease[h] # w
             \/ (status[h] # target /\ ~CanMove(status[h], target))
        /\ UNCHANGED <<caseVars, authorization, lease>>
  /\ LeaveJob(w)
  /\ UNCHANGED <<ledgerVars, returnVars, outlasted, faults>>

-----------------------------------------------------------------------------
\* AgentEventProjector, with any other event of the case: an invalid event, the
\* end of a failed run or an escalation closes the case and leaves the
\* authorization alone.
EscalateByBridge(h) ==
  /\ CanMove(status[h], "ESCALATED")
  /\ status' = [status EXCEPT ![h] = "ESCALATED"]
  /\ done' = [done EXCEPT ![h] = Append(@, "ESCALATED")]
  /\ rejected' = rejected \cup {h}
  /\ UNCHANGED <<ledgerVars, authorization, returnVars, workerVars, faults>>

Next ==
  \/ \E r \in Requests : RegisterAuthorization(r)
  \/ \E h \in V2 : \/ \E accept \in BOOLEAN : ConfirmReturn(h, accept)
                   \/ EscalateByBridge(h)
  \/ \E m \in Events : AcceptReturnEvent(m)
  \/ \E e \in Executors : \/ \E h \in V2 : Lease(e, h)
                          \/ Execute(e)
                          \/ \E r \in Requests : ExecuteV1(e, r)
                          \/ ExecutorStep(e)
                          \/ ExecutorFails(e)
                          \/ Finish(e)

Spec == Init /\ [][Next]_vars

\* The bridge's event loop calls run_once between any two reads, so that leases
\* are looked for again and again and what a worker began goes on.
Work(w) == Execute(w) \/ ExecutorStep(w) \/ Finish(w)
Fairness ==
  /\ \A w \in Executors : WF_vars(Work(w))
  /\ \A h \in V2 : WF_vars(\E w \in Executors : Lease(w, h) /\ LeaseOver(h))

FairSpec == Spec /\ Fairness

-----------------------------------------------------------------------------
(* Safety. *)

Paid(h) == \E r \in money : HandoffOf[r] = h

\* docs/spec/09, section 6: money for goods that must come back moves only
\* after the buyer agreed, the goods arrived and an inspection of that very
\* arrival, made no earlier, passed them. Consent, events, leases and payment
\* are steps of different parties and in different tables.
PaidAfterInspection ==
  \A r \in money : HandoffOf[r] \in V2 /\ r \in NeedsReturn =>
    LET h == HandoffOf[r] IN
    /\ consent[h] = "accepted"
    /\ \E a, m \in receipts :
         /\ a.handoff = h /\ m.handoff = h
         /\ a.type = "RETURN_ARRIVED" /\ m.type = "INSPECTION_PASSED"
         /\ m.arrival = a.id /\ a.id = arrived[h] /\ m.id = inspection[h]
         /\ a.at <= m.at

\* README 4.4: a disputed or overdue return, and a return the buyer declined,
\* is never paid for: an authorization that ends in escalation ends unpaid, and
\* one that is resolved is paid. Where the lease of a worker ran out while it was
\* at work, two workers refund one handoff, and with PostgreSQL the refusal of
\* the one may be recorded over the payment of the other (see RefundLedger).
EscalatedIsUnpaid ==
  \A h \in V2 :
    /\ authorization[h] = "ESCALATED" /\ (SerialWriters \/ h \notin outlasted) =>
         ~Paid(h)
    /\ authorization[h] = "RESOLVED" => Paid(h)

\* A case closes once: with one "done" event of its status, and in the status
\* of its authorization once that is closed, whether a return event, a worker,
\* a second worker or the bridge closed it.
ClosedOnce ==
  \A h \in V2 :
    /\ status[h] \in Closed <=> done[h] # <<>>
    /\ done[h] # <<>> => done[h] = <<status[h]>>
    /\ authorization[h] \in Closed => status[h] = authorization[h]

\* docs/spec/09 PV2-F01: while an authorization is open its item stays reserved
\* for it, however long the goods travel and whoever asks for the item, unless
\* the refund itself was refused.
HeldForTheReturn ==
  \A h \in V2 : authorization[h] \in Open /\ state[h] # "REJECTED" =>
    Ledger!Owns(h, content[h])

-----------------------------------------------------------------------------
(* Liveness. *)

\* An authorization that is executing is closed in the end, after whatever
\* faults, unless the bridge has escalated its case meanwhile.
ExecutionEnds ==
  \A h \in V2 :
    authorization[h] = "EXECUTING" ~> authorization[h] \in Closed \/ h \in rejected
=============================================================================
