---------------------------- MODULE RefundLedger ----------------------------
(***************************************************************************)
(* The refund execution ledger of the Case API                             *)
(* (apps/api/src/return_agent/capabilities/refund.py).                     *)
(*                                                                         *)
(* Concurrent executors (bridge tasks of several API replicas, fulfillment *)
(* workers) carry out refund requests against                              *)
(*   - refund_executions: one row per handoff: its request, state, and     *)
(*     whether an application attempt was started;                         *)
(*   - refund_item_reservations: the one execution that owns an item;      *)
(*   - refund_execution_items: the execution an item was refunded under;   *)
(*   - the payment provider, reached over the network, which the code      *)
(*     requires to be idempotent in the execution reference.               *)
(* Every action below is one provider call or one database transaction,    *)
(* but for create_rejected, which reads a row without locking it and        *)
(* writes it later: between two of them any other executor may run, or     *)
(* this one may die.                                                       *)
(* Definitions marked (fault) are slips the properties below must catch.   *)
(* An execution reference is a hash of the handoff id, so handoffs stand   *)
(* for execution references.                                               *)
(***************************************************************************)
EXTENDS Naturals, FiniteSets

CONSTANTS
  Handoffs,      \* handoff ids
  Items,         \* order line items, of all orders
  Requests,      \* contents of an ExecuteRefundRequest
  Executors,     \* threads that call execute()
  HandoffOf,     \* the handoff id in a request
  Scope,         \* the line items a request refunds
  V2,            \* handoffs of cases under policy schema v2
  SerialWriters, \* does the database run writing transactions one by one?
  None

ASSUME RequestsAssumption ==
  /\ HandoffOf \in [Requests -> Handoffs]
  /\ Scope \in [Requests -> SUBSET Items]
  /\ \A r \in Requests : Scope[r] # {}
  /\ V2 \subseteq Handoffs
  /\ SerialWriters \in BOOLEAN
  /\ None \notin Requests \cup Handoffs \cup {"APPLIED", "REJECTED"}

VARIABLES
  content,       \* request_payload of the row, None: no row
  state,         \* state column of the row
  started,       \* rows whose application_started_at is set
  reservation,   \* owner of each reserved item
  refunded,      \* execution each refunded item is stored under
  completions,   \* v2 handoffs with a row in refund_completion_outbox
  decision,      \* the provider's answer for each execution reference
  money,         \* requests whose refund the provider carried out
  pc,            \* next transaction or call of each executor
  req,           \* the request it works on
  result         \* the provider's answer it holds

ledger == <<content, state, started, reservation, refunded, completions>>
provider == <<decision, money>>
executor == <<pc, req, result>>
vars == <<content, state, started, reservation, refunded, completions,
          decision, money, pc, req, result>>

States == {"ABSENT", "IN_PROGRESS", "SUCCEEDED", "REJECTED"}
Terminal == {"SUCCEEDED", "REJECTED"}
Answers == {"APPLIED", "REJECTED"}
Places == {"idle", "authorize", "reject", "overwrite", "pend", "mark", "apply",
           "complete"}

TypeOK ==
  /\ content \in [Handoffs -> Requests \cup {None}]
  /\ state \in [Handoffs -> States]
  /\ started \in SUBSET Handoffs
  /\ reservation \in [Items -> Handoffs \cup {None}]
  /\ refunded \in [Items -> Handoffs \cup {None}]
  /\ completions \in SUBSET V2
  /\ decision \in [Handoffs -> Answers \cup {None}]
  /\ money \in SUBSET Requests
  /\ pc \in [Executors -> Places]
  /\ req \in [Executors -> Requests \cup {None}]
  /\ result \in [Executors -> Answers \cup {None}]

Init ==
  /\ content = [h \in Handoffs |-> None]
  /\ state = [h \in Handoffs |-> "ABSENT"]
  /\ started = {}
  /\ reservation = [i \in Items |-> None]
  /\ refunded = [i \in Items |-> None]
  /\ completions = {}
  /\ decision = [h \in Handoffs |-> None]
  /\ money = {}
  /\ pc = [e \in Executors |-> "idle"]
  /\ req = [e \in Executors |-> None]
  /\ result = [e \in Executors |-> None]

-----------------------------------------------------------------------------
(* What the transactions test. *)

\* _require_matching_payload: the handoff has no row, or one with this request.
Matches(r) == content[HandoffOf[r]] \in {None, r}

\* (fault) the savepoint is kept if any item of the scope could be reserved.
ReservableInPart(r) ==
  \E i \in Scope[r] : reservation[i] \in {None, HandoffOf[r]}

\* (fault) items of an execution that was not started yet may be taken over.
ReservableFromUnstarted(r) ==
  \A i \in Scope[r] : reservation[i] \notin started \ {HandoffOf[r]}

\* Every item of the request is free or already reserved for its execution.
Reservable(r) ==
  \A i \in Scope[r] : reservation[i] \in {None, HandoffOf[r]}

Owns(h, r) == \A i \in Scope[r] : reservation[i] = h

Reserve(r) ==
  reservation' = [i \in Items |-> IF i \in Scope[r] THEN HandoffOf[r]
                                                    ELSE reservation[i]]

\* (fault) only the first item of the scope is stored.
StoreOneItem(r) ==
  refunded' = [refunded EXCEPT ![CHOOSE i \in Scope[r] : TRUE] = HandoffOf[r]]

\* _store_successful_items; an item stored under another execution raises.
StoreItems(r) ==
  /\ \A i \in Scope[r] : refunded[i] \in {None, HandoffOf[r]}
  /\ refunded' = [i \in Items |-> IF i \in Scope[r] THEN HandoffOf[r]
                                                     ELSE refunded[i]]

\* The completion event of a success: cases under policy schema v2 have one.
Completion(h) == {h} \cap V2

\* (fault) a started execution is not taken up again.
OpenUnstarted(h) == state[h] \notin Terminal /\ h \notin started

\* execute has something left to do for the handoff.
Open(h) == state[h] \notin Terminal

\* (fault) create_rejected without its test of application_started_at.
RefusableOpen(h) == state[h] \notin Terminal

\* create_rejected may still turn the row into a rejection.
Refusable(h) ==
  state[h] = "ABSENT" \/ (state[h] = "IN_PROGRESS" /\ h \notin started)

Goto(e, place) == pc' = [pc EXCEPT ![e] = place]

Return(e) ==
  /\ Goto(e, "idle")
  /\ req' = [req EXCEPT ![e] = None]
  /\ result' = [result EXCEPT ![e] = None]

\* (fault) ON CONFLICT DO UPDATE in place of ON CONFLICT DO NOTHING.
Upsert(r, st) ==
  LET h == HandoffOf[r] IN
  /\ content' = [content EXCEPT ![h] = r]
  /\ state' = [state EXCEPT ![h] = st]

\* The row a request is inserted as, unless its handoff already has one.
Insert(r, st) ==
  LET h == HandoffOf[r] IN
  /\ content' = [content EXCEPT ![h] = r]
  /\ state' = [state EXCEPT ![h] = IF @ = "ABSENT" THEN st ELSE @]

-----------------------------------------------------------------------------
(* register_authorization, the ledger's part: a v2 authorization inserts   *)
(* its execution and reserves its items long before the refund runs.       *)
Register(r) ==
  LET h == HandoffOf[r] IN
  /\ h \in V2
  /\ Matches(r)
  /\ state[h] \in {"ABSENT", "IN_PROGRESS"}
  /\ h \notin started
  /\ Reservable(r)
  /\ Insert(r, "IN_PROGRESS")
  /\ Reserve(r)
  /\ UNCHANGED <<started, refunded, completions, provider, executor>>

-----------------------------------------------------------------------------
(* execute(), one transaction or call at a time. *)

\* find_by_handoff. A terminal row is answered at once, a started one is
\* resumed with its application, and everything else is authorized first.
\* A row with other content raises, which leaves every table as it was.
Begin(e, r) ==
  LET h == HandoffOf[r] IN
  /\ pc[e] = "idle"
  /\ Matches(r)
  /\ Open(h)
  /\ Goto(e, IF state[h] = "IN_PROGRESS" /\ h \in started
             THEN "mark" ELSE "authorize")
  /\ req' = [req EXCEPT ![e] = r]
  /\ UNCHANGED <<ledger, provider, result>>

\* load_authorization, _authorization_rejection, check_release and the
\* re-validation of handoff, review and human decision. They read gate and
\* risk settings, order and reviews that may change from call to call, so the
\* verdict is free, but for the reservations a v2 release must still own.
Authorize(e) ==
  /\ pc[e] = "authorize"
  /\ \/ /\ HandoffOf[req[e]] \in V2 => Owns(HandoffOf[req[e]], req[e])
        /\ Goto(e, "pend")
     \/ Goto(e, "reject")
  /\ UNCHANGED <<ledger, provider, req, result>>

\* create_rejected up to its SELECT, followed by _terminal_or_resume if the row
\* is left as it is. A refused request ends its execution unless an application
\* was started. A new row is inserted as rejected; a pending one is rejected by
\* an UPDATE at the end of the transaction. SQLite has locked the database for
\* the INSERT by then; PostgreSQL (READ COMMITTED) has locked nothing, since an
\* INSERT that does nothing takes no lock and the SELECT is not FOR UPDATE.
Reject(e) ==
  LET r == req[e] h == HandoffOf[r] IN
  /\ pc[e] = "reject"
  /\ Matches(r)
  /\ \/ /\ Refusable(h)
        /\ SerialWriters \/ state[h] = "ABSENT"
        /\ content' = [content EXCEPT ![h] = r]
        /\ state' = [state EXCEPT ![h] = "REJECTED"]
        /\ Return(e)
        /\ UNCHANGED <<started, reservation, refunded, completions>>
     \/ /\ Refusable(h)
        /\ ~SerialWriters /\ state[h] # "ABSENT"
        /\ Goto(e, "overwrite")
        /\ UNCHANGED <<ledger, req, result>>
     \/ /\ ~Refusable(h)
        /\ IF Open(h) THEN Goto(e, "mark") /\ UNCHANGED <<req, result>>
                      ELSE Return(e)
        /\ UNCHANGED ledger
  /\ UNCHANGED provider

\* The UPDATE of create_rejected: by primary key, whatever the row is by now.
Overwrite(e) ==
  /\ pc[e] = "overwrite"
  /\ state' = [state EXCEPT ![HandoffOf[req[e]]] = "REJECTED"]
  /\ Return(e)
  /\ UNCHANGED <<content, started, reservation, refunded, completions, provider>>

\* start_pending: insert the row, or take the one that is there.
Pend(e) ==
  /\ pc[e] = "pend"
  /\ Matches(req[e])
  /\ Insert(req[e], "IN_PROGRESS")
  /\ Goto(e, "mark")
  /\ UNCHANGED <<started, reservation, refunded, completions, provider, req, result>>

\* mark_application_started: reserve every item of the scope or none of them.
\* A conflict rejects an execution that was never started; one that was has
\* lost its reservation, which raises (Fail).
MarkStarted(e) ==
  LET r == req[e] h == HandoffOf[r] IN
  /\ pc[e] = "mark"
  /\ \/ /\ state[h] \in Terminal
        /\ Return(e)
        /\ UNCHANGED ledger
     \/ /\ state[h] = "IN_PROGRESS"
        /\ Reservable(r)
        /\ Reserve(r)
        /\ started' = started \cup {h}
        /\ Goto(e, "apply")
        /\ UNCHANGED <<content, state, refunded, completions, req, result>>
     \/ /\ state[h] = "IN_PROGRESS"
        /\ ~Reservable(r)
        /\ h \notin started
        /\ state' = [state EXCEPT ![h] = "REJECTED"]
        /\ Return(e)
        /\ UNCHANGED <<content, started, reservation, refunded, completions>>
  /\ UNCHANGED provider

\* RefundApplicationProvider.apply: the first call for an execution reference
\* decides, every later one replays that answer.
Apply(e) ==
  LET r == req[e] h == HandoffOf[r] IN
  /\ pc[e] = "apply"
  /\ \E answer \in Answers :
       /\ decision[h] \in {None, answer}
       /\ decision' = [decision EXCEPT ![h] = answer]
       /\ money' = IF decision[h] = None /\ answer = "APPLIED"
                   THEN money \cup {r} ELSE money
       /\ result' = [result EXCEPT ![e] = answer]
  /\ Goto(e, "complete")
  /\ UNCHANGED <<ledger, req>>

\* complete: record the answer once. An applied refund stores its items and,
\* under v2, its completion event; a refused one gives its reservations back.
Complete(e) ==
  LET r == req[e] h == HandoffOf[r] IN
  /\ pc[e] = "complete"
  /\ \/ /\ state[h] \in Terminal
        /\ UNCHANGED ledger
     \/ /\ state[h] = "IN_PROGRESS"
        /\ result[e] = "APPLIED"
        /\ state' = [state EXCEPT ![h] = "SUCCEEDED"]
        /\ StoreItems(r)
        /\ completions' = completions \cup Completion(h)
        /\ UNCHANGED <<content, started, reservation>>
     \/ /\ state[h] = "IN_PROGRESS"
        /\ result[e] = "REJECTED"
        /\ state' = [state EXCEPT ![h] = "REJECTED"]
        /\ reservation' = [i \in Items |-> IF reservation[i] = h THEN None
                                                                 ELSE reservation[i]]
        /\ UNCHANGED <<content, started, refunded, completions>>
  /\ Return(e)
  /\ UNCHANGED provider

\* A database or provider error, a provider answer that never arrives, or the
\* death of the process: execute() ends without a result
\* (RefundExecutionUnavailableError) and what is committed stays.
Fail(e) ==
  /\ pc[e] # "idle"
  /\ Return(e)
  /\ UNCHANGED <<ledger, provider>>

Next ==
  \/ \E r \in Requests : Register(r)
  \/ \E e \in Executors : \/ \E r \in Requests : Begin(e, r)
                          \/ Authorize(e)
                          \/ Reject(e)
                          \/ Overwrite(e)
                          \/ Pend(e)
                          \/ MarkStarted(e)
                          \/ Apply(e)
                          \/ Complete(e)
                          \/ Fail(e)

Spec == Init /\ [][Next]_vars

\* A call ends, with an answer or an error, and its caller repeats one that
\* ended without a result: the bridge leaves its event pending and reclaims
\* it, the fulfillment worker's lease expires. Strong fairness says that the
\* database and the provider are not down for good: a step that can be tried
\* again and again succeeds in the end.
Step(e) ==
  \/ Authorize(e) \/ Reject(e) \/ Overwrite(e) \/ Pend(e) \/ MarkStarted(e)
  \/ Apply(e) \/ Complete(e) \/ Fail(e)
Retry(r) == \E e \in Executors : Begin(e, r)
Fairness ==
  /\ \A e \in Executors : WF_vars(Step(e))
  /\ \A r \in Requests : SF_vars(Retry(r))
  /\ \A e \in Executors : /\ SF_vars(MarkStarted(e))
                          /\ SF_vars(Apply(e))
                          /\ SF_vars(Complete(e))

FairSpec == Spec /\ Fairness

-----------------------------------------------------------------------------
(* Refinement: what the ledger promises. *)

\* The answer a handoff's row stands for.
report == [h \in Handoffs |-> CASE state[h] = "SUCCEEDED" -> "succeeded"
                                [] state[h] = "REJECTED" -> "rejected"
                                [] OTHER -> "open"]

Promise == INSTANCE RefundPromise WITH paid <- money

\* Seen from outside, executors, reservations, retries, lost answers and dead
\* processes reduce to single payments, each followed by its true answer, where
\* SerialWriters.
RefinesPromise == Promise!Spec

-----------------------------------------------------------------------------
(* Safety. *)

\* README 4.4: an item reservation precedes the mutation. Whatever executors
\* race, fail and retry, and whichever executions the provider refuses in
\* between, no line item is refunded by two requests (refund.py: MarkStarted
\* reserves, create_rejected and complete must not free what is in flight).
NoItemPaidTwice ==
  \A r, s \in money : r # s => Scope[r] \cap Scope[s] = {}

\* docs/progress.md: what was applied for must not be renamed a definite
\* rejection. A rejection decided by one executor does not overtake the
\* application another one has started (the application_started_at test of
\* create_rejected), as long as SerialWriters; PostgreSQL lets it.
PaidNeverRejected ==
  \A r \in money : state[HandoffOf[r]] # "REJECTED"

\* A row reports success only for the request the provider carried out, with
\* each of its items stored and reserved under it; and a completion event is
\* sent only for a refund that was carried out and stored.
SuccessIsPaid ==
  /\ \A h \in Handoffs : state[h] = "SUCCEEDED" =>
       /\ content[h] \in money
       /\ \A i \in Scope[content[h]] : refunded[i] = h /\ reservation[i] = h
  /\ \A h \in completions :
       /\ content[h] \in money
       /\ \A i \in Scope[content[h]] : refunded[i] = h

\* README 4.4: while the outcome of a started application is unknown, its
\* execution keeps every item of its scope.
UnknownKeepsOwnership ==
  \A h \in Handoffs :
    state[h] = "IN_PROGRESS" /\ h \in started => Owns(h, content[h])

-----------------------------------------------------------------------------
(* Action properties. *)

\* A terminal row is final, where SerialWriters: later calls, retries and
\* conflicting requests for the same handoff change neither its outcome nor its
\* request.
TerminalIsFinal ==
  [][\A h \in Handoffs : state[h] \in Terminal =>
       state'[h] = state[h] /\ content'[h] = content[h]]_vars

\* A reserved item changes hands only by being freed, and is freed only when
\* the provider refused the refund of its owner: no third execution takes an
\* item over (complete deletes reservations, nothing else does).
ReservationHandover ==
  [][\A i \in Items : LET h == reservation[i] IN
       h # None /\ reservation'[i] # h =>
         /\ reservation'[i] = None
         /\ decision[h] = "REJECTED"
         /\ state'[h] = "REJECTED"]_vars

-----------------------------------------------------------------------------
(* Liveness. *)

\* A refund that the provider carried out is recorded as such in the end, from
\* whatever crash, lost answer or failed commit.
PaidIsRecorded ==
  \A r \in Requests : r \in money ~> state[HandoffOf[r]] = "SUCCEEDED"

\* An execution whose application was started ends with a result.
StartedEnds ==
  \A h \in Handoffs : h \in started ~> state[h] \in Terminal
=============================================================================
