-------------------------- MODULE FulfillmentProofs --------------------------
(***************************************************************************)
(* Theorems about Fulfillment, for any sets of handoffs, items, requests,  *)
(* executors, event ids and times, and any number of faults.               *)
(*                                                                         *)
(* What was returned, what was paid and what a case ends in are written by *)
(* different parties, into different tables, in different transactions.    *)
(* IInv says what each step leaves for the later ones:                     *)
(*   - an authorization has its row from the start (Rowed), a row its      *)
(*     request (Rows), and every executor of a v2 handoff is the worker    *)
(*     that leased it (ExecutorKnows);                                     *)
(*   - an inspection has its arrival among the receipts (InspectedFirst),  *)
(*     and whatever is about to apply for money, or did, passed the        *)
(*     release check, which no later event can undo (Backed);              *)
(*   - a worker's answer is what its row or the provider says              *)
(*     (AnswerKnown), and without an outlasted lease a worker is alone     *)
(*     with its handoff (Alone), so that nobody starts an application      *)
(*     between the SELECT and the UPDATE of its rejection (RejectionKnown);*)
(*   - a case that ended in escalation is rejected, or was never started   *)
(*     and is nobody's job (Ended).                                        *)
(***************************************************************************)
EXTENDS Fulfillment, TLAPS

Typed ==
  /\ Ledger!TypeOK
  /\ status \in [V2 -> Statuses]
  /\ done \in [V2 -> Seq(Closed)]
  /\ authorization \in [V2 -> Statuses \cup {None}]
  /\ consent \in [V2 -> {None, "accepted", "declined"}]
  /\ arrived \in [V2 -> EventIds \cup {None}]
  /\ inspection \in [V2 -> EventIds \cup {None}]
  /\ receipts \in SUBSET Events
  /\ lease \in [V2 -> Executors \cup {None}]
  /\ job \in [Executors -> V2 \cup {None}]
  /\ answer \in [Executors -> Ledger!States \cup {None}]
  /\ outlasted \in SUBSET V2

Rows ==
  \A h \in Handoffs :
    /\ state[h] = "ABSENT" <=> content[h] = None
    /\ content[h] # None => HandoffOf[content[h]] = h

Rowed == \A h \in V2 : authorization[h] # None => content[h] # None

\* The statuses in which goods are no longer awaited.
Decided == Closed \cup {"EXECUTING"}

Jobs ==
  \A w \in Executors : job[w] # None => authorization[job[w]] \in Decided

Knows(e) ==
  /\ pc[e] # "idle" =>
       /\ req[e] \in Requests
       /\ HandoffOf[req[e]] \in V2 => job[e] = HandoffOf[req[e]]
       /\ job[e] # None => job[e] = HandoffOf[req[e]]
  /\ pc[e] \in {"overwrite", "mark", "apply", "complete"} =>
       content[HandoffOf[req[e]]] = req[e]
  /\ pc[e] \in {"apply", "complete"} => HandoffOf[req[e]] \in started
  /\ pc[e] = "complete" => /\ result[e] \in Ledger!Answers
                           /\ result[e] = decision[HandoffOf[req[e]]]

ExecutorKnows == \A e \in Executors : Knows(e)

DecisionKnown ==
  \A h \in Handoffs :
    /\ h \in started => content[h] # None
    /\ decision[h] # None => h \in started
    /\ decision[h] = "APPLIED" => content[h] \in money
    /\ state[h] = "SUCCEEDED" => decision[h] = "APPLIED"

MoneyKnown ==
  \A r \in money : /\ content[HandoffOf[r]] = r
                   /\ decision[HandoffOf[r]] = "APPLIED"

\* The arrival an inspection names was reported before, and no later.
ArrivedFor(m) ==
  \E a \in receipts : /\ a.id = m.arrival
                      /\ a.handoff = m.handoff
                      /\ a.type = "RETURN_ARRIVED"
                      /\ a.at <= m.at

InspectedFirst == \A m \in receipts : m.type \in Inspections => ArrivedFor(m)

\* check_release let the request pass, with the arrival behind its inspection.
Passed(r) ==
  LET h == HandoffOf[r] IN
  h \in V2 =>
    /\ authorization[h] \in Decided
    /\ r \in NeedsReturn =>
         /\ consent[h] = "accepted"
         /\ \E m \in receipts : /\ m.handoff = h
                                /\ m.id = inspection[h]
                                /\ m.type = "INSPECTION_PASSED"
                                /\ m.arrival = arrived[h]

Backed ==
  /\ \A e \in Executors : pc[e] \in {"pend", "mark", "apply", "complete"} =>
                            Passed(req[e])
  /\ \A h \in started : Passed(content[h])

AnswerTrue(w) ==
  /\ job[w] # None
  /\ pc[w] = "idle"
  /\ answer[w] \in Ledger!Terminal
  /\ answer[w] = "SUCCEEDED" => decision[job[w]] = "APPLIED"
  /\ answer[w] = "REJECTED" => state[job[w]] = "REJECTED"

AnswerKnown == \A w \in Executors : answer[w] # None => AnswerTrue(w)

\* The worker that leased a handoff is the only one that works for it.
Alone == \A w \in Executors : job[w] # None /\ job[w] \notin outlasted =>
           lease[job[w]] = w

Sole(h) == SerialWriters \/ h \notin outlasted

RejectionKnown ==
  /\ \A h \in V2 : Sole(h) /\ h \in started /\ state[h] = "REJECTED" =>
                     decision[h] = "REJECTED"
  /\ \A e \in Executors : pc[e] = "overwrite" =>
       /\ ~SerialWriters
       /\ HandoffOf[req[e]] \in V2 /\ HandoffOf[req[e]] \notin outlasted =>
            HandoffOf[req[e]] \notin started

Ended ==
  \A h \in V2 :
    /\ authorization[h] = "RESOLVED" => decision[h] = "APPLIED"
    /\ authorization[h] = "ESCALATED" /\ Sole(h) =>
         \/ state[h] = "REJECTED"
         \/ h \notin started /\ \A w \in Executors : job[w] # h

IInv ==
  /\ Typed
  /\ Rows
  /\ Rowed
  /\ Jobs
  /\ ExecutorKnows
  /\ DecisionKnown
  /\ MoneyKnown
  /\ InspectedFirst
  /\ Backed
  /\ AnswerKnown
  /\ Alone
  /\ RejectionKnown
  /\ Ended
  /\ ClosedOnce
  /\ HeldForTheReturn

-----------------------------------------------------------------------------
(* What a step may do. *)

LEMMA LedgerUnchanged ==
  ASSUME UNCHANGED ledgerVars
  PROVE  UNCHANGED Ledger!vars
  BY DEF ledgerVars, Ledger!vars

\* The authorization of a job has a row, with a request of the handoff.
LEMMA JobHasRow ==
  ASSUME IInv, NEW w \in Executors, job[w] # None
  PROVE  /\ job[w] \in V2 /\ job[w] \in Handoffs
         /\ content[job[w]] \in Requests
         /\ HandoffOf[content[job[w]]] = job[w]
<1>1. job[w] \in V2 /\ job[w] \in Handoffs
  BY LedgerAssumption DEF IInv, Typed
<1>2. authorization[job[w]] # None
  BY FulfillmentAssumption DEF IInv, Jobs, Decided, Closed, Statuses
<1>3. content[job[w]] # None
  BY <1>1, <1>2 DEF IInv, Rowed
<1>4. content \in [Handoffs -> Requests \cup {None}]
  BY DEF IInv, Typed, Ledger!TypeOK
<1>5. HandoffOf[content[job[w]]] = job[w]
  BY <1>1, <1>3 DEF IInv, Rows
<1> QED
  BY <1>1, <1>3, <1>4, <1>5

\* Every step is one of the ledger, or leaves the ledger alone.
LEMMA StepsOfTheLedger ==
  ASSUME IInv, [Next]_vars
  PROVE  [Ledger!Next]_(Ledger!vars)
<1>1. ASSUME NEW r \in Requests, RegisterAuthorization(r) PROVE Ledger!Next
  BY <1>1 DEF RegisterAuthorization, Enter, Ledger!Next
<1>2. ASSUME NEW e \in Executors, Execute(e)
      PROVE  Ledger!Next \/ UNCHANGED Ledger!vars
  <2>1. content[job[e]] \in Requests
    BY <1>2, JobHasRow DEF Execute
  <2> QED
    BY <1>2, <2>1, LedgerUnchanged DEF Execute, Ledger!Next
<1>3. ASSUME NEW e \in Executors, NEW r \in Requests, ExecuteV1(e, r)
      PROVE  Ledger!Next
  BY <1>3 DEF ExecuteV1, Ledger!Next
<1>4. ASSUME NEW e \in Executors, ExecutorStep(e) PROVE Ledger!Next
  BY <1>4 DEF ExecutorStep, Ledger!Next
<1>5. ASSUME NEW e \in Executors, ExecutorFails(e)
      PROVE  Ledger!Next \/ UNCHANGED Ledger!vars
  BY <1>5, LedgerUnchanged DEF ExecutorFails, Ledger!Next
<1>6. CASE \/ \E h \in V2, accept \in BOOLEAN : ConfirmReturn(h, accept)
           \/ \E h \in V2 : EscalateByBridge(h)
           \/ \E m \in Events : AcceptReturnEvent(m)
           \/ \E e \in Executors, h \in V2 : Lease(e, h)
           \/ \E e \in Executors : Finish(e)
  BY <1>6, LedgerUnchanged
  DEF ConfirmReturn, EscalateByBridge, AcceptReturnEvent, Lease, Finish
<1>7. CASE UNCHANGED vars
  BY <1>7 DEF vars, Ledger!vars
<1> QED
  BY <1>1, <1>2, <1>3, <1>4, <1>5, <1>6, <1>7 DEF Next

-----------------------------------------------------------------------------
(* What the steps of the ledger keep. *)

\* What is committed stays: a row keeps its request, a rejection its outcome,
\* a started execution its start, the provider its decision.
Grows ==
  /\ \A h \in Handoffs :
       /\ content[h] # None => content'[h] = content[h]
       /\ state[h] = "REJECTED" => state'[h] = "REJECTED"
       /\ decision[h] # None => decision'[h] = decision[h]
  /\ started \subseteq started'
  /\ money \subseteq money'

\* The tables of the ledger keep their types.
LEMMA LedgerTyped ==
  ASSUME IInv, [Ledger!Next]_(Ledger!vars)
  PROVE  Ledger!TypeOK'
<1> USE LedgerAssumption
<1>0. Ledger!TypeOK /\ Rows /\ ExecutorKnows /\ DecisionKnown /\ MoneyKnown
  BY DEF IInv, Typed
<1> USE <1>0
    DEF Ledger!TypeOK, Ledger!States, Ledger!Answers, Ledger!Places,
        Ledger!Terminal, Ledger!ledger, Ledger!provider, Ledger!executor,
        Ledger!Goto, Ledger!Return, Ledger!Open
<1>1. ASSUME NEW r \in Requests, Ledger!Register(r)
      PROVE  Ledger!TypeOK'
  BY <1>1 DEF Ledger!Register, Ledger!Insert, Ledger!Reserve, ExecutorKnows,
     Knows
<1>2. ASSUME NEW e \in Executors, NEW r \in Requests, Ledger!Begin(e, r)
      PROVE  Ledger!TypeOK'
  BY <1>2 DEF Ledger!Begin, ExecutorKnows, Knows
<1>3. ASSUME NEW e \in Executors, Ledger!Authorize(e)
      PROVE  Ledger!TypeOK'
  BY <1>3 DEF Ledger!Authorize, ExecutorKnows, Knows
<1>4. ASSUME NEW e \in Executors, Ledger!Reject(e)
      PROVE  Ledger!TypeOK'
  BY <1>4 DEF Ledger!Reject, ExecutorKnows, Knows
<1>5. ASSUME NEW e \in Executors, Ledger!Overwrite(e)
      PROVE  Ledger!TypeOK'
  BY <1>5 DEF Ledger!Overwrite, ExecutorKnows, Knows
<1>6. ASSUME NEW e \in Executors, Ledger!Pend(e)
      PROVE  Ledger!TypeOK'
  BY <1>6 DEF Ledger!Pend, Ledger!Insert, ExecutorKnows, Knows
<1>7. ASSUME NEW e \in Executors, Ledger!MarkStarted(e)
      PROVE  Ledger!TypeOK'
  <2>1. HandoffOf[req[e]] \in Handoffs
    BY <1>7 DEF Ledger!MarkStarted, ExecutorKnows, Knows
  <2>2. reservation' \in [Items -> Handoffs \cup {None}]
    BY <1>7, <2>1 DEF Ledger!MarkStarted, Ledger!Reserve
  <2> QED
    BY <1>7, <2>1, <2>2 DEF Ledger!MarkStarted
<1>8. ASSUME NEW e \in Executors, Ledger!Apply(e)
      PROVE  Ledger!TypeOK'
  BY <1>8 DEF Ledger!Apply, ExecutorKnows, Knows
<1>9. ASSUME NEW e \in Executors, Ledger!Complete(e)
      PROVE  Ledger!TypeOK'
  BY <1>9 DEF Ledger!Complete, Ledger!StoreItems, Ledger!Completion,
     ExecutorKnows, Knows
<1>10. ASSUME NEW e \in Executors, Ledger!Fail(e)
      PROVE  Ledger!TypeOK'
  BY <1>10 DEF Ledger!Fail, ExecutorKnows, Knows
<1>11. CASE UNCHANGED Ledger!vars
  BY <1>11 DEF Ledger!vars, ExecutorKnows, Knows
<1> QED
  BY <1>1, <1>2, <1>3, <1>4, <1>5, <1>6, <1>7, <1>8, <1>9, <1>10, <1>11 DEF Ledger!Next

\* What is committed stays: a row keeps its request, a rejection its outcome,
\* an execution that was started its start, the provider its decision.
LEMMA LedgerGrows ==
  ASSUME IInv, [Ledger!Next]_(Ledger!vars)
  PROVE  Grows
<1> USE LedgerAssumption
<1>0. Ledger!TypeOK /\ Rows /\ ExecutorKnows /\ DecisionKnown /\ MoneyKnown
  BY DEF IInv, Typed
<1> USE <1>0
    DEF Ledger!TypeOK, Ledger!States, Ledger!Answers, Ledger!Places,
        Ledger!Terminal, Ledger!ledger, Ledger!provider, Ledger!executor,
        Ledger!Goto, Ledger!Return, Ledger!Open, Grows
<1>1. ASSUME NEW r \in Requests, Ledger!Register(r)
      PROVE  Grows
  BY <1>1 DEF Ledger!Register, Ledger!Insert, Ledger!Reserve, Ledger!Matches,
     Ledger!Reservable, Rows, ExecutorKnows, Knows
<1>2. ASSUME NEW e \in Executors, NEW r \in Requests, Ledger!Begin(e, r)
      PROVE  Grows
  BY <1>2 DEF Ledger!Begin, Ledger!Matches, Rows, ExecutorKnows, Knows
<1>3. ASSUME NEW e \in Executors, Ledger!Authorize(e)
      PROVE  Grows
  BY <1>3 DEF Ledger!Authorize, Rows, ExecutorKnows, Knows
<1>4. ASSUME NEW e \in Executors, Ledger!Reject(e)
      PROVE  Grows
  BY <1>4 DEF Ledger!Reject, Ledger!Matches, Ledger!Refusable, Rows,
     ExecutorKnows, Knows
<1>5. ASSUME NEW e \in Executors, Ledger!Overwrite(e)
      PROVE  Grows
  BY <1>5 DEF Ledger!Overwrite, Rows, ExecutorKnows, Knows
<1>6. ASSUME NEW e \in Executors, Ledger!Pend(e)
      PROVE  Grows
  BY <1>6 DEF Ledger!Pend, Ledger!Matches, Ledger!Insert, Rows, ExecutorKnows,
     Knows
<1>7. ASSUME NEW e \in Executors, Ledger!MarkStarted(e)
      PROVE  Grows
  BY <1>7 DEF Ledger!MarkStarted, Ledger!Reserve, Ledger!Reservable, Rows,
     ExecutorKnows, Knows
<1>8. ASSUME NEW e \in Executors, Ledger!Apply(e)
      PROVE  Grows
  BY <1>8 DEF Ledger!Apply, Rows, ExecutorKnows, Knows
<1>9. ASSUME NEW e \in Executors, Ledger!Complete(e)
      PROVE  Grows
  BY <1>9 DEF Ledger!Complete, Ledger!StoreItems, Ledger!Completion, Rows,
     ExecutorKnows, Knows
<1>10. ASSUME NEW e \in Executors, Ledger!Fail(e)
      PROVE  Grows
  BY <1>10 DEF Ledger!Fail, Rows, ExecutorKnows, Knows
<1>11. CASE UNCHANGED Ledger!vars
  BY <1>11 DEF Ledger!vars, Rows, ExecutorKnows, Knows
<1> QED
  BY <1>1, <1>2, <1>3, <1>4, <1>5, <1>6, <1>7, <1>8, <1>9, <1>10, <1>11 DEF Ledger!Next

\* A row has one request, of its handoff.
LEMMA RowsKept ==
  ASSUME IInv, [Ledger!Next]_(Ledger!vars)
  PROVE  Rows'
<1> USE LedgerAssumption
<1>0. Ledger!TypeOK /\ Rows /\ ExecutorKnows /\ DecisionKnown /\ MoneyKnown
  BY DEF IInv, Typed
<1> USE <1>0
    DEF Ledger!TypeOK, Ledger!States, Ledger!Answers, Ledger!Places,
        Ledger!Terminal, Ledger!ledger, Ledger!provider, Ledger!executor,
        Ledger!Goto, Ledger!Return, Ledger!Open
<1>1. ASSUME NEW r \in Requests, Ledger!Register(r)
      PROVE  Rows'
  BY <1>1 DEF Ledger!Register, Ledger!Insert, Ledger!Reserve, Ledger!Matches,
     Ledger!Reservable, Rows, ExecutorKnows, Knows
<1>2. ASSUME NEW e \in Executors, NEW r \in Requests, Ledger!Begin(e, r)
      PROVE  Rows'
  BY <1>2 DEF Ledger!Begin, Ledger!Matches, Rows, ExecutorKnows, Knows
<1>3. ASSUME NEW e \in Executors, Ledger!Authorize(e)
      PROVE  Rows'
  BY <1>3 DEF Ledger!Authorize, Rows, ExecutorKnows, Knows
<1>4. ASSUME NEW e \in Executors, Ledger!Reject(e)
      PROVE  Rows'
  BY <1>4 DEF Ledger!Reject, Ledger!Matches, Ledger!Refusable, Rows,
     ExecutorKnows, Knows
<1>5. ASSUME NEW e \in Executors, Ledger!Overwrite(e)
      PROVE  Rows'
  BY <1>5 DEF Ledger!Overwrite, Rows, ExecutorKnows, Knows
<1>6. ASSUME NEW e \in Executors, Ledger!Pend(e)
      PROVE  Rows'
  BY <1>6 DEF Ledger!Pend, Ledger!Matches, Ledger!Insert, Rows, ExecutorKnows,
     Knows
<1>7. ASSUME NEW e \in Executors, Ledger!MarkStarted(e)
      PROVE  Rows'
  BY <1>7 DEF Ledger!MarkStarted, Ledger!Reserve, Ledger!Reservable, Rows,
     ExecutorKnows, Knows
<1>8. ASSUME NEW e \in Executors, Ledger!Apply(e)
      PROVE  Rows'
  BY <1>8 DEF Ledger!Apply, Rows, ExecutorKnows, Knows
<1>9. ASSUME NEW e \in Executors, Ledger!Complete(e)
      PROVE  Rows'
  BY <1>9 DEF Ledger!Complete, Ledger!StoreItems, Ledger!Completion, Rows,
     ExecutorKnows, Knows
<1>10. ASSUME NEW e \in Executors, Ledger!Fail(e)
      PROVE  Rows'
  BY <1>10 DEF Ledger!Fail, Rows, ExecutorKnows, Knows
<1>11. CASE UNCHANGED Ledger!vars
  BY <1>11 DEF Ledger!vars, Rows, ExecutorKnows, Knows
<1> QED
  BY <1>1, <1>2, <1>3, <1>4, <1>5, <1>6, <1>7, <1>8, <1>9, <1>10, <1>11 DEF Ledger!Next

\* The provider has decided about started executions only.
LEMMA DecisionsKept ==
  ASSUME IInv, [Ledger!Next]_(Ledger!vars)
  PROVE  DecisionKnown'
<1> USE LedgerAssumption
<1>0. Ledger!TypeOK /\ Rows /\ ExecutorKnows /\ DecisionKnown /\ MoneyKnown
  BY DEF IInv, Typed
<1> USE <1>0
    DEF Ledger!TypeOK, Ledger!States, Ledger!Answers, Ledger!Places,
        Ledger!Terminal, Ledger!ledger, Ledger!provider, Ledger!executor,
        Ledger!Goto, Ledger!Return, Ledger!Open
<1>1. ASSUME NEW r \in Requests, Ledger!Register(r)
      PROVE  DecisionKnown'
  BY <1>1 DEF Ledger!Register, Ledger!Insert, Ledger!Reserve, Ledger!Matches,
     Ledger!Reservable, Rows, ExecutorKnows, Knows, DecisionKnown
<1>2. ASSUME NEW e \in Executors, NEW r \in Requests, Ledger!Begin(e, r)
      PROVE  DecisionKnown'
  BY <1>2 DEF Ledger!Begin, Ledger!Matches, Rows, ExecutorKnows, Knows,
     DecisionKnown
<1>3. ASSUME NEW e \in Executors, Ledger!Authorize(e)
      PROVE  DecisionKnown'
  BY <1>3 DEF Ledger!Authorize, Rows, ExecutorKnows, Knows, DecisionKnown
<1>4. ASSUME NEW e \in Executors, Ledger!Reject(e)
      PROVE  DecisionKnown'
  BY <1>4 DEF Ledger!Reject, Ledger!Matches, Ledger!Refusable, Rows,
     ExecutorKnows, Knows, DecisionKnown
<1>5. ASSUME NEW e \in Executors, Ledger!Overwrite(e)
      PROVE  DecisionKnown'
  BY <1>5 DEF Ledger!Overwrite, Rows, ExecutorKnows, Knows, DecisionKnown
<1>6. ASSUME NEW e \in Executors, Ledger!Pend(e)
      PROVE  DecisionKnown'
  BY <1>6 DEF Ledger!Pend, Ledger!Matches, Ledger!Insert, Rows, ExecutorKnows,
     Knows, DecisionKnown
<1>7. ASSUME NEW e \in Executors, Ledger!MarkStarted(e)
      PROVE  DecisionKnown'
  BY <1>7 DEF Ledger!MarkStarted, Ledger!Reserve, Ledger!Reservable, Rows,
     ExecutorKnows, Knows, DecisionKnown
<1>8. ASSUME NEW e \in Executors, Ledger!Apply(e)
      PROVE  DecisionKnown'
  BY <1>8 DEF Ledger!Apply, Rows, ExecutorKnows, Knows, DecisionKnown
<1>9. ASSUME NEW e \in Executors, Ledger!Complete(e)
      PROVE  DecisionKnown'
  BY <1>9 DEF Ledger!Complete, Ledger!StoreItems, Ledger!Completion, Rows,
     ExecutorKnows, Knows, DecisionKnown
<1>10. ASSUME NEW e \in Executors, Ledger!Fail(e)
      PROVE  DecisionKnown'
  BY <1>10 DEF Ledger!Fail, Rows, ExecutorKnows, Knows, DecisionKnown
<1>11. CASE UNCHANGED Ledger!vars
  BY <1>11 DEF Ledger!vars, Rows, ExecutorKnows, Knows, DecisionKnown
<1> QED
  BY <1>1, <1>2, <1>3, <1>4, <1>5, <1>6, <1>7, <1>8, <1>9, <1>10, <1>11 DEF Ledger!Next

\* Money moves for the request of the row.
LEMMA MoneyKept ==
  ASSUME IInv, [Ledger!Next]_(Ledger!vars)
  PROVE  MoneyKnown'
<1> USE LedgerAssumption
<1>0. Ledger!TypeOK /\ Rows /\ ExecutorKnows /\ DecisionKnown /\ MoneyKnown
  BY DEF IInv, Typed
<1> USE <1>0
    DEF Ledger!TypeOK, Ledger!States, Ledger!Answers, Ledger!Places,
        Ledger!Terminal, Ledger!ledger, Ledger!provider, Ledger!executor,
        Ledger!Goto, Ledger!Return, Ledger!Open
<1>1. ASSUME NEW r \in Requests, Ledger!Register(r)
      PROVE  MoneyKnown'
  BY <1>1 DEF Ledger!Register, Ledger!Insert, Ledger!Reserve, Ledger!Matches,
     Ledger!Reservable, Rows, ExecutorKnows, Knows, DecisionKnown, MoneyKnown
<1>2. ASSUME NEW e \in Executors, NEW r \in Requests, Ledger!Begin(e, r)
      PROVE  MoneyKnown'
  BY <1>2 DEF Ledger!Begin, Ledger!Matches, Rows, ExecutorKnows, Knows,
     DecisionKnown, MoneyKnown
<1>3. ASSUME NEW e \in Executors, Ledger!Authorize(e)
      PROVE  MoneyKnown'
  BY <1>3 DEF Ledger!Authorize, Rows, ExecutorKnows, Knows, DecisionKnown,
     MoneyKnown
<1>4. ASSUME NEW e \in Executors, Ledger!Reject(e)
      PROVE  MoneyKnown'
  BY <1>4 DEF Ledger!Reject, Ledger!Matches, Ledger!Refusable, Rows,
     ExecutorKnows, Knows, DecisionKnown, MoneyKnown
<1>5. ASSUME NEW e \in Executors, Ledger!Overwrite(e)
      PROVE  MoneyKnown'
  BY <1>5 DEF Ledger!Overwrite, Rows, ExecutorKnows, Knows, DecisionKnown,
     MoneyKnown
<1>6. ASSUME NEW e \in Executors, Ledger!Pend(e)
      PROVE  MoneyKnown'
  BY <1>6 DEF Ledger!Pend, Ledger!Matches, Ledger!Insert, Rows, ExecutorKnows,
     Knows, DecisionKnown, MoneyKnown
<1>7. ASSUME NEW e \in Executors, Ledger!MarkStarted(e)
      PROVE  MoneyKnown'
  BY <1>7 DEF Ledger!MarkStarted, Ledger!Reserve, Ledger!Reservable, Rows,
     ExecutorKnows, Knows, DecisionKnown, MoneyKnown
<1>8. ASSUME NEW e \in Executors, Ledger!Apply(e)
      PROVE  MoneyKnown'
  BY <1>8 DEF Ledger!Apply, Rows, ExecutorKnows, Knows, DecisionKnown,
     MoneyKnown
<1>9. ASSUME NEW e \in Executors, Ledger!Complete(e)
      PROVE  MoneyKnown'
  BY <1>9 DEF Ledger!Complete, Ledger!StoreItems, Ledger!Completion, Rows,
     ExecutorKnows, Knows, DecisionKnown, MoneyKnown
<1>10. ASSUME NEW e \in Executors, Ledger!Fail(e)
      PROVE  MoneyKnown'
  BY <1>10 DEF Ledger!Fail, Rows, ExecutorKnows, Knows, DecisionKnown,
     MoneyKnown
<1>11. CASE UNCHANGED Ledger!vars
  BY <1>11 DEF Ledger!vars, Rows, ExecutorKnows, Knows, DecisionKnown,
     MoneyKnown
<1> QED
  BY <1>1, <1>2, <1>3, <1>4, <1>5, <1>6, <1>7, <1>8, <1>9, <1>10, <1>11 DEF Ledger!Next

-----------------------------------------------------------------------------
(* What the steps of the case and of the return keep. *)

\* An authorization is not lost, and one for which nothing is awaited any more
\* keeps the consent and the events it was released by.
AuthorizationGrows ==
  \A h \in V2 :
    /\ authorization[h] # None => authorization'[h] # None
    /\ authorization[h] \in Decided =>
         /\ authorization'[h] \in Decided
         /\ consent'[h] = consent[h]
         /\ arrived'[h] = arrived[h]
         /\ inspection'[h] = inspection[h]

LEMMA AuthorizationStays ==
  ASSUME IInv, [Next]_vars
  PROVE  AuthorizationGrows
<1>0. Typed /\ None \notin Decided /\ None \notin Statuses
  BY FulfillmentAssumption DEF IInv, Decided, Closed, Statuses
<1> USE <1>0, LedgerAssumption
    DEF Typed, AuthorizationGrows, Decided, Closed, Transition
<1>1. ASSUME NEW r \in Requests, RegisterAuthorization(r)
      PROVE  AuthorizationGrows
  <2>1. HandoffOf[r] \in V2 /\ authorization[HandoffOf[r]] = None
    BY <1>1 DEF RegisterAuthorization
  <2>2. \A h \in V2 \ {HandoffOf[r]} :
          authorization'[h] = authorization[h] /\ consent'[h] = consent[h]
    BY <1>1 DEF RegisterAuthorization
  <2> QED
    BY <1>1, <2>1, <2>2 DEF RegisterAuthorization
<1>2. ASSUME NEW h \in V2, NEW accept \in BOOLEAN, ConfirmReturn(h, accept)
      PROVE  AuthorizationGrows
  <2>1. authorization[h] = "AWAITING_RETURN_CONFIRMATION"
    BY <1>2 DEF ConfirmReturn, AsksForConsent
  <2>2. authorization'[h] # None /\ UNCHANGED <<arrived, inspection>>
    BY <1>2 DEF ConfirmReturn, Statuses, ReturnStatuses
  <2>3. \A k \in V2 \ {h} :
          authorization'[k] = authorization[k] /\ consent'[k] = consent[k]
    BY <1>2 DEF ConfirmReturn
  <2> QED
    BY <2>1, <2>2, <2>3
<1>3. ASSUME NEW h \in V2, EscalateByBridge(h) PROVE AuthorizationGrows
  BY <1>3 DEF EscalateByBridge, returnVars
<1>4. ASSUME NEW m \in Events, AcceptReturnEvent(m) PROVE AuthorizationGrows
  <2> DEFINE h == m.handoff
  <2>1. authorization[h] \in {"AWAITING_RETURN", "AWAITING_RETURN_INSPECTION"}
    BY <1>4 DEF AcceptReturnEvent, Arrives, Inspected, Overdue
  <2>2. h \in V2 /\ authorization'[h] # None /\ UNCHANGED consent
    BY <1>4 DEF AcceptReturnEvent, Events, Statuses, ReturnStatuses
  <2>3. \A k \in V2 \ {h} :
          /\ authorization'[k] = authorization[k]
          /\ arrived'[k] = arrived[k] /\ inspection'[k] = inspection[k]
    BY <1>4 DEF AcceptReturnEvent
  <2> QED
    BY <2>1, <2>2, <2>3
<1>5. ASSUME NEW e \in Executors,
             \/ \E h \in V2 : Lease(e, h)
             \/ Execute(e) \/ \E r \in Requests : ExecuteV1(e, r)
             \/ ExecutorStep(e) \/ ExecutorFails(e)
      PROVE  AuthorizationGrows
  BY <1>5 DEF Lease, Execute, ExecuteV1, ExecutorStep, ExecutorFails, returnVars
<1>6. ASSUME NEW e \in Executors, Finish(e) PROVE AuthorizationGrows
  BY <1>6 DEF Finish, returnVars, caseVars
<1>7. CASE UNCHANGED vars
  BY <1>7 DEF vars
<1> QED
  BY <1>1, <1>2, <1>3, <1>4, <1>5, <1>6, <1>7 DEF Next

\* Receipts and outlasted leases are kept.
LEMMA RecordsStay ==
  ASSUME IInv, [Next]_vars
  PROVE  receipts \subseteq receipts' /\ outlasted \subseteq outlasted'
  BY DEF Next, RegisterAuthorization, ConfirmReturn, EscalateByBridge,
         AcceptReturnEvent, Lease, Execute, ExecuteV1, ExecutorStep, ExecutorFails,
         Finish, returnVars, workerVars, vars

\* What passed the release check still does after any step.
LEMMA PassedStays ==
  ASSUME IInv, [Next]_vars, NEW r \in Requests, Passed(r)
  PROVE  Passed(r)'
  BY AuthorizationStays, RecordsStay DEF Passed, AuthorizationGrows

-----------------------------------------------------------------------------
(* The types. *)

\* A case and its authorization move to statuses.
LEMMA TransitionTyped ==
  ASSUME Typed, NEW h \in V2, NEW target \in Statuses, Transition(h, target)
  PROVE  /\ status' \in [V2 -> Statuses]
         /\ done' \in [V2 -> Seq(Closed)]
         /\ authorization' \in [V2 -> Statuses \cup {None}]
<1>1. /\ status' \in [V2 -> Statuses]
      /\ authorization' \in [V2 -> Statuses \cup {None}]
  BY DEF Typed, Transition
<1>2. CASE target \in Closed /\ status[h] # target
  <2>1. Append(done[h], target) \in Seq(Closed)
    BY <1>2 DEF Typed
  <2>2. done' = [done EXCEPT ![h] = Append(done[h], target)]
    BY <1>2 DEF Transition, Announce
  <2>3. done' \in [V2 -> Seq(Closed)]
    BY <2>1, <2>2 DEF Typed
  <2> QED
    BY <1>1, <2>3
<1>3. CASE ~(target \in Closed /\ status[h] # target)
  BY <1>1, <1>3 DEF Typed, Transition, Announce
<1> QED
  BY <1>2, <1>3

LEMMA TypedKept == ASSUME IInv, [Next]_vars PROVE Typed'
<1>0. /\ Typed /\ Ledger!TypeOK'
      /\ Statuses \cap {"EXECUTING", "RESOLVED", "ESCALATED", "AWAITING_RETURN",
                        "AWAITING_RETURN_INSPECTION",
                        "AWAITING_RETURN_CONFIRMATION"}
           = {"EXECUTING", "RESOLVED", "ESCALATED", "AWAITING_RETURN",
              "AWAITING_RETURN_INSPECTION", "AWAITING_RETURN_CONFIRMATION"}
  BY StepsOfTheLedger, LedgerTyped DEF IInv, Statuses, ReturnStatuses, Closed
<1>1. ASSUME NEW r \in Requests, RegisterAuthorization(r) PROVE Typed'
  <2>1. PICK target \in Statuses : Transition(HandoffOf[r], target)
    BY <1>0, <1>1 DEF RegisterAuthorization
  <2>2. HandoffOf[r] \in V2
    BY <1>1 DEF RegisterAuthorization
  <2>3. consent' \in [V2 -> {None, "accepted", "declined"}]
    BY <1>0, <1>1 DEF RegisterAuthorization, Typed
  <2>4. UNCHANGED <<arrived, inspection, receipts, workerVars>>
    BY <1>1 DEF RegisterAuthorization
  <2> QED
    BY <1>0, <2>1, <2>2, <2>3, <2>4, TransitionTyped DEF Typed, workerVars
<1>2. ASSUME NEW h \in V2, NEW accept \in BOOLEAN, ConfirmReturn(h, accept)
      PROVE  Typed'
  <2>1. PICK target \in Statuses : Transition(h, target)
    BY <1>0, <1>2 DEF ConfirmReturn
  <2>2. consent' \in [V2 -> {None, "accepted", "declined"}]
    BY <1>0, <1>2 DEF ConfirmReturn, Typed
  <2>3. UNCHANGED <<arrived, inspection, receipts, workerVars>>
    BY <1>2 DEF ConfirmReturn
  <2> QED
    BY <1>0, <2>1, <2>2, <2>3, TransitionTyped DEF Typed, workerVars
<1>3. ASSUME NEW h \in V2, EscalateByBridge(h) PROVE Typed'
  <2>1. Append(done[h], "ESCALATED") \in Seq(Closed)
    BY <1>0 DEF Typed, Closed
  <2>2. status' \in [V2 -> Statuses] /\ done' \in [V2 -> Seq(Closed)]
    BY <1>0, <1>3, <2>1 DEF EscalateByBridge, Typed
  <2>3. UNCHANGED <<authorization, returnVars, workerVars>>
    BY <1>3 DEF EscalateByBridge
  <2> QED
    BY <1>0, <2>2, <2>3 DEF Typed, returnVars, workerVars
<1>4. ASSUME NEW m \in Events, AcceptReturnEvent(m) PROVE Typed'
  <2>1. m.handoff \in V2 /\ m.id \in EventIds
    BY DEF Events
  <2>2. PICK target \in Statuses : Transition(m.handoff, target)
    BY <1>0, <1>4 DEF AcceptReturnEvent
  <2>3. /\ arrived' \in [V2 -> EventIds \cup {None}]
        /\ inspection' \in [V2 -> EventIds \cup {None}]
        /\ receipts' \in SUBSET Events
    BY <1>0, <1>4, <2>1 DEF AcceptReturnEvent, Typed
  <2>4. UNCHANGED <<consent, workerVars>>
    BY <1>4 DEF AcceptReturnEvent
  <2> QED
    BY <1>0, <2>1, <2>2, <2>3, <2>4, TransitionTyped DEF Typed, workerVars
<1>5. ASSUME NEW e \in Executors, NEW h \in V2, Lease(e, h) PROVE Typed'
  BY <1>0, <1>5 DEF Lease, Typed, caseVars, returnVars
<1>6. ASSUME NEW e \in Executors, Execute(e) PROVE Typed'
  <2>1. answer' \in [Executors -> Ledger!States \cup {None}]
    <3>1. job[e] # None /\ UNCHANGED job
      BY <1>6 DEF Execute
    <3>2. state[job[e]] \in Ledger!States
      BY <1>0, <3>1, JobHasRow DEF Typed, Ledger!TypeOK
    <3> QED
      BY <1>0, <1>6, <3>2 DEF Execute, Typed
  <2> QED
    BY <1>0, <1>6, <2>1 DEF Execute, Typed, caseVars, returnVars
<1>7. ASSUME NEW e \in Executors, NEW r \in Requests, ExecuteV1(e, r) PROVE Typed'
  BY <1>0, <1>7 DEF ExecuteV1, Typed, caseVars, returnVars, workerVars
<1>8. ASSUME NEW e \in Executors, ExecutorStep(e) PROVE Typed'
  <2>1. answer' \in [Executors -> Ledger!States \cup {None}]
    <3>1. CASE job[e] # None
      <4>1. state'[job[e]] \in Ledger!States
        BY <1>0, <3>1, JobHasRow DEF Ledger!TypeOK
      <4> QED
        BY <1>0, <1>8, <4>1 DEF ExecutorStep, Typed
    <3>2. CASE job[e] = None
      BY <1>0, <1>8, <3>2 DEF ExecutorStep, Typed
    <3> QED
      BY <3>1, <3>2
  <2> QED
    BY <1>0, <1>8, <2>1 DEF ExecutorStep, Typed, caseVars, returnVars
<1>9. ASSUME NEW e \in Executors, ExecutorFails(e) PROVE Typed'
  BY <1>0, <1>9 DEF ExecutorFails, LeaveJob, Typed, caseVars, returnVars
<1>10. ASSUME NEW e \in Executors, Finish(e) PROVE Typed'
  <2>1. /\ status' \in [V2 -> Statuses]
        /\ done' \in [V2 -> Seq(Closed)]
        /\ authorization' \in [V2 -> Statuses \cup {None}]
        /\ lease' \in [V2 -> Executors \cup {None}]
    <3>1. CASE UNCHANGED <<caseVars, authorization, lease>>
      BY <1>0, <3>1 DEF Typed, caseVars
    <3>2. CASE \E target \in Statuses : /\ Transition(job[e], target)
                                        /\ lease[job[e]] = e
                                        /\ lease' = [lease EXCEPT ![job[e]] = None]
                                        /\ job[e] \in V2
      BY <1>0, <3>2, TransitionTyped DEF Typed
    <3>3. job[e] \in V2
      BY <1>10, JobHasRow DEF Finish, IInv, AnswerKnown, AnswerTrue
    <3> QED
      BY <1>0, <1>10, <3>1, <3>2, <3>3 DEF Finish
  <2> QED
    BY <1>0, <1>10, <2>1 DEF Finish, LeaveJob, Typed, returnVars
<1>11. CASE UNCHANGED vars
  BY <1>0, <1>11 DEF Typed, vars
<1> QED
  BY <1>1, <1>2, <1>3, <1>4, <1>5, <1>6, <1>7, <1>8, <1>9, <1>10, <1>11 DEF Next

-----------------------------------------------------------------------------
(* Executors. *)

\* An executor that takes no step knows what it knew: the row, the start and
\* the decision it relies on stay.
LEMMA KnowsStays ==
  ASSUME IInv, [Next]_vars, NEW e \in Executors,
         pc'[e] = pc[e], req'[e] = req[e], result'[e] = result[e],
         job'[e] = job[e] \/ pc[e] = "idle"
  PROVE  Knows(e)'
<1>1. Grows
  BY StepsOfTheLedger, LedgerGrows
<1>2. Ledger!TypeOK /\ Knows(e)
  BY DEF IInv, Typed, ExecutorKnows
<1>3. CASE pc[e] = "idle"
  BY <1>3 DEF Knows
<1>4. CASE pc[e] # "idle"
  <2>1. req[e] \in Requests /\ HandoffOf[req[e]] \in Handoffs
    BY <1>2, <1>4, LedgerAssumption DEF Knows
  <2>2. content[HandoffOf[req[e]]] = req[e] =>
          content'[HandoffOf[req[e]]] = req[e]
    BY <1>1, <2>1, LedgerAssumption DEF Grows
  <2>3. result[e] \in Ledger!Answers /\ result[e] = decision[HandoffOf[req[e]]] =>
          decision'[HandoffOf[req[e]]] = decision[HandoffOf[req[e]]]
    BY <1>1, <2>1, LedgerAssumption DEF Grows, Ledger!Answers
  <2>4. HandoffOf[req[e]] \in started => HandoffOf[req[e]] \in started'
    BY <1>1 DEF Grows
  <2> QED
    BY <1>2, <1>4, <2>1, <2>2, <2>3, <2>4 DEF Knows
<1> QED
  BY <1>3, <1>4

\* A step of an executor leaves the others as they are.
LEMMA OthersStay ==
  ASSUME Typed, NEW e \in Executors,
         Execute(e) \/ (\E r \in Requests : ExecuteV1(e, r)) \/ ExecutorStep(e)
           \/ ExecutorFails(e),
         NEW f \in Executors, f # e
  PROVE  /\ pc'[f] = pc[f] /\ req'[f] = req[f] /\ result'[f] = result[f]
         /\ job'[f] = job[f] /\ answer'[f] = answer[f]
<1> USE DEF Typed, Ledger!TypeOK, Ledger!Goto, Ledger!Return, Ledger!executor
<1>1. CASE Execute(e)
  BY <1>1 DEF Execute, Ledger!Begin, ledgerVars
<1>2. CASE \E r \in Requests : ExecuteV1(e, r)
  BY <1>2 DEF ExecuteV1, Ledger!Begin, workerVars
<1>3. CASE ExecutorStep(e)
  <2>1. job'[f] = job[f] /\ answer'[f] = answer[f]
    BY <1>3 DEF ExecutorStep
  <2>2. CASE Ledger!Authorize(e) \/ Ledger!Pend(e)
    BY <2>1, <2>2 DEF Ledger!Authorize, Ledger!Pend
  <2>3. CASE Ledger!Reject(e) \/ Ledger!Overwrite(e)
    BY <2>1, <2>3 DEF Ledger!Reject, Ledger!Overwrite
  <2>4. CASE Ledger!MarkStarted(e) \/ Ledger!Apply(e) \/ Ledger!Complete(e)
    BY <2>1, <2>4 DEF Ledger!MarkStarted, Ledger!Apply, Ledger!Complete
  <2> QED
    BY <1>3, <2>2, <2>3, <2>4 DEF ExecutorStep
<1>4. CASE ExecutorFails(e)
  BY <1>4 DEF ExecutorFails, LeaveJob, Ledger!Fail, ledgerVars
<1> QED
  BY <1>1, <1>2, <1>3, <1>4

\* What an executor knows after a step of its own.
LEMMA KnowsBegin ==
  ASSUME IInv, NEW e \in Executors, NEW r \in Requests, Ledger!Begin(e, r),
         HandoffOf[r] \in V2 => job[e] = HandoffOf[r],
         job[e] # None => job[e] = HandoffOf[r],
         UNCHANGED job
  PROVE  Knows(e)'
<1>1. Typed /\ Rows /\ DecisionKnown
  BY DEF IInv
<1>2. /\ pc'[e] \in {"mark", "authorize"} /\ req'[e] = r
      /\ pc'[e] = "mark" => HandoffOf[r] \in started
  BY <1>1 DEF Ledger!Begin, Ledger!Goto, Typed, Ledger!TypeOK
<1>3. content'[HandoffOf[r]] = content[HandoffOf[r]]
  BY DEF Ledger!Begin, Ledger!ledger
<1>4. HandoffOf[r] \in started => content[HandoffOf[r]] = r
  BY <1>1, LedgerAssumption
  DEF Ledger!Begin, Ledger!Matches, DecisionKnown
<1> QED
  BY <1>2, <1>3, <1>4 DEF Knows

LEMMA KnowsStep ==
  ASSUME IInv, NEW e \in Executors, ExecutorStep(e)
  PROVE  Knows(e)'
<1>0. /\ Ledger!TypeOK /\ Knows(e) /\ Rows /\ DecisionKnown
      /\ UNCHANGED job
      /\ HandoffOf[req[e]] \in V2 => job[e] = HandoffOf[req[e]]
  BY DEF IInv, Typed, ExecutorKnows, ExecutorStep, Knows, Ledger!Authorize,
         Ledger!Reject, Ledger!Overwrite, Ledger!Pend, Ledger!MarkStarted,
         Ledger!Apply, Ledger!Complete
<1> USE <1>0, LedgerAssumption
    DEF Knows, Ledger!TypeOK, Ledger!Goto, Ledger!Return, Ledger!ledger,
        Ledger!provider
<1>1. CASE Ledger!Authorize(e)
  BY <1>1 DEF Ledger!Authorize
<1>2. CASE Ledger!Reject(e)
  BY <1>2 DEF Ledger!Reject, Ledger!Matches, Ledger!Refusable, Ledger!Open,
     Ledger!Terminal, Ledger!States, Rows
<1>3. CASE Ledger!Overwrite(e) \/ Ledger!Complete(e)
  BY <1>3 DEF Ledger!Overwrite, Ledger!Complete
<1>4. CASE Ledger!Pend(e)
  BY <1>4 DEF Ledger!Pend, Ledger!Insert
<1>5. CASE Ledger!MarkStarted(e)
  BY <1>5 DEF Ledger!MarkStarted
<1>6. CASE Ledger!Apply(e)
  BY <1>6 DEF Ledger!Apply, Ledger!Answers
<1> QED
  BY <1>1, <1>2, <1>3, <1>4, <1>5, <1>6 DEF ExecutorStep

LEMMA ExecutorsKept == ASSUME IInv, [Next]_vars PROVE ExecutorKnows'
<1>0. Typed /\ AnswerKnown
  BY DEF IInv
<1> SUFFICES ASSUME NEW f \in Executors PROVE Knows(f)'
  BY DEF ExecutorKnows
<1>1. CASE \/ \E r \in Requests : RegisterAuthorization(r)
           \/ \E h \in V2, accept \in BOOLEAN : ConfirmReturn(h, accept)
           \/ \E h \in V2 : EscalateByBridge(h)
           \/ \E m \in Events : AcceptReturnEvent(m)
           \/ UNCHANGED vars
  <2>1. UNCHANGED <<pc, req, result, job>>
    BY <1>1 DEF RegisterAuthorization, Enter, Ledger!Register, ConfirmReturn,
       EscalateByBridge, AcceptReturnEvent, ledgerVars, workerVars,
       Ledger!executor, vars
  <2> QED
    BY <2>1, KnowsStays
<1>2. ASSUME NEW e \in Executors, NEW h \in V2, Lease(e, h) PROVE Knows(f)'
  <2>1. UNCHANGED <<pc, req, result>> /\ (job'[f] = job[f] \/ pc[f] = "idle")
    BY <1>0, <1>2 DEF Lease, ledgerVars, Typed
  <2> QED
    BY <2>1, KnowsStays
<1>3. ASSUME NEW e \in Executors, Finish(e) PROVE Knows(f)'
  <2>1. UNCHANGED <<pc, req, result>> /\ (job'[f] = job[f] \/ pc[f] = "idle")
    BY <1>0, <1>3 DEF Finish, LeaveJob, ledgerVars, Typed, AnswerKnown,
       AnswerTrue
  <2> QED
    BY <2>1, KnowsStays
<1>4. ASSUME NEW e \in Executors, f # e,
             Execute(e) \/ (\E r \in Requests : ExecuteV1(e, r)) \/ ExecutorStep(e)
               \/ ExecutorFails(e)
      PROVE  Knows(f)'
  BY <1>0, <1>4, OthersStay, KnowsStays
<1>5. CASE Execute(f)
  <2>1. CASE UNCHANGED ledgerVars
    BY <1>5, <2>1, KnowsStays DEF ledgerVars, Execute
  <2>2. CASE Ledger!Begin(f, content[job[f]])
    BY <1>5, <2>2, JobHasRow, KnowsBegin DEF Execute
  <2> QED
    BY <1>5, <2>1, <2>2 DEF Execute
<1>6. ASSUME NEW r \in Requests, ExecuteV1(f, r) PROVE Knows(f)'
  BY <1>6, KnowsBegin DEF ExecuteV1, workerVars
<1>7. CASE ExecutorStep(f)
  BY <1>7, KnowsStep
<1>8. CASE ExecutorFails(f)
  BY <1>0, <1>8 DEF ExecutorFails, Ledger!Fail, Ledger!Return, Ledger!Goto,
     ledgerVars, Knows, Typed, Ledger!TypeOK
<1> QED
  BY <1>1, <1>2, <1>3, <1>4, <1>5, <1>6, <1>7, <1>8 DEF Next

-----------------------------------------------------------------------------
(* Authorizations, jobs, leases and answers. *)

LEMMA RowedKept == ASSUME IInv, [Next]_vars PROVE Rowed'
<1>0. Grows /\ Typed /\ Rowed /\ V2 \subseteq Handoffs
  BY StepsOfTheLedger, LedgerGrows, LedgerAssumption DEF IInv
<1>1. ASSUME NEW r \in Requests, RegisterAuthorization(r) PROVE Rowed'
  <2>1. \A h \in V2 \ {HandoffOf[r]} : authorization'[h] = authorization[h]
    BY <1>0, <1>1 DEF RegisterAuthorization, Transition, Typed
  <2>2. HandoffOf[r] \in Handoffs /\ content'[HandoffOf[r]] = r
    BY <1>0, <1>1, LedgerAssumption
    DEF RegisterAuthorization, Enter, Ledger!Register, Ledger!Insert, Typed,
        Ledger!TypeOK
  <2> QED
    BY <1>0, <2>1, <2>2, LedgerAssumption DEF Rowed, Grows
<1>2. CASE ~\E r \in Requests : RegisterAuthorization(r)
  <2> SUFFICES ASSUME NEW h \in V2, authorization'[h] # None
               PROVE  authorization[h] # None
    BY <1>0 DEF Rowed, Grows
  <2> USE <1>0, FulfillmentAssumption DEF Typed
  <2>1. ASSUME NEW k \in V2, NEW accept \in BOOLEAN, ConfirmReturn(k, accept)
        PROVE  authorization[h] # None
    BY <2>1 DEF ConfirmReturn, AsksForConsent, Transition, Statuses, ReturnStatuses
  <2>2. ASSUME NEW m \in Events, AcceptReturnEvent(m)
        PROVE  authorization[h] # None
    BY <2>2 DEF AcceptReturnEvent, Arrives, Inspected, Overdue, Transition,
       Statuses, ReturnStatuses
  <2>3. ASSUME NEW e \in Executors, Finish(e) PROVE authorization[h] # None
    BY <2>3 DEF Finish, Transition, Statuses
  <2>4. CASE UNCHANGED authorization
    BY <2>4
  <2> QED
    BY <1>2, <2>1, <2>2, <2>3, <2>4
    DEF Next, EscalateByBridge, Lease, Execute, ExecuteV1, ExecutorStep,
        ExecutorFails, vars
<1> QED
  BY <1>1, <1>2

LEMMA JobsKept == ASSUME IInv, [Next]_vars PROVE Jobs'
<1>0. Typed /\ Jobs /\ AuthorizationGrows
  BY AuthorizationStays DEF IInv
<1>1. ASSUME NEW e \in Executors, NEW h \in V2, Lease(e, h) PROVE Jobs'
  BY <1>0, <1>1 DEF Lease, Jobs, Typed, Decided
<1>2. CASE ~\E e \in Executors, h \in V2 : Lease(e, h)
  <2>1. \A w \in Executors : job'[w] \in {job[w], None}
    BY <1>0, <1>2
    DEF Next, RegisterAuthorization, ConfirmReturn, EscalateByBridge,
        AcceptReturnEvent, Execute, ExecuteV1, ExecutorStep, ExecutorFails, Finish,
        LeaveJob, workerVars, vars, Typed
  <2> QED
    BY <1>0, <2>1 DEF Jobs, Typed, AuthorizationGrows
<1> QED
  BY <1>1, <1>2

LEMMA AloneKept == ASSUME IInv, [Next]_vars PROVE Alone'
<1>0. Typed /\ Alone /\ outlasted \subseteq outlasted'
  BY RecordsStay DEF IInv
<1>1. ASSUME NEW e \in Executors, NEW h \in V2, Lease(e, h) PROVE Alone'
  <2>1. h \notin outlasted' => \A w \in Executors : job[w] # h
    BY <1>0, <1>1, LedgerAssumption DEF Lease, LeaseOver, Alone
  <2>2. /\ lease' = [lease EXCEPT ![h] = e] /\ job' = [job EXCEPT ![e] = h]
        /\ e \in Executors /\ h \in V2
    BY <1>1 DEF Lease
  <2> QED
    BY <1>0, <2>1, <2>2 DEF Alone, Typed
<1>2. ASSUME NEW e \in Executors, Finish(e) PROVE Alone'
  <2>1. \A w \in Executors \ {e} : job'[w] = job[w]
    BY <1>0, <1>2 DEF Finish, LeaveJob, Typed
  <2>2. job'[e] = None
    BY <1>0, <1>2 DEF Finish, LeaveJob, Typed
  <2>3. CASE UNCHANGED lease
    BY <1>0, <2>1, <2>2, <2>3 DEF Alone
  <2>4. CASE lease' = [lease EXCEPT ![job[e]] = None] /\ lease[job[e]] = e
    <3>1. \A w \in Executors \ {e} :
            job[w] # None /\ job[w] \notin outlasted => job[w] # job[e]
      BY <2>4 DEF IInv, Alone
    <3> QED
      BY <1>0, <2>1, <2>2, <2>4, <3>1 DEF Alone, Typed
  <2> QED
    BY <1>2, <2>3, <2>4 DEF Finish
<1>3. CASE ~\E e \in Executors : Finish(e) \/ \E h \in V2 : Lease(e, h)
  <2>1. (\A w \in Executors : job'[w] \in {job[w], None}) /\ UNCHANGED lease
    BY <1>0, <1>3
    DEF Next, RegisterAuthorization, ConfirmReturn, EscalateByBridge,
        AcceptReturnEvent, Execute, ExecuteV1, ExecutorStep, ExecutorFails,
        LeaveJob, workerVars, vars, Typed
  <2> QED
    BY <1>0, <2>1 DEF Alone, Typed
<1> QED
  BY <1>1, <1>2, <1>3

\* The answer of a worker stays true while it holds it.
LEMMA AnswerStays ==
  ASSUME IInv, [Next]_vars, NEW w \in Executors, answer[w] # None,
         answer'[w] = answer[w], job'[w] = job[w], pc'[w] = pc[w]
  PROVE  AnswerTrue(w)'
<1>1. Grows /\ AnswerTrue(w) /\ job[w] \in Handoffs
  BY StepsOfTheLedger, LedgerGrows, JobHasRow DEF IInv, AnswerKnown, AnswerTrue
<1> QED
  BY <1>1, LedgerAssumption DEF Grows, AnswerTrue

\* What execute() returns is what the row says, and a row reports a success
\* only after the provider's.
LEMMA AnswerOfRow ==
  ASSUME IInv, [Next]_vars, NEW w \in Executors, job[w] # None,
         job'[w] = job[w], pc'[w] = "idle", state'[job[w]] \in Ledger!Terminal,
         answer'[w] = state'[job[w]]
  PROVE  AnswerTrue(w)'
<1>1. DecisionKnown' /\ job[w] \in Handoffs
  BY StepsOfTheLedger, DecisionsKept, JobHasRow
<1> QED
  BY <1>1 DEF DecisionKnown, AnswerTrue

LEMMA AnswersKept == ASSUME IInv, [Next]_vars PROVE AnswerKnown'
<1>0. Typed /\ AnswerKnown /\ ExecutorKnows
  BY DEF IInv
<1> SUFFICES ASSUME NEW w \in Executors, answer'[w] # None PROVE AnswerTrue(w)'
  BY DEF AnswerKnown, AnswerTrue
<1>1. CASE \/ \E r \in Requests : RegisterAuthorization(r)
           \/ \E h \in V2, accept \in BOOLEAN : ConfirmReturn(h, accept)
           \/ \E h \in V2 : EscalateByBridge(h)
           \/ \E m \in Events : AcceptReturnEvent(m)
           \/ UNCHANGED vars
  <2>1. UNCHANGED <<pc, job, answer>>
    BY <1>1 DEF RegisterAuthorization, Enter, Ledger!Register, ConfirmReturn,
       EscalateByBridge, AcceptReturnEvent, ledgerVars, workerVars,
       Ledger!executor, vars
  <2> QED
    BY <2>1, AnswerStays
<1>2. ASSUME NEW e \in Executors, NEW h \in V2, Lease(e, h) PROVE AnswerTrue(w)'
  <2>1. w # e /\ UNCHANGED <<pc, answer>> /\ job'[w] = job[w]
    BY <1>0, <1>2 DEF Lease, ledgerVars, Typed, AnswerKnown, AnswerTrue
  <2> QED
    BY <2>1, AnswerStays
<1>3. ASSUME NEW e \in Executors, Finish(e) PROVE AnswerTrue(w)'
  <2>1. w # e /\ UNCHANGED pc /\ job'[w] = job[w] /\ answer'[w] = answer[w]
    BY <1>0, <1>3 DEF Finish, LeaveJob, ledgerVars, Typed
  <2> QED
    BY <2>1, AnswerStays
<1>4. ASSUME NEW e \in Executors, w # e,
             Execute(e) \/ (\E r \in Requests : ExecuteV1(e, r)) \/ ExecutorStep(e)
               \/ ExecutorFails(e)
      PROVE  AnswerTrue(w)'
  BY <1>0, <1>4, OthersStay, AnswerStays
<1>5. CASE Execute(w)
  <2>1. job[w] # None /\ answer[w] = None /\ pc[w] = "idle" /\ UNCHANGED job
    BY <1>5 DEF Execute
  <2>2. state[job[w]] \in Ledger!Terminal /\ UNCHANGED ledgerVars
        /\ answer'[w] = state[job[w]]
    BY <1>0, <1>5, <2>1 DEF Execute, Typed
  <2> QED
    BY <2>1, <2>2, AnswerOfRow DEF ledgerVars
<1>6. ASSUME NEW r \in Requests, ExecuteV1(w, r) PROVE AnswerTrue(w)'
  BY <1>0, <1>6 DEF ExecuteV1, workerVars, AnswerKnown, AnswerTrue
<1>7. CASE ExecutorStep(w)
  <2>1. pc[w] # "idle" /\ UNCHANGED job
    BY <1>7 DEF ExecutorStep, Ledger!Authorize, Ledger!Reject, Ledger!Overwrite,
       Ledger!Pend, Ledger!MarkStarted, Ledger!Apply, Ledger!Complete
  <2>2. answer[w] = None
    BY <1>0, <2>1 DEF AnswerKnown, AnswerTrue
  <2>3. /\ job[w] # None /\ pc'[w] = "idle" /\ answer'[w] = state'[job[w]]
    BY <1>0, <1>7, <2>2 DEF ExecutorStep, Typed
  <2>4. job[w] = HandoffOf[req[w]] /\ job[w] \in Handoffs
    BY <1>0, <2>1, <2>3, JobHasRow DEF ExecutorKnows, Knows
  <2>5. state'[job[w]] \in Ledger!Terminal
    BY <1>0, <1>7, <2>3, <2>4
    DEF ExecutorStep, Ledger!Authorize, Ledger!Reject, Ledger!Overwrite,
       Ledger!Pend, Ledger!MarkStarted, Ledger!Apply, Ledger!Complete, Ledger!Goto,
       Ledger!Terminal, Ledger!ledger, Ledger!Open, Ledger!Refusable, Typed,
       Ledger!TypeOK, Ledger!Return
  <2> QED
    BY <2>1, <2>3, <2>5, AnswerOfRow
<1>8. CASE ExecutorFails(w)
  BY <1>0, <1>8 DEF ExecutorFails, LeaveJob, Typed
<1> QED
  BY <1>1, <1>2, <1>3, <1>4, <1>5, <1>6, <1>7, <1>8 DEF Next

-----------------------------------------------------------------------------
(* Returns, and what may be applied for. *)

LEMMA InspectionsKept == ASSUME IInv, [Next]_vars PROVE InspectedFirst'
<1>0. InspectedFirst /\ receipts \subseteq receipts'
  BY RecordsStay DEF IInv
<1>1. CASE UNCHANGED receipts
  BY <1>0, <1>1 DEF InspectedFirst, ArrivedFor
<1>2. ASSUME NEW m \in Events, AcceptReturnEvent(m) PROVE InspectedFirst'
  <2>1. m.type \in Inspections => ArrivedFor(m)
    BY <1>2 DEF AcceptReturnEvent, Arrives, Inspected, Overdue, Inspections,
       ArrivedFor
  <2>2. receipts' = receipts \cup {m}
    BY <1>2 DEF AcceptReturnEvent
  <2> QED
    BY <1>0, <2>1, <2>2 DEF InspectedFirst, ArrivedFor
<1> QED
  BY <1>1, <1>2
  DEF Next, RegisterAuthorization, ConfirmReturn, EscalateByBridge, Lease, Execute,
      ExecuteV1, ExecutorStep, ExecutorFails, Finish, returnVars, vars

\* An executor that may apply for the refund, or has a started execution before
\* it, works on a request that passed the release check.
MayApply(e) == pc[e] \in {"pend", "mark", "apply", "complete"}

LEMMA RowPassed ==
  ASSUME IInv, NEW r \in Requests, HandoffOf[r] \in started, Ledger!Matches(r)
  PROVE  Passed(r)
<1>1. HandoffOf[r] \in Handoffs /\ content[HandoffOf[r]] # None
  BY LedgerAssumption DEF IInv, DecisionKnown
<1> QED
  BY <1>1 DEF IInv, Backed, Ledger!Matches

LEMMA ApplicantPassed ==
  ASSUME IInv, [Next]_vars, NEW f \in Executors, MayApply(f)'
  PROVE  \E r \in Requests : r = req'[f] /\ Passed(r)
<1>0. /\ Typed /\ DecisionKnown /\ Backed /\ ExecutorKnows /\ Ledger!TypeOK
  BY DEF IInv, Typed
<1>1. CASE pc'[f] = pc[f] /\ req'[f] = req[f]
  BY <1>0, <1>1 DEF MayApply, Backed, ExecutorKnows, Knows
<1>2. CASE \/ \E r \in Requests : RegisterAuthorization(r)
           \/ \E h \in V2, accept \in BOOLEAN : ConfirmReturn(h, accept)
           \/ \E h \in V2 : EscalateByBridge(h)
           \/ \E m \in Events : AcceptReturnEvent(m)
           \/ \E e \in Executors : Finish(e) \/ \E h \in V2 : Lease(e, h)
           \/ UNCHANGED vars
  BY <1>1, <1>2
  DEF RegisterAuthorization, Enter, Ledger!Register, ConfirmReturn, EscalateByBridge,
      AcceptReturnEvent, Lease, Finish, ledgerVars, Ledger!executor, vars
<1>3. ASSUME NEW e \in Executors, f # e,
             Execute(e) \/ (\E r \in Requests : ExecuteV1(e, r)) \/ ExecutorStep(e)
               \/ ExecutorFails(e)
      PROVE  pc'[f] = pc[f] /\ req'[f] = req[f]
  BY <1>0, <1>3, OthersStay
<1>4. ASSUME NEW r \in Requests, Ledger!Begin(f, r)
      PROVE  r = req'[f] /\ Passed(r)
  <2>1. r = req'[f] /\ HandoffOf[r] \in started /\ Ledger!Matches(r)
    BY <1>0, <1>4 DEF Ledger!Begin, Ledger!Goto, MayApply, Ledger!TypeOK
  <2> QED
    BY <2>1, RowPassed
<1>5. CASE ExecutorStep(f)
  <2>1. pc[f] # "idle" /\ req[f] \in Requests
    BY <1>0, <1>5
    DEF ExecutorStep, Ledger!Authorize, Ledger!Reject, Ledger!Overwrite,
        Ledger!Pend, Ledger!MarkStarted, Ledger!Apply, Ledger!Complete,
        ExecutorKnows, Knows
  <2>2. CASE Ledger!Authorize(f)
    <3>1. HandoffOf[req[f]] \in V2 => Released(HandoffOf[req[f]], req[f])
      BY <1>0, <1>5, <2>2
      DEF ExecutorStep, Ledger!Authorize, Ledger!Goto, MayApply, Ledger!TypeOK,
          Ledger!Reject, Ledger!Overwrite, Ledger!Pend, Ledger!MarkStarted,
          Ledger!Apply, Ledger!Complete
    <3>2. req'[f] = req[f]
      BY <2>2 DEF Ledger!Authorize
    <3> QED
      BY <2>1, <3>1, <3>2 DEF Passed, Released, Decided
  <2>3. CASE Ledger!Reject(f)
    <3>1. req'[f] = req[f] /\ ~Ledger!Refusable(HandoffOf[req[f]])
          /\ Ledger!Open(HandoffOf[req[f]]) /\ Ledger!Matches(req[f])
      BY <1>0, <2>3
      DEF Ledger!Reject, Ledger!Return, Ledger!Goto, MayApply, Ledger!TypeOK
    <3>2. HandoffOf[req[f]] \in started
      BY <1>0, <2>1, <3>1, LedgerAssumption
      DEF Ledger!Refusable, Ledger!Open, Ledger!Terminal, Ledger!TypeOK,
          Ledger!States
    <3> QED
      BY <2>1, <3>1, <3>2, RowPassed
  <2>4. CASE Ledger!Overwrite(f) \/ Ledger!Complete(f)
    BY <1>0, <2>4
    DEF Ledger!Overwrite, Ledger!Complete, Ledger!Return, Ledger!Goto, MayApply,
        Ledger!TypeOK
  <2>5. CASE Ledger!Pend(f) \/ Ledger!MarkStarted(f) \/ Ledger!Apply(f)
    <3>1. pc[f] \in {"pend", "mark", "apply"}
      BY <2>5 DEF Ledger!Pend, Ledger!MarkStarted, Ledger!Apply
    <3>2. req'[f] = req[f]
      BY <1>0, <2>5
      DEF Ledger!Pend, Ledger!MarkStarted, Ledger!Apply, Ledger!Return,
          Ledger!Goto, MayApply, Ledger!TypeOK
    <3> QED
      BY <1>0, <2>1, <3>1, <3>2 DEF Backed
  <2> QED
    BY <1>5, <2>2, <2>3, <2>4, <2>5 DEF ExecutorStep
<1>6. CASE Execute(f)
  <2>1. job[f] # None /\ (UNCHANGED ledgerVars \/ Ledger!Begin(f, content[job[f]]))
    BY <1>6 DEF Execute
  <2>2. content[job[f]] \in Requests
    BY <2>1, JobHasRow
  <2> QED
    BY <1>1, <1>4, <2>1, <2>2 DEF ledgerVars
<1>7. ASSUME NEW r \in Requests, ExecuteV1(f, r)
      PROVE  r = req'[f] /\ Passed(r)
  BY <1>4, <1>7 DEF ExecuteV1
<1>8. CASE ExecutorFails(f)
  BY <1>0, <1>1, <1>8
  DEF ExecutorFails, Ledger!Fail, Ledger!Return, Ledger!Goto, ledgerVars, MayApply,
      Ledger!TypeOK
<1> QED
  BY <1>1, <1>2, <1>3, <1>5, <1>6, <1>7, <1>8 DEF Next

\* Only mark_application_started starts an execution.
LEMMA StartedByMark ==
  ASSUME IInv, [Next]_vars, NEW h \in started' \ started
  PROVE  \E e \in Executors : Ledger!MarkStarted(e) /\ h = HandoffOf[req[e]]
<1>1. Ledger!Next
  BY StepsOfTheLedger DEF Ledger!vars
<1> QED
  BY <1>1
  DEF Ledger!Next, Ledger!Register, Ledger!Begin, Ledger!Authorize, Ledger!Reject,
      Ledger!Overwrite, Ledger!Pend, Ledger!MarkStarted, Ledger!Apply,
      Ledger!Complete, Ledger!Fail, Ledger!ledger

LEMMA StartedPassed ==
  ASSUME IInv, [Next]_vars, NEW h \in started'
  PROVE  \E r \in Requests : r = content'[h] /\ Passed(r)
<1>0. /\ Grows /\ Typed /\ Ledger!TypeOK /\ DecisionKnown /\ Backed
      /\ ExecutorKnows /\ h \in Handoffs
  BY StepsOfTheLedger, LedgerGrows, TypedKept DEF IInv, Typed, Ledger!TypeOK
<1>1. CASE h \in started
  <2>1. content[h] \in Requests /\ content'[h] = content[h]
    BY <1>0, <1>1 DEF DecisionKnown, Grows, Ledger!TypeOK
  <2> QED
    BY <1>0, <1>1, <2>1 DEF Backed
<1>2. CASE h \notin started
  <2>1. PICK e \in Executors : Ledger!MarkStarted(e) /\ h = HandoffOf[req[e]]
    BY <1>2, StartedByMark
  <2>2. pc[e] = "mark"
    BY <2>1 DEF Ledger!MarkStarted
  <2>3. req[e] \in Requests /\ content[h] = req[e] /\ Passed(req[e])
    BY <1>0, <2>1, <2>2 DEF ExecutorKnows, Knows, Backed
  <2>4. content'[h] = content[h]
    BY <1>0, <2>3, LedgerAssumption DEF Grows
  <2> QED
    BY <2>3, <2>4
<1> QED
  BY <1>1, <1>2

LEMMA BackedKept == ASSUME IInv, [Next]_vars PROVE Backed'
<1>1. ASSUME NEW e \in Executors, MayApply(e)' PROVE Passed(req[e])'
  <2>1. PICK r \in Requests : r = req'[e] /\ Passed(r)
    BY <1>1, ApplicantPassed
  <2> QED
    BY <2>1, PassedStays DEF Passed
<1>2. ASSUME NEW h \in started' PROVE Passed(content[h])'
  <2>1. PICK r \in Requests : r = content'[h] /\ Passed(r)
    BY <1>2, StartedPassed
  <2> QED
    BY <2>1, PassedStays DEF Passed
<1> QED
  BY <1>1, <1>2 DEF Backed, MayApply

-----------------------------------------------------------------------------
(* Rejections. *)

\* Two executors at work for one handoff have outlasted a lease.
LEMMA WorksAlone ==
  ASSUME IInv, NEW e \in Executors, NEW f \in Executors,
         pc[e] # "idle", pc[f] # "idle", HandoffOf[req[e]] = HandoffOf[req[f]],
         HandoffOf[req[e]] \in V2 \ outlasted
  PROVE  e = f
<1>1. job[e] = HandoffOf[req[e]] /\ job[f] = HandoffOf[req[e]]
  BY DEF IInv, ExecutorKnows, Knows
<1>2. HandoffOf[req[e]] # None
  BY LedgerAssumption
<1> QED
  BY <1>1, <1>2 DEF IInv, Alone

\* A step that rejects an execution that is started follows the provider.
LEMMA RejectionFounded ==
  ASSUME IInv, [Next]_vars, NEW h \in V2, Sole(h),
         state[h] # "REJECTED", state'[h] = "REJECTED", h \in started'
  PROVE  decision[h] = "REJECTED"
<1>0. /\ Typed /\ Ledger!TypeOK /\ ExecutorKnows /\ RejectionKnown /\ DecisionKnown
      /\ Rows /\ h \in Handoffs
  BY LedgerAssumption DEF IInv, Typed
<1>1. Ledger!Next
  BY StepsOfTheLedger DEF Ledger!vars
<1> USE <1>0 DEF Ledger!TypeOK
<1>2. CASE \/ \E r \in Requests : Ledger!Register(r)
           \/ \E e \in Executors :
                \/ \E r \in Requests : Ledger!Begin(e, r)
                \/ Ledger!Authorize(e) \/ Ledger!Pend(e) \/ Ledger!Apply(e)
                \/ Ledger!Fail(e)
  BY <1>2
  DEF Ledger!Register, Ledger!Begin, Ledger!Authorize, Ledger!Pend, Ledger!Apply,
      Ledger!Fail, Ledger!Insert, Ledger!ledger
<1>3. ASSUME NEW e \in Executors, Ledger!Reject(e) PROVE FALSE
  <2>1. Ledger!Refusable(h) /\ started' = started
    BY <1>3 DEF Ledger!Reject, Ledger!ledger
  <2> QED
    BY <2>1 DEF Ledger!Refusable, DecisionKnown, Rows
<1>4. ASSUME NEW e \in Executors, Ledger!Overwrite(e) PROVE FALSE
  <2>1. h = HandoffOf[req[e]] /\ pc[e] = "overwrite" /\ started' = started
    BY <1>4 DEF Ledger!Overwrite
  <2> QED
    BY <2>1 DEF RejectionKnown, Sole
<1>5. ASSUME NEW e \in Executors, Ledger!MarkStarted(e) PROVE FALSE
  BY <1>5 DEF Ledger!MarkStarted, Ledger!ledger
<1>6. ASSUME NEW e \in Executors, Ledger!Complete(e)
      PROVE  decision[h] = "REJECTED"
  <2>1. h = HandoffOf[req[e]] /\ pc[e] = "complete" /\ result[e] = "REJECTED"
    BY <1>6 DEF Ledger!Complete, Ledger!ledger
  <2> QED
    BY <2>1 DEF ExecutorKnows, Knows
<1> QED
  BY <1>1, <1>2, <1>3, <1>4, <1>5, <1>6 DEF Ledger!Next

LEMMA RejectionsKept == ASSUME IInv, [Next]_vars PROVE RejectionKnown'
<1>0. /\ Grows /\ Typed /\ Ledger!TypeOK /\ ExecutorKnows /\ RejectionKnown
      /\ outlasted \subseteq outlasted' /\ V2 \subseteq Handoffs
  BY StepsOfTheLedger, LedgerGrows, RecordsStay, LedgerAssumption DEF IInv, Typed
<1>1. ASSUME NEW h \in V2, Sole(h)', h \in started', state'[h] = "REJECTED"
      PROVE  decision'[h] = "REJECTED"
  <2>1. Sole(h) /\ h \in Handoffs
    BY <1>0, <1>1 DEF Sole
  <2>2. decision[h] = "REJECTED" => decision'[h] = "REJECTED"
    BY <1>0, <2>1, LedgerAssumption DEF Grows
  <2>3. CASE state[h] # "REJECTED"
    BY <1>1, <2>1, <2>2, <2>3, RejectionFounded
  <2>4. CASE state[h] = "REJECTED" /\ h \in started
    BY <1>0, <2>1, <2>2, <2>4 DEF RejectionKnown
  <2>5. CASE state[h] = "REJECTED" /\ h \notin started
    <3>1. PICK e \in Executors : Ledger!MarkStarted(e) /\ h = HandoffOf[req[e]]
      BY <1>1, <2>5, StartedByMark
    <3> QED
      BY <1>1, <2>5, <3>1 DEF Ledger!MarkStarted, Ledger!ledger, Ledger!Terminal
  <2> QED
    BY <2>3, <2>4, <2>5
<1>2. ASSUME NEW e \in Executors, pc'[e] = "overwrite"
      PROVE  /\ ~SerialWriters
             /\ HandoffOf[req'[e]] \in V2 /\ HandoffOf[req'[e]] \notin outlasted' =>
                  HandoffOf[req'[e]] \notin started'
  <2>1. CASE pc[e] = "overwrite" /\ req'[e] = req[e]
    <3>1. SUFFICES ASSUME HandoffOf[req[e]] \in V2 \ outlasted,
                          HandoffOf[req[e]] \in started' \ started
                   PROVE  FALSE
      BY <1>0, <2>1 DEF RejectionKnown
    <3>2. PICK f \in Executors : /\ Ledger!MarkStarted(f)
                                 /\ HandoffOf[req[e]] = HandoffOf[req[f]]
      BY <3>1, StartedByMark
    <3>3. pc[f] = "mark"
      BY <3>2 DEF Ledger!MarkStarted
    <3> QED
      BY <2>1, <3>1, <3>2, <3>3, WorksAlone
  <2>2. CASE Ledger!Reject(e)
    <3>1. /\ ~SerialWriters /\ req'[e] = req[e] /\ started' = started
          /\ Ledger!Refusable(HandoffOf[req[e]]) /\ state[HandoffOf[req[e]]] # "ABSENT"
      BY <1>0, <1>2, <2>2
      DEF Ledger!Reject, Ledger!Return, Ledger!Goto, Ledger!TypeOK, Ledger!ledger
    <3> QED
      BY <3>1 DEF Ledger!Refusable
  <2>3. CASE UNCHANGED Ledger!vars
    BY <1>2, <2>1, <2>3 DEF Ledger!vars
  <2>4. CASE Ledger!Next /\ ~Ledger!Reject(e)
    <3> DEFINE Same == pc[e] = "overwrite" /\ req'[e] = req[e]
    <3> USE <1>0, <1>2
        DEF Ledger!TypeOK, Ledger!executor, Ledger!Goto, Ledger!Return
    <3>1. ASSUME NEW r \in Requests, Ledger!Register(r) PROVE Same
      BY <3>1 DEF Ledger!Register
    <3>2. ASSUME NEW f \in Executors, NEW r \in Requests, Ledger!Begin(f, r)
          PROVE  Same
      BY <3>2 DEF Ledger!Begin
    <3>3. ASSUME NEW f \in Executors,
                 Ledger!Authorize(f) \/ Ledger!Overwrite(f) \/ Ledger!Pend(f)
          PROVE  Same
      BY <3>3 DEF Ledger!Authorize, Ledger!Overwrite, Ledger!Pend
    <3>4. ASSUME NEW f \in Executors,
                 Ledger!MarkStarted(f) \/ Ledger!Apply(f)
          PROVE  Same
      BY <3>4 DEF Ledger!MarkStarted, Ledger!Apply
    <3>5. ASSUME NEW f \in Executors,
                 Ledger!Complete(f) \/ Ledger!Fail(f)
          PROVE  Same
      BY <3>5 DEF Ledger!Complete, Ledger!Fail
    <3>6. ASSUME NEW f \in Executors, f # e, Ledger!Reject(f) PROVE Same
      BY <3>6 DEF Ledger!Reject
    <3> QED
      BY <2>1, <2>4, <3>1, <3>2, <3>3, <3>4, <3>5, <3>6 DEF Ledger!Next
  <2> QED
    BY <2>2, <2>3, <2>4, StepsOfTheLedger
<1> QED
  BY <1>1, <1>2 DEF RejectionKnown

-----------------------------------------------------------------------------
(* Ends. *)

\* How an authorization moves: it is made, its return goes on, or a worker that
\* has its answer closes it.
LEMMA AuthorizationMoves ==
  ASSUME IInv, [Next]_vars, NEW h \in V2, authorization'[h] # authorization[h]
  PROVE  \/ /\ \E r \in Requests : RegisterAuthorization(r) /\ h = HandoffOf[r]
            /\ authorization'[h] \in Open
         \/ /\ authorization[h] \in ReturnStatuses
            /\ authorization'[h] # "RESOLVED"
            /\ UNCHANGED <<ledgerVars, job>>
         \/ \E w \in Executors :
              /\ authorization[h] = "EXECUTING"
              /\ job[w] = h
              /\ answer[w] # None
              /\ UNCHANGED ledgerVars
              /\ authorization'[h] = IF answer[w] = "SUCCEEDED" THEN "RESOLVED"
                                                                ELSE "ESCALATED"
<1>0. Typed
  BY DEF IInv
<1>1. ASSUME NEW r \in Requests, RegisterAuthorization(r)
      PROVE  h = HandoffOf[r] /\ authorization'[h] \in Open
  BY <1>0, <1>1 DEF RegisterAuthorization, Transition, Typed, Open, ReturnStatuses
<1>2. ASSUME NEW k \in V2, NEW accept \in BOOLEAN, ConfirmReturn(k, accept)
      PROVE  /\ authorization[h] \in ReturnStatuses
             /\ authorization'[h] # "RESOLVED"
             /\ UNCHANGED <<ledgerVars, job>>
  BY <1>0, <1>2 DEF ConfirmReturn, AsksForConsent, Transition, Typed, ReturnStatuses,
     workerVars
<1>3. ASSUME NEW m \in Events, AcceptReturnEvent(m)
      PROVE  /\ authorization[h] \in ReturnStatuses
             /\ authorization'[h] # "RESOLVED"
             /\ UNCHANGED <<ledgerVars, job>>
  BY <1>0, <1>3 DEF AcceptReturnEvent, Arrives, Inspected, Overdue, Transition, Typed,
     ReturnStatuses, workerVars
<1>4. ASSUME NEW w \in Executors, Finish(w)
      PROVE  /\ authorization[h] = "EXECUTING"
             /\ job[w] = h
             /\ answer[w] # None
             /\ UNCHANGED ledgerVars
             /\ authorization'[h] = IF answer[w] = "SUCCEEDED" THEN "RESOLVED"
                                                               ELSE "ESCALATED"
  BY <1>0, <1>4 DEF Finish, Transition, Typed
<1> QED
  BY <1>1, <1>2, <1>3, <1>4
  DEF Next, EscalateByBridge, Lease, Execute, ExecuteV1, ExecutorStep, ExecutorFails,
      vars

\* Nothing is started, and nobody works, for a return that is awaited.
LEMMA AwaitedIsUntouched ==
  ASSUME IInv, NEW h \in V2, authorization[h] \in ReturnStatuses
  PROVE  h \notin started /\ \A w \in Executors : job[w] # h
<1>1. authorization[h] \notin Decided /\ h \in Handoffs /\ h # None
  BY LedgerAssumption DEF Decided, Closed, ReturnStatuses
<1>2. h \in started => HandoffOf[content[h]] = h
  BY <1>1 DEF IInv, DecisionKnown, Rows
<1> QED
  BY <1>1, <1>2 DEF IInv, Backed, Passed, Jobs

LEMMA EndedKept == ASSUME IInv, [Next]_vars PROVE Ended'
<1>0. /\ Grows /\ Typed /\ Ended /\ ExecutorKnows /\ AnswerKnown
      /\ outlasted \subseteq outlasted' /\ V2 \subseteq Handoffs
  BY StepsOfTheLedger, LedgerGrows, RecordsStay, LedgerAssumption DEF IInv, Typed
<1>1. ASSUME NEW h \in V2, authorization'[h] = "RESOLVED"
      PROVE  decision'[h] = "APPLIED"
  <2>1. decision[h] = "APPLIED"
    <3>1. CASE authorization[h] = "RESOLVED"
      BY <1>0, <3>1 DEF Ended
    <3>2. CASE authorization'[h] # authorization[h]
      <4>1. PICK w \in Executors : job[w] = h /\ answer[w] = "SUCCEEDED"
                                   /\ answer[w] # None
        BY <1>1, <3>2, AuthorizationMoves DEF Open, ReturnStatuses
      <4> QED
        BY <1>0, <4>1 DEF AnswerKnown, AnswerTrue
    <3> QED
      BY <1>1, <3>1, <3>2
  <2> QED
    BY <1>0, <2>1, LedgerAssumption DEF Grows
<1>2. ASSUME NEW h \in V2, authorization'[h] = "ESCALATED", Sole(h)'
      PROVE  \/ state'[h] = "REJECTED"
             \/ h \notin started' /\ \A w \in Executors : job'[w] # h
  <2>1. Sole(h) /\ (state[h] = "REJECTED" => state'[h] = "REJECTED")
    BY <1>0, <1>2 DEF Sole, Grows
  <2>2. CASE authorization[h] = "ESCALATED"
    <3>1. SUFFICES ASSUME h \notin started, \A w \in Executors : job[w] # h
                   PROVE  h \notin started' /\ \A w \in Executors : job'[w] # h
      BY <1>0, <2>1, <2>2 DEF Ended
    <3>2. h \notin started'
      <4> SUFFICES ASSUME h \in started' PROVE FALSE
        OBVIOUS
      <4>1. PICK e \in Executors : Ledger!MarkStarted(e) /\ h = HandoffOf[req[e]]
        BY <3>1, StartedByMark
      <4> QED
        BY <1>0, <3>1, <4>1 DEF Ledger!MarkStarted, ExecutorKnows, Knows
    <3>3. \A w \in Executors : job'[w] # h
      BY <1>0, <2>2, <3>1, LedgerAssumption
      DEF Next, RegisterAuthorization, ConfirmReturn, EscalateByBridge,
          AcceptReturnEvent, Lease, Execute, ExecuteV1, ExecutorStep, ExecutorFails,
          Finish, LeaveJob, workerVars, vars, Typed
    <3> QED
      BY <3>2, <3>3
  <2>3. CASE authorization[h] \in ReturnStatuses /\ UNCHANGED <<ledgerVars, job>>
    BY <2>3, AwaitedIsUntouched DEF ledgerVars
  <2>4. ASSUME NEW w \in Executors, job[w] = h, answer[w] # None,
               answer[w] # "SUCCEEDED"
        PROVE  state[h] = "REJECTED"
    BY <1>0, <2>4 DEF AnswerKnown, AnswerTrue, Ledger!Terminal
  <2>5. CASE authorization'[h] # authorization[h]
    BY <1>2, <2>1, <2>3, <2>4, <2>5, AuthorizationMoves DEF Open, ReturnStatuses
  <2> QED
    BY <1>2, <2>2, <2>5
<1> QED
  BY <1>1, <1>2 DEF Ended

-----------------------------------------------------------------------------
(* Closing, and the reservations of what is open. *)

\* A closed case does not move.
LEMMA ClosedDoesNotMove ==
  ASSUME NEW from \in Closed, NEW to PROVE ~CanMove(from, to)
  BY DEF Closed, CanMove, AllowedTransitions

LEMMA TransitionClosesOnce ==
  ASSUME Typed, ClosedOnce, NEW h \in V2, NEW target \in Statuses,
         Transition(h, target)
  PROVE  ClosedOnce'
<1>1. /\ status' = [status EXCEPT ![h] = target]
      /\ authorization' = [authorization EXCEPT ![h] = target]
      /\ status[h] = target \/ CanMove(status[h], target)
      /\ done' = IF target \in Closed /\ status[h] # target
                 THEN [done EXCEPT ![h] = Append(done[h], target)] ELSE done
  BY DEF Transition, Announce
<1>2. ASSUME NEW k \in V2 \ {h}
      PROVE  /\ status'[k] = status[k] /\ authorization'[k] = authorization[k]
             /\ done'[k] = done[k]
  BY <1>1, <1>2 DEF Typed
<1>3. CASE status[h] = target
  BY <1>1, <1>2, <1>3 DEF Typed, ClosedOnce
<1>4. CASE status[h] # target
  <2>1. status[h] \notin Closed /\ done[h] = <<>>
    BY <1>1, <1>4, ClosedDoesNotMove DEF ClosedOnce
  <2>2. status'[h] = target /\ authorization'[h] = target
    BY <1>1 DEF Typed
  <2>3. CASE target \in Closed
    <3>1. done'[h] = <<target>>
      BY <1>1, <1>4, <2>1, <2>3 DEF Typed
    <3> QED
      BY <1>2, <2>2, <2>3, <3>1 DEF ClosedOnce
  <2>4. CASE target \notin Closed
    BY <1>1, <1>2, <2>1, <2>2, <2>4 DEF ClosedOnce
  <2> QED
    BY <2>3, <2>4
<1> QED
  BY <1>3, <1>4

LEMMA ClosesOnceKept == ASSUME IInv, [Next]_vars PROVE ClosedOnce'
<1>0. /\ Typed /\ ClosedOnce
      /\ {"EXECUTING", "RESOLVED", "ESCALATED", "AWAITING_RETURN",
          "AWAITING_RETURN_INSPECTION", "AWAITING_RETURN_CONFIRMATION"}
           \subseteq Statuses
  BY DEF IInv, Statuses, ReturnStatuses, Closed
<1>1. ASSUME NEW h \in V2, NEW target \in Statuses, Transition(h, target)
      PROVE  ClosedOnce'
  BY <1>0, <1>1, TransitionClosesOnce
<1>2. ASSUME NEW r \in Requests, RegisterAuthorization(r) PROVE ClosedOnce'
  BY <1>0, <1>1, <1>2 DEF RegisterAuthorization
<1>3. ASSUME NEW h \in V2, NEW accept \in BOOLEAN, ConfirmReturn(h, accept)
      PROVE  ClosedOnce'
  BY <1>0, <1>1, <1>3 DEF ConfirmReturn
<1>4. ASSUME NEW m \in Events, AcceptReturnEvent(m) PROVE ClosedOnce'
  <2>1. m.handoff \in V2
    BY DEF Events
  <2> QED
    BY <1>0, <1>1, <1>4, <2>1 DEF AcceptReturnEvent
<1>5. ASSUME NEW h \in V2, EscalateByBridge(h) PROVE ClosedOnce'
  <2>1. status[h] \notin Closed /\ done[h] = <<>>
    BY <1>0, <1>5, ClosedDoesNotMove DEF EscalateByBridge, ClosedOnce
  <2>2. status'[h] = "ESCALATED" /\ done'[h] = <<"ESCALATED">>
    BY <1>0, <1>5, <2>1 DEF EscalateByBridge, Typed
  <2>3. authorization' = authorization /\ authorization[h] \notin Closed
    BY <1>0, <1>5, <2>1 DEF EscalateByBridge, ClosedOnce
  <2>4. \A k \in V2 \ {h} : status'[k] = status[k] /\ done'[k] = done[k]
    BY <1>0, <1>5 DEF EscalateByBridge, Typed
  <2> QED
    BY <1>0, <2>2, <2>3, <2>4 DEF ClosedOnce, Closed
<1>6. ASSUME NEW e \in Executors, Finish(e) PROVE ClosedOnce'
  <2>1. job[e] \in V2
    BY <1>6, JobHasRow DEF Finish, IInv, AnswerKnown, AnswerTrue
  <2>2. CASE UNCHANGED <<caseVars, authorization, lease>>
    BY <1>0, <2>2 DEF ClosedOnce, caseVars
  <2> QED
    BY <1>0, <1>1, <1>6, <2>1, <2>2 DEF Finish
<1>7. ASSUME NEW e \in Executors,
             \/ \E h \in V2 : Lease(e, h)
             \/ Execute(e) \/ \E r \in Requests : ExecuteV1(e, r)
             \/ ExecutorStep(e) \/ ExecutorFails(e)
      PROVE  ClosedOnce'
  <2>1. UNCHANGED <<status, done, authorization>>
    BY <1>7 DEF Lease, Execute, ExecuteV1, ExecutorStep, ExecutorFails, caseVars
  <2> QED
    BY <1>0, <2>1 DEF ClosedOnce
<1>8. CASE UNCHANGED vars
  BY <1>0, <1>8 DEF ClosedOnce, vars
<1> QED
  BY <1>2, <1>3, <1>4, <1>5, <1>6, <1>7, <1>8 DEF Next

\* An execution that owns its items owns them until it is rejected.
LEMMA OwnsStays ==
  ASSUME IInv, [Next]_vars, NEW h \in Handoffs, content[h] # None,
         Ledger!Owns(h, content[h]), state'[h] # "REJECTED"
  PROVE  Ledger!Owns(h, content[h])'
<1>0. /\ Typed /\ Ledger!TypeOK /\ Grows /\ h # None
      /\ content'[h] = content[h] /\ content[h] \in Requests
      /\ [Ledger!Next]_(Ledger!vars)
  BY StepsOfTheLedger, LedgerGrows, LedgerAssumption
  DEF IInv, Typed, Ledger!TypeOK, Grows
<1> SUFFICES ASSUME NEW i \in Scope[content[h]], reservation[i] = h
             PROVE  reservation'[i] = h
  BY <1>0 DEF Ledger!Owns
<1> USE <1>0, LedgerAssumption DEF Ledger!TypeOK
<1>1. i \in Items
  OBVIOUS
<1>2. ASSUME NEW r \in Requests, Ledger!Register(r) PROVE reservation'[i] = h
  BY <1>1, <1>2 DEF Ledger!Register, Ledger!Reservable, Ledger!Reserve
<1>3. ASSUME NEW e \in Executors, Ledger!MarkStarted(e) PROVE reservation'[i] = h
  BY <1>1, <1>3
  DEF Ledger!MarkStarted, Ledger!Reservable, Ledger!Reserve, Ledger!ledger
<1>4. ASSUME NEW e \in Executors, Ledger!Complete(e) PROVE reservation'[i] = h
  <2>1. CASE UNCHANGED reservation
    BY <2>1
  <2>2. CASE /\ state' = [state EXCEPT ![HandoffOf[req[e]]] = "REJECTED"]
             /\ reservation' = [j \in Items |->
                  IF reservation[j] = HandoffOf[req[e]] THEN None ELSE reservation[j]]
    <3>1. h # HandoffOf[req[e]]
      BY <2>2
    <3> QED
      BY <1>1, <2>2, <3>1
  <2> QED
    BY <1>4, <2>1, <2>2 DEF Ledger!Complete, Ledger!ledger
<1>5. CASE UNCHANGED reservation
  BY <1>5
<1> QED
  BY <1>2, <1>3, <1>4, <1>5
  DEF Ledger!Next, Ledger!Begin, Ledger!Authorize, Ledger!Reject, Ledger!Overwrite,
      Ledger!Pend, Ledger!Apply, Ledger!Fail, Ledger!ledger, Ledger!vars

LEMMA HeldKept == ASSUME IInv, [Next]_vars PROVE HeldForTheReturn'
<1> SUFFICES ASSUME NEW h \in V2, authorization'[h] \in Open,
                    state'[h] # "REJECTED"
             PROVE  Ledger!Owns(h, content[h])'
  BY DEF HeldForTheReturn
<1>0. /\ Typed /\ Grows /\ h \in Handoffs /\ None \notin Open
  BY StepsOfTheLedger, LedgerGrows, LedgerAssumption, FulfillmentAssumption
  DEF IInv, Open, Statuses
<1>1. CASE authorization[h] \in Open
  <2>1. state[h] # "REJECTED" /\ content[h] # None
    BY <1>0, <1>1 DEF Grows, IInv, Rowed
  <2>2. Ledger!Owns(h, content[h])
    BY <1>1, <2>1 DEF IInv, HeldForTheReturn
  <2> QED
    BY <1>0, <2>1, <2>2, OwnsStays
<1>2. ASSUME NEW r \in Requests, RegisterAuthorization(r), h = HandoffOf[r]
      PROVE  Ledger!Owns(h, content[h])'
  <2>1. content'[h] = r /\ \A i \in Scope[r] : reservation'[i] = h
    BY <1>0, <1>2, LedgerAssumption
    DEF RegisterAuthorization, Enter, Ledger!Register, Ledger!Insert, Ledger!Reserve,
        Typed, Ledger!TypeOK
  <2> QED
    BY <2>1 DEF Ledger!Owns
<1>3. CASE authorization[h] \notin Open
  BY <1>2, <1>3, AuthorizationMoves DEF Open, ReturnStatuses
<1> QED
  BY <1>1, <1>3

-----------------------------------------------------------------------------
(* The inductive invariant. *)

LEMMA InitIInv == Init => IInv
<1> SUFFICES ASSUME Init PROVE IInv
  OBVIOUS
<1> USE LedgerAssumption, FulfillmentAssumption
    DEF Init, Ledger!Init, Typed, Ledger!TypeOK, Ledger!States, Ledger!Answers,
        Ledger!Places
<1>1. Typed
  BY DEF Statuses
<1>2. \A h \in V2 : authorization[h] \notin Statuses /\ status[h] \notin Closed
  BY DEF Closed
<1>3. Rows /\ Rowed /\ Jobs /\ ExecutorKnows /\ DecisionKnown /\ MoneyKnown
  BY DEF Rows, Rowed, Jobs, ExecutorKnows, Knows, DecisionKnown, MoneyKnown
<1>4. InspectedFirst /\ Backed /\ AnswerKnown /\ Alone /\ RejectionKnown
  BY DEF InspectedFirst, Backed, AnswerKnown, Alone, RejectionKnown
<1>5. Ended /\ ClosedOnce /\ HeldForTheReturn
  BY <1>2 DEF Ended, ClosedOnce, HeldForTheReturn, Statuses, Closed, Open
<1> QED
  BY <1>1, <1>3, <1>4, <1>5 DEF IInv

LEMMA StepIInv == IInv /\ [Next]_vars => IInv'
<1> SUFFICES ASSUME IInv, [Next]_vars PROVE IInv'
  OBVIOUS
<1>1. Rows' /\ DecisionKnown' /\ MoneyKnown'
  BY StepsOfTheLedger, RowsKept, DecisionsKept, MoneyKept
<1> QED
  BY <1>1, TypedKept, RowedKept, JobsKept, ExecutorsKept, InspectionsKept,
     BackedKept, AnswersKept, AloneKept, RejectionsKept, EndedKept, ClosesOnceKept,
     HeldKept
  DEF IInv

\* The invariant every theorem below rests on.
THEOREM Invariance == Spec => []IInv
<1>1. Init => IInv
  BY InitIInv
<1>2. IInv /\ [Next]_vars => IInv'
  BY StepIInv
<1> QED
  BY <1>1, <1>2, PTL DEF Spec

-----------------------------------------------------------------------------
(* Safety. *)

\* What was paid for was started, by a request that passed the release check.
LEMMA PaidPassed ==
  ASSUME IInv, NEW r \in money
  PROVE  /\ r \in Requests /\ HandoffOf[r] \in Handoffs
         /\ decision[HandoffOf[r]] = "APPLIED"
         /\ HandoffOf[r] \in started
         /\ Passed(r)
<1>1. r \in Requests /\ HandoffOf[r] \in Handoffs
  BY LedgerAssumption DEF IInv, Typed, Ledger!TypeOK
<1>2. content[HandoffOf[r]] = r /\ decision[HandoffOf[r]] = "APPLIED"
  BY DEF IInv, MoneyKnown
<1>3. HandoffOf[r] \in started
  BY <1>1, <1>2, LedgerAssumption DEF IInv, DecisionKnown
<1> QED
  BY <1>1, <1>2, <1>3 DEF IInv, Backed

\* Money for goods that must come back moves only after the buyer agreed, the
\* goods arrived, and an inspection of that arrival, made no earlier, passed
\* them: whatever requests compete, whichever events come in which order, and
\* however many workers fail or outlast their leases.
THEOREM PaysAfterInspection == Spec => []PaidAfterInspection
<1>1. IInv => PaidAfterInspection
  <2> SUFFICES ASSUME IInv, NEW r \in money,
                      HandoffOf[r] \in V2, r \in NeedsReturn
               PROVE
                 LET h == HandoffOf[r] IN
                 /\ consent[h] = "accepted"
                 /\ \E a, m \in receipts :
                      /\ a.handoff = h /\ m.handoff = h
                      /\ a.type = "RETURN_ARRIVED" /\ m.type = "INSPECTION_PASSED"
                      /\ m.arrival = a.id /\ a.id = arrived[h] /\ m.id = inspection[h]
                      /\ a.at <= m.at
    BY DEF PaidAfterInspection
  <2>1. Passed(r)
    BY PaidPassed
  <2>2. PICK m \in receipts : /\ m.handoff = HandoffOf[r]
                              /\ m.id = inspection[HandoffOf[r]]
                              /\ m.type = "INSPECTION_PASSED"
                              /\ m.arrival = arrived[HandoffOf[r]]
    BY <2>1 DEF Passed
  <2>3. ArrivedFor(m)
    BY <2>2 DEF IInv, InspectedFirst, Inspections
  <2>4. PICK a \in receipts : /\ a.id = m.arrival
                              /\ a.handoff = m.handoff
                              /\ a.type = "RETURN_ARRIVED"
                              /\ a.at <= m.at
    BY <2>3 DEF ArrivedFor
  <2> QED
    BY <2>1, <2>2, <2>4 DEF Passed
<1> QED
  BY Invariance, <1>1, PTL

\* A return that was declined, overdue or disputed is never paid for, and what
\* is resolved was paid: with any number of workers, where writing transactions
\* run one by one or no worker outlasted its lease on the handoff.
THEOREM EscalatesUnpaid == Spec => []EscalatedIsUnpaid
<1>1. IInv => EscalatedIsUnpaid
  <2> SUFFICES ASSUME IInv, NEW h \in V2
               PROVE  /\ authorization[h] = "ESCALATED" /\ Sole(h) => ~Paid(h)
                      /\ authorization[h] = "RESOLVED" => Paid(h)
    BY DEF EscalatedIsUnpaid, Sole
  <2>1. h \in Handoffs
    BY LedgerAssumption
  <2>2. ASSUME authorization[h] = "ESCALATED", Sole(h), Paid(h) PROVE FALSE
    <3>1. h \in started /\ decision[h] = "APPLIED"
      BY <2>2, PaidPassed DEF Paid
    <3>2. state[h] = "REJECTED"
      BY <2>2, <3>1 DEF IInv, Ended
    <3> QED
      BY <2>2, <3>1, <3>2 DEF IInv, RejectionKnown
  <2>3. ASSUME authorization[h] = "RESOLVED" PROVE Paid(h)
    <3>1. content[h] \in money
      BY <2>1, <2>3 DEF IInv, Ended, DecisionKnown
    <3>2. HandoffOf[content[h]] = h
      BY <2>1, <3>1, LedgerAssumption
      DEF IInv, Rows, Rowed, Typed, Ledger!TypeOK
    <3> QED
      BY <3>1, <3>2 DEF Paid
  <2> QED
    BY <2>2, <2>3
<1> QED
  BY Invariance, <1>1, PTL

\* A case closes once, in the status of its authorization, whoever closes it.
THEOREM ClosesOnce == Spec => []ClosedOnce
<1>1. IInv => ClosedOnce
  BY DEF IInv
<1> QED
  BY Invariance, <1>1, PTL

\* An open authorization keeps its items.
THEOREM HoldsTheItems == Spec => []HeldForTheReturn
<1>1. IInv => HeldForTheReturn
  BY DEF IInv
<1> QED
  BY Invariance, <1>1, PTL

-----------------------------------------------------------------------------
(* Refinement. *)

\* Authorizations, returns and fulfillment workers use the ledger as its
\* specification allows: what RefundLedgerProofs proves of its tables, that no
\* item is refunded twice above all, is true of the fulfillment of v2 cases too.
THEOREM KeepsTheLedger == Spec => Ledger!Spec
<1>1. Init => Ledger!Init
  BY DEF Init
<1>2. IInv /\ [Next]_vars => [Ledger!Next]_(Ledger!vars)
  BY StepsOfTheLedger
<1> QED
  BY Invariance, <1>1, <1>2, PTL DEF Spec, Ledger!Spec
=============================================================================
