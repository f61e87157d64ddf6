------------------------- MODULE RefundLedgerProofs -------------------------
(***************************************************************************)
(* Theorems about RefundLedger, for any sets of handoffs, items, requests  *)
(* and executors.                                                          *)
(*                                                                         *)
(* NoItemPaidTwice, PaidNeverRejected and SuccessIsPaid are not inductive: *)
(* they depend on what the provider remembers, on the rows it remembers it *)
(* for, and on what the executors that are about to call it have in hand.  *)
(* IInv ties these together:                                               *)
(*   - a row carries one request from the moment it exists (RowContent);   *)
(*   - the provider has decided only about started executions              *)
(*     (DecisionKnown);                                                    *)
(*   - an executor past start_pending holds the request of the row, one    *)
(*     past mark_application_started a started row (ExecutorKnows);        *)
(*   - a started execution owns its items unless the provider refused it   *)
(*     (StartedOwns), also when its row was overwritten as rejected;        *)
(*   - where SerialWriters, a started execution is rejected only after the *)
(*     provider refused it (RejectionKnown): this is what the started test *)
(*     of create_rejected and the state test of complete are for.          *)
(* Two requests with a common item cannot both be paid, because each would *)
(* own it. What a row reports (PaidNeverRejected, TerminalIsFinal,         *)
(* RefinesPromise) is proved for SerialWriters only.                       *)
(***************************************************************************)
EXTENDS RefundLedger, TLAPS

RowContent ==
  \A h \in Handoffs :
    /\ state[h] = "ABSENT" <=> content[h] = None
    /\ content[h] # None => HandoffOf[content[h]] = h

DecisionKnown ==
  \A h \in Handoffs :
    /\ h \in started => state[h] # "ABSENT"
    /\ decision[h] # None => h \in started
    /\ decision[h] = "APPLIED" => content[h] \in money
    /\ state[h] = "SUCCEEDED" => decision[h] = "APPLIED"

RejectionKnown ==
  SerialWriters => \A h \in Handoffs :
    h \in started /\ state[h] = "REJECTED" => decision[h] = "REJECTED"

StartedOwns ==
  \A h \in Handoffs :
    h \in started /\ decision[h] # "REJECTED" => Owns(h, content[h])

MoneyKnown ==
  \A r \in money : /\ content[HandoffOf[r]] = r
                   /\ decision[HandoffOf[r]] = "APPLIED"

ExecutorKnows ==
  \A e \in Executors :
    /\ pc[e] # "idle" => req[e] \in Requests
    /\ pc[e] \in {"overwrite", "mark", "apply", "complete"} =>
         content[HandoffOf[req[e]]] = req[e]
    /\ pc[e] = "overwrite" => ~SerialWriters
    /\ pc[e] \in {"apply", "complete"} => HandoffOf[req[e]] \in started
    /\ pc[e] = "complete" => /\ result[e] \in Answers
                             /\ result[e] = decision[HandoffOf[req[e]]]

IInv ==
  /\ TypeOK
  /\ RowContent
  /\ DecisionKnown
  /\ MoneyKnown
  /\ ExecutorKnows
  /\ RejectionKnown
  /\ StartedOwns
  /\ UnknownKeepsOwnership
  /\ SuccessIsPaid

-----------------------------------------------------------------------------
(* The inductive invariant. *)

LEMMA InitIInv == Init => IInv
  BY RequestsAssumption
  DEF Init, IInv, TypeOK, States, Answers, Places, RowContent, DecisionKnown,
      MoneyKnown, ExecutorKnows, RejectionKnown, StartedOwns,
      UnknownKeepsOwnership, SuccessIsPaid

LEMMA StepIInv == IInv /\ [Next]_vars => IInv'
<1> SUFFICES ASSUME IInv, [Next]_vars PROVE IInv'
  OBVIOUS
<1> USE RequestsAssumption
    DEF IInv, TypeOK, States, Answers, Places, Terminal, ledger, provider,
        executor, Goto, Return
<1>1. ASSUME NEW r \in Requests, Register(r) PROVE IInv'
  <2>1. TypeOK'
    BY <1>1 DEF Register, Insert, Reserve
  <2>2. RowContent'
    BY <1>1 DEF Register, Insert, RowContent
  <2>3. DecisionKnown'
    BY <1>1 DEF Register, Insert, DecisionKnown
  <2>4. MoneyKnown'
    BY <1>1 DEF Register, Insert, Matches, MoneyKnown
  <2>5. ExecutorKnows'
    BY <1>1 DEF Register, Insert, Matches, ExecutorKnows
  <2>6. UnknownKeepsOwnership'
    BY <1>1 DEF Register, Insert, Reserve, Reservable, RowContent,
       UnknownKeepsOwnership, Owns
  <2>7. SuccessIsPaid'
    BY <1>1 DEF Register, Insert, Reserve, Reservable, Matches, RowContent,
       SuccessIsPaid
  <2>8. RejectionKnown'
    BY <1>1 DEF Register, Insert, Matches, RejectionKnown
  <2>9. StartedOwns'
    BY <1>1 DEF Register, Insert, Reserve, Reservable, Matches, RowContent,
       DecisionKnown, StartedOwns, Owns
  <2> QED
    BY <2>1, <2>2, <2>3, <2>4, <2>5, <2>6, <2>7, <2>8, <2>9
<1>2. ASSUME NEW e \in Executors, NEW r \in Requests, Begin(e, r) PROVE IInv'
  <2>1. TypeOK'
    BY <1>2 DEF Begin
  <2>2. RowContent'
    BY <1>2 DEF Begin, RowContent
  <2>3. DecisionKnown'
    BY <1>2 DEF Begin, DecisionKnown
  <2>4. MoneyKnown'
    BY <1>2 DEF Begin, MoneyKnown
  <2>5. ExecutorKnows'
    BY <1>2 DEF Begin, Matches, RowContent, ExecutorKnows
  <2>6. UnknownKeepsOwnership'
    BY <1>2 DEF Begin, UnknownKeepsOwnership, Owns
  <2>7. SuccessIsPaid'
    BY <1>2 DEF Begin, SuccessIsPaid
  <2>8. RejectionKnown'
    BY <1>2 DEF Begin, RejectionKnown
  <2>9. StartedOwns'
    BY <1>2 DEF Begin, StartedOwns, Owns
  <2> QED
    BY <2>1, <2>2, <2>3, <2>4, <2>5, <2>6, <2>7, <2>8, <2>9
<1>3. ASSUME NEW e \in Executors, Authorize(e) PROVE IInv'
  <2>1. TypeOK'
    BY <1>3 DEF Authorize
  <2>2. RowContent'
    BY <1>3 DEF Authorize, RowContent
  <2>3. DecisionKnown'
    BY <1>3 DEF Authorize, DecisionKnown
  <2>4. MoneyKnown'
    BY <1>3 DEF Authorize, MoneyKnown
  <2>5. ExecutorKnows'
    BY <1>3 DEF Authorize, ExecutorKnows
  <2>6. UnknownKeepsOwnership'
    BY <1>3 DEF Authorize, UnknownKeepsOwnership, Owns
  <2>7. SuccessIsPaid'
    BY <1>3 DEF Authorize, SuccessIsPaid
  <2>8. RejectionKnown'
    BY <1>3 DEF Authorize, RejectionKnown
  <2>9. StartedOwns'
    BY <1>3 DEF Authorize, StartedOwns, Owns
  <2> QED
    BY <2>1, <2>2, <2>3, <2>4, <2>5, <2>6, <2>7, <2>8, <2>9
<1>4. ASSUME NEW e \in Executors, Reject(e) PROVE IInv'
  <2>1. TypeOK'
    BY <1>4 DEF Reject
  <2>2. RowContent'
    BY <1>4 DEF Reject, RowContent, ExecutorKnows
  <2>3. DecisionKnown'
    BY <1>4 DEF Reject, Refusable, DecisionKnown
  <2>4. MoneyKnown'
    BY <1>4 DEF Reject, Matches, MoneyKnown
  <2>5. ExecutorKnows'
    BY <1>4 DEF Reject, Refusable, Matches, RowContent, ExecutorKnows
  <2>6. UnknownKeepsOwnership'
    BY <1>4 DEF Reject, UnknownKeepsOwnership, Owns
  <2>7. SuccessIsPaid'
    BY <1>4 DEF Reject, Refusable, Matches, SuccessIsPaid
  <2>8. RejectionKnown'
    BY <1>4 DEF Reject, Refusable, DecisionKnown, RejectionKnown
  <2>9. StartedOwns'
    BY <1>4 DEF Reject, Matches, RowContent,
       DecisionKnown, StartedOwns, Owns
  <2> QED
    BY <2>1, <2>2, <2>3, <2>4, <2>5, <2>6, <2>7, <2>8, <2>9
<1>5. ASSUME NEW e \in Executors, Pend(e) PROVE IInv'
  <2>1. TypeOK'
    BY <1>5 DEF Pend, Insert
  <2>2. RowContent'
    BY <1>5 DEF Pend, Insert, RowContent, ExecutorKnows
  <2>3. DecisionKnown'
    BY <1>5 DEF Pend, Insert, Matches, DecisionKnown
  <2>4. MoneyKnown'
    BY <1>5 DEF Pend, Insert, Matches, MoneyKnown
  <2>5. ExecutorKnows'
    BY <1>5 DEF Pend, Insert, Matches, ExecutorKnows
  <2>6. UnknownKeepsOwnership'
    BY <1>5 DEF Pend, Insert, Matches, RowContent, DecisionKnown,
       UnknownKeepsOwnership, Owns
  <2>7. SuccessIsPaid'
    BY <1>5 DEF Pend, Insert, Matches, SuccessIsPaid
  <2>8. RejectionKnown'
    BY <1>5 DEF Pend, Insert, Matches, DecisionKnown, RejectionKnown
  <2>9. StartedOwns'
    BY <1>5 DEF Pend, Insert, Matches, RowContent, DecisionKnown, StartedOwns,
       Owns
  <2> QED
    BY <2>1, <2>2, <2>3, <2>4, <2>5, <2>6, <2>7, <2>8, <2>9
<1>6. ASSUME NEW e \in Executors, MarkStarted(e) PROVE IInv'
  <2>1. TypeOK'
    BY <1>6 DEF MarkStarted, Reserve, ExecutorKnows
  <2>2. RowContent'
    BY <1>6 DEF MarkStarted, RowContent
  <2>3. DecisionKnown'
    BY <1>6 DEF MarkStarted, DecisionKnown
  <2>4. MoneyKnown'
    BY <1>6 DEF MarkStarted, MoneyKnown
  <2>5. ExecutorKnows'
    BY <1>6 DEF MarkStarted, ExecutorKnows
  <2>6. UnknownKeepsOwnership'
    BY <1>6 DEF MarkStarted, Reserve, Reservable, RowContent, ExecutorKnows,
       UnknownKeepsOwnership, Owns
  <2>7. SuccessIsPaid'
    BY <1>6 DEF MarkStarted, Reserve, Reservable, SuccessIsPaid
  <2>8. RejectionKnown'
    BY <1>6 DEF MarkStarted, ExecutorKnows, RejectionKnown
  <2>9. StartedOwns'
    BY <1>6 DEF MarkStarted, Reserve, Reservable, RowContent, DecisionKnown,
       ExecutorKnows, StartedOwns, Owns
  <2> QED
    BY <2>1, <2>2, <2>3, <2>4, <2>5, <2>6, <2>7, <2>8, <2>9
<1>7. ASSUME NEW e \in Executors, Apply(e) PROVE IInv'
  <2>1. TypeOK'
    BY <1>7 DEF Apply, ExecutorKnows
  <2>2. RowContent'
    BY <1>7 DEF Apply, RowContent
  <2>3. DecisionKnown'
    BY <1>7 DEF Apply, DecisionKnown, ExecutorKnows
  <2>4. MoneyKnown'
    BY <1>7 DEF Apply, MoneyKnown, ExecutorKnows
  <2>5. ExecutorKnows'
    BY <1>7 DEF Apply, ExecutorKnows
  <2>6. UnknownKeepsOwnership'
    BY <1>7 DEF Apply, UnknownKeepsOwnership, Owns
  <2>7. SuccessIsPaid'
    BY <1>7 DEF Apply, SuccessIsPaid
  <2>8. RejectionKnown'
    BY <1>7 DEF Apply, RejectionKnown
  <2>9. StartedOwns'
    BY <1>7 DEF Apply, StartedOwns, Owns
  <2> QED
    BY <2>1, <2>2, <2>3, <2>4, <2>5, <2>6, <2>7, <2>8, <2>9
<1>8. ASSUME NEW e \in Executors, Complete(e) PROVE IInv'
  <2>1. TypeOK'
    BY <1>8 DEF Complete, StoreItems, Completion, ExecutorKnows
  <2>2. RowContent'
    BY <1>8 DEF Complete, RowContent
  <2>3. DecisionKnown'
    BY <1>8 DEF Complete, DecisionKnown, ExecutorKnows
  <2>4. MoneyKnown'
    BY <1>8 DEF Complete, MoneyKnown
  <2>5. ExecutorKnows'
    BY <1>8 DEF Complete, ExecutorKnows
  <2>6. UnknownKeepsOwnership'
    BY <1>8 DEF Complete, RowContent, UnknownKeepsOwnership, Owns
  <2>7. SuccessIsPaid'
    BY <1>8 DEF Complete, StoreItems, Completion, DecisionKnown,
       ExecutorKnows, UnknownKeepsOwnership, SuccessIsPaid, Owns
  <2>8. RejectionKnown'
    BY <1>8 DEF Complete, ExecutorKnows, DecisionKnown, RejectionKnown
  <2>9. StartedOwns'
    BY <1>8 DEF Complete, ExecutorKnows, DecisionKnown, RowContent, StartedOwns,
       Owns
  <2> QED
    BY <2>1, <2>2, <2>3, <2>4, <2>5, <2>6, <2>7, <2>8, <2>9
<1>9. ASSUME NEW e \in Executors, Fail(e) PROVE IInv'
  <2>1. TypeOK'
    BY <1>9 DEF Fail
  <2>2. RowContent'
    BY <1>9 DEF Fail, RowContent
  <2>3. DecisionKnown'
    BY <1>9 DEF Fail, DecisionKnown
  <2>4. MoneyKnown'
    BY <1>9 DEF Fail, MoneyKnown
  <2>5. ExecutorKnows'
    BY <1>9 DEF Fail, ExecutorKnows
  <2>6. UnknownKeepsOwnership'
    BY <1>9 DEF Fail, UnknownKeepsOwnership, Owns
  <2>7. SuccessIsPaid'
    BY <1>9 DEF Fail, SuccessIsPaid
  <2>8. RejectionKnown'
    BY <1>9 DEF Fail, RejectionKnown
  <2>9. StartedOwns'
    BY <1>9 DEF Fail, StartedOwns, Owns
  <2> QED
    BY <2>1, <2>2, <2>3, <2>4, <2>5, <2>6, <2>7, <2>8, <2>9
<1>10. ASSUME NEW e \in Executors, Overwrite(e) PROVE IInv'
  <2>1. TypeOK'
    BY <1>10 DEF Overwrite
  <2>2. RowContent'
    BY <1>10 DEF Overwrite, RowContent, ExecutorKnows
  <2>3. DecisionKnown'
    BY <1>10 DEF Overwrite, DecisionKnown
  <2>4. MoneyKnown'
    BY <1>10 DEF Overwrite, MoneyKnown
  <2>5. ExecutorKnows'
    BY <1>10 DEF Overwrite, ExecutorKnows
  <2>6. UnknownKeepsOwnership'
    BY <1>10 DEF Overwrite, UnknownKeepsOwnership, Owns
  <2>7. SuccessIsPaid'
    BY <1>10 DEF Overwrite, SuccessIsPaid
  <2>8. RejectionKnown'
    BY <1>10 DEF Overwrite, RejectionKnown, ExecutorKnows
  <2>9. StartedOwns'
    BY <1>10 DEF Overwrite, StartedOwns, Owns
  <2> QED
    BY <2>1, <2>2, <2>3, <2>4, <2>5, <2>6, <2>7, <2>8, <2>9
<1>11. CASE UNCHANGED vars
  BY <1>11 DEF vars, RowContent, DecisionKnown, MoneyKnown, ExecutorKnows,
     RejectionKnown, StartedOwns, UnknownKeepsOwnership, Owns, SuccessIsPaid
<1> QED
  BY <1>1, <1>2, <1>3, <1>4, <1>5, <1>6, <1>7, <1>8, <1>9, <1>10, <1>11 DEF Next

\* The invariant every theorem below rests on.
THEOREM Invariance == Spec => []IInv
<1>1. Init => IInv
  BY InitIInv
<1>2. IInv /\ [Next]_vars => IInv'
  BY StepIInv
<1> QED
  BY <1>1, <1>2, PTL DEF Spec

-----------------------------------------------------------------------------
(* Safety. *)

\* Every reachable state of the ledger has its columns within their types;
\* in particular a completion event is stored for v2 handoffs only.
THEOREM TypeCorrect == Spec => []TypeOK
<1>1. IInv => TypeOK
  BY DEF IInv
<1> QED
  BY Invariance, <1>1, PTL

\* What a paid request has: the row of its handoff and the reservation of each
\* of its items.
LEMMA PaidOwns ==
  ASSUME IInv, NEW r \in money
  PROVE  /\ r \in Requests
         /\ HandoffOf[r] \in Handoffs
         /\ content[HandoffOf[r]] = r
         /\ HandoffOf[r] \in started
         /\ decision[HandoffOf[r]] = "APPLIED"
         /\ \A i \in Scope[r] : reservation[i] = HandoffOf[r]
<1> DEFINE h == HandoffOf[r]
<1>1. r \in Requests /\ h \in Handoffs
  BY RequestsAssumption DEF IInv, TypeOK
<1>2. content[h] = r /\ decision[h] = "APPLIED"
  BY DEF IInv, MoneyKnown
<1>3. h \in started
  BY <1>1, <1>2, RequestsAssumption DEF IInv, DecisionKnown
<1>4. \A i \in Scope[r] : reservation[i] = h
  BY <1>1, <1>2, <1>3 DEF IInv, StartedOwns, Owns
<1> QED
  BY <1>1, <1>2, <1>3, <1>4

\* No line item is refunded by two requests, for any number of handoffs,
\* items, requests and racing executors: two paid requests with a common item
\* would have the same handoff, hence the same row content.
THEOREM ItemPaidOnce == Spec => []NoItemPaidTwice
<1>1. IInv => NoItemPaidTwice
  <2> SUFFICES ASSUME IInv, NEW r \in money, NEW s \in money, r # s,
                      NEW i \in Scope[r] \cap Scope[s]
               PROVE  FALSE
    BY DEF NoItemPaidTwice
  <2>1. reservation[i] = HandoffOf[r] /\ reservation[i] = HandoffOf[s]
    BY PaidOwns
  <2>2. content[HandoffOf[r]] = r /\ content[HandoffOf[s]] = s
    BY PaidOwns
  <2> QED
    BY <2>1, <2>2
<1> QED
  BY Invariance, <1>1, PTL

\* Money that moved is never reported as a refused refund, where writing
\* transactions run one by one.
THEOREM PaidIsNotRejected ==
  ASSUME SerialWriters
  PROVE  Spec => []PaidNeverRejected
<1>1. IInv => PaidNeverRejected
  BY PaidOwns, SerialWriters DEF IInv, PaidNeverRejected, RejectionKnown
<1> QED
  BY Invariance, <1>1, PTL

\* A success stands for a payment of the row's request, with every item
\* stored and reserved under it.
THEOREM SucceededIsPaid == Spec => []SuccessIsPaid
<1>1. IInv => SuccessIsPaid
  BY DEF IInv
<1> QED
  BY Invariance, <1>1, PTL

\* An execution with an unknown outcome keeps its items.
THEOREM UnknownIsOwner == Spec => []UnknownKeepsOwnership
<1>1. IInv => UnknownKeepsOwnership
  BY DEF IInv
<1> QED
  BY Invariance, <1>1, PTL

-----------------------------------------------------------------------------
(* What a step may do. *)

\* No step changes the outcome or the request of a terminal row, where writing
\* transactions run one by one.
THEOREM TerminalStays ==
  ASSUME SerialWriters
  PROVE  Spec => TerminalIsFinal
<1> DEFINE Kept == \A h \in Handoffs : state[h] \in Terminal =>
                     state'[h] = state[h] /\ content'[h] = content[h]
<1>1. IInv /\ [Next]_vars => Kept
  <2> SUFFICES ASSUME IInv, [Next]_vars,
                      NEW h \in Handoffs, state[h] \in Terminal
               PROVE  state'[h] = state[h] /\ content'[h] = content[h]
    OBVIOUS
  <2> USE RequestsAssumption DEF IInv, TypeOK, States, Terminal, ledger
  <2>1. content[h] # None
    BY DEF RowContent
  <2>2. ASSUME NEW r \in Requests, Register(r) PROVE Kept
    BY <2>2 DEF Register, Insert, Matches, RowContent
  <2>3. ASSUME NEW e \in Executors, Reject(e) PROVE Kept
    BY <2>3 DEF Reject, Refusable, Matches, ExecutorKnows
  <2>4. ASSUME NEW e \in Executors, Pend(e) PROVE Kept
    BY <2>4 DEF Pend, Insert, Matches, ExecutorKnows, RowContent
  <2>5. ASSUME NEW e \in Executors, MarkStarted(e) PROVE Kept
    BY <2>5 DEF MarkStarted, ExecutorKnows
  <2>6. ASSUME NEW e \in Executors, Complete(e) PROVE Kept
    BY <2>6 DEF Complete, ExecutorKnows
  <2>7. ASSUME NEW e \in Executors,
               \/ \E r \in Requests : Begin(e, r)
               \/ Authorize(e) \/ Overwrite(e) \/ Apply(e) \/ Fail(e)
        PROVE  Kept
    BY <2>7, SerialWriters DEF Begin, Authorize, Overwrite, ExecutorKnows, Apply, Fail
  <2>8. CASE UNCHANGED vars
    BY <2>8 DEF vars
  <2> QED
    BY <2>2, <2>3, <2>4, <2>5, <2>6, <2>7, <2>8 DEF Next
<1>2. IInv /\ [Next]_vars => [Kept]_vars
  BY <1>1
<1> QED
  BY Invariance, <1>2, PTL DEF Spec, TerminalIsFinal

\* No step hands a reserved item over to another execution.
THEOREM HandoverIsRelease == Spec => ReservationHandover
<1> DEFINE Kept == \A i \in Items : LET h == reservation[i] IN
                     h # None /\ reservation'[i] # h =>
                       /\ reservation'[i] = None
                       /\ decision[h] = "REJECTED"
                       /\ state'[h] = "REJECTED"
<1>1. IInv /\ [Next]_vars => Kept
  <2> SUFFICES ASSUME IInv, [Next]_vars PROVE Kept
    OBVIOUS
  <2> USE RequestsAssumption DEF IInv, TypeOK, States, Terminal, ledger
  <2>1. ASSUME NEW r \in Requests, Register(r) PROVE Kept
    BY <2>1 DEF Register, Reserve, Reservable
  <2>2. ASSUME NEW e \in Executors, MarkStarted(e) PROVE Kept
    BY <2>2 DEF MarkStarted, Reserve, Reservable, ExecutorKnows
  <2>3. ASSUME NEW e \in Executors, Complete(e) PROVE Kept
    BY <2>3 DEF Complete, ExecutorKnows
  <2>4. ASSUME NEW e \in Executors,
               \/ \E r \in Requests : Begin(e, r)
               \/ Authorize(e) \/ Reject(e) \/ Overwrite(e) \/ Pend(e)
               \/ Apply(e) \/ Fail(e)
        PROVE  Kept
    BY <2>4 DEF Begin, Authorize, Reject, Overwrite, Pend, Apply, Fail
  <2>5. CASE UNCHANGED vars
    BY <2>5 DEF vars
  <2> QED
    BY <2>1, <2>2, <2>3, <2>4, <2>5 DEF Next
<1>2. IInv /\ [Next]_vars => [Kept]_vars
  BY <1>1
<1> QED
  BY Invariance, <1>2, PTL DEF Spec, ReservationHandover

-----------------------------------------------------------------------------
(* Refinement. *)

\* Where writing transactions run one by one, the ledger implements
\* RefundPromise: the provider's first answer is the payment, the commit that
\* makes a row terminal is the answer, and every other step changes nothing
\* that a caller can rely on.
THEOREM Refinement ==
  ASSUME SerialWriters
  PROVE  Spec => RefinesPromise
<1>1. Init => Promise!Init
  BY DEF Init, Promise!Init, report
<1>2. IInv /\ [Next]_vars => [Promise!Next]_(Promise!vars)
  <2> SUFFICES ASSUME IInv, [Next]_vars
               PROVE  Promise!Next \/ UNCHANGED Promise!vars
    OBVIOUS
  <2> USE RequestsAssumption
      DEF IInv, TypeOK, States, Answers, Terminal, ledger, provider, Promise!vars
  <2>1. ASSUME NEW r \in Requests, Register(r) PROVE UNCHANGED Promise!vars
    BY <2>1 DEF Register, Insert, report
  <2>2. ASSUME NEW e \in Executors,
               \/ \E r \in Requests : Begin(e, r)
               \/ Authorize(e) \/ Overwrite(e) \/ Fail(e)
        PROVE  UNCHANGED Promise!vars
    BY <2>2, SerialWriters DEF Begin, Authorize, Overwrite, ExecutorKnows, Fail, report
  <2>3. ASSUME NEW e \in Executors, Pend(e) PROVE UNCHANGED Promise!vars
    BY <2>3 DEF Pend, Insert, ExecutorKnows, report
  <2>4. ASSUME NEW h \in Handoffs, state[h] \notin Terminal, UNCHANGED money,
               state' = [state EXCEPT ![h] = "REJECTED"],
               ~Promise!PaidFor(h)
        PROVE  Promise!Refuse(h)
    BY <2>4 DEF Promise!Refuse, report
  <2>5. \A h \in Handoffs : h \notin started => ~Promise!PaidFor(h)
    <3>1. \A r \in money : HandoffOf[r] \in started
      BY DEF MoneyKnown, DecisionKnown
    <3> QED
      BY <3>1 DEF Promise!PaidFor
  <2>6. ASSUME NEW e \in Executors, Reject(e)
        PROVE  Promise!Next \/ UNCHANGED Promise!vars
    <3> DEFINE h == HandoffOf[req[e]]
    <3>1. h \in Handoffs
      BY <2>6 DEF Reject, ExecutorKnows
    <3>2. CASE Refusable(h)
      <4>1. state[h] \notin Terminal /\ h \notin started
        BY <3>2 DEF Refusable, DecisionKnown
      <4>2. state' = [state EXCEPT ![h] = "REJECTED"] /\ UNCHANGED money
        BY <2>6, <3>2 DEF Reject
      <4>3. Promise!Refuse(h)
        BY <2>4, <2>5, <3>1, <4>1, <4>2
      <4> QED
        BY <3>1, <4>3 DEF Promise!Next
    <3>3. CASE ~Refusable(h)
      BY <2>6, <3>3 DEF Reject, report
    <3> QED
      BY <3>2, <3>3
  <2>7. ASSUME NEW e \in Executors, MarkStarted(e)
        PROVE  Promise!Next \/ UNCHANGED Promise!vars
    <3> DEFINE h == HandoffOf[req[e]]
    <3>1. h \in Handoffs
      BY <2>7 DEF MarkStarted, ExecutorKnows
    <3>2. CASE UNCHANGED state
      BY <2>7, <3>2 DEF MarkStarted, report
    <3>3. CASE /\ state' = [state EXCEPT ![h] = "REJECTED"]
               /\ state[h] = "IN_PROGRESS"
               /\ h \notin started
      <4>1. Promise!Refuse(h)
        BY <2>4, <2>5, <2>7, <3>1, <3>3 DEF MarkStarted
      <4> QED
        BY <3>1, <4>1 DEF Promise!Next
    <3> QED
      BY <2>7, <3>2, <3>3 DEF MarkStarted
  <2>8. ASSUME NEW e \in Executors, Apply(e)
        PROVE  Promise!Next \/ UNCHANGED Promise!vars
    <3> DEFINE r == req[e]
               h == HandoffOf[r]
    <3>1. /\ r \in Requests /\ h \in Handoffs
          /\ content[h] = r /\ h \in started
      BY <2>8 DEF Apply, ExecutorKnows
    <3>2. CASE UNCHANGED money
      BY <2>8, <3>2 DEF Apply, report
    <3>3. CASE money' = money \cup {r} /\ decision[h] = None
      <4>1. state[h] = "IN_PROGRESS"
        BY <3>1, <3>3, SerialWriters DEF DecisionKnown, RejectionKnown
      <4>2. ~Promise!PaidFor(h)
        BY <3>1, <3>3 DEF Promise!PaidFor, MoneyKnown
      <4>3. \A s \in money : Scope[r] \cap Scope[s] = {}
        <5> SUFFICES ASSUME NEW s \in money, NEW i \in Scope[r] \cap Scope[s]
                     PROVE  FALSE
          OBVIOUS
        <5>1. reservation[i] = h
          BY <3>1, <4>1 DEF UnknownKeepsOwnership, Owns
        <5>2. reservation[i] = HandoffOf[s]
          BY PaidOwns
        <5> QED
          BY <4>2, <5>1, <5>2 DEF Promise!PaidFor
      <4>4. report[h] = "open" /\ report' = report
        BY <2>8, <3>1, <4>1 DEF Apply, report
      <4>5. Promise!Pay(r)
        BY <3>3, <4>2, <4>3, <4>4 DEF Promise!Pay
      <4> QED
        BY <3>1, <4>5 DEF Promise!Next
    <3> QED
      BY <2>8, <3>2, <3>3 DEF Apply
  <2>9. ASSUME NEW e \in Executors, Complete(e)
        PROVE  Promise!Next \/ UNCHANGED Promise!vars
    <3> DEFINE h == HandoffOf[req[e]]
    <3>1. /\ h \in Handoffs /\ content[h] = req[e]
          /\ result[e] = decision[h]
      BY <2>9 DEF Complete, ExecutorKnows
    <3>2. CASE UNCHANGED state
      BY <2>9, <3>2 DEF Complete, report
    <3>3. CASE /\ state' = [state EXCEPT ![h] = "SUCCEEDED"]
               /\ state[h] = "IN_PROGRESS"
               /\ result[e] = "APPLIED"
      <4>1. Promise!PaidFor(h)
        BY <3>1, <3>3 DEF Promise!PaidFor, DecisionKnown
      <4>2. Promise!Succeed(h)
        BY <2>9, <3>1, <3>3, <4>1 DEF Promise!Succeed, Complete, report
      <4> QED
        BY <3>1, <4>2 DEF Promise!Next
    <3>4. CASE /\ state' = [state EXCEPT ![h] = "REJECTED"]
               /\ state[h] = "IN_PROGRESS"
               /\ result[e] = "REJECTED"
      <4>1. ~Promise!PaidFor(h)
        BY <3>1, <3>4 DEF Promise!PaidFor, MoneyKnown
      <4>2. Promise!Refuse(h)
        BY <2>4, <2>9, <3>1, <3>4, <4>1 DEF Complete
      <4> QED
        BY <3>1, <4>2 DEF Promise!Next
    <3> QED
      BY <2>9, <3>2, <3>3, <3>4 DEF Complete
  <2>10. CASE UNCHANGED vars
    BY <2>10 DEF vars, report
  <2> QED
    BY <2>1, <2>2, <2>3, <2>6, <2>7, <2>8, <2>9, <2>10 DEF Next
<1> QED
  BY Invariance, <1>1, <1>2, PTL DEF Spec, RefinesPromise, Promise!Spec
=============================================================================
