------------------------------ MODULE TraceProofs ------------------------------
(***************************************************************************)
(* Proofs about the activity trace of the API, first, and the page in the  *)
(* browser that reads it.                                                  *)
(***************************************************************************)
EXTENDS ActivityTrace, CaseWorkspace, FiniteSetTheorems, SequenceTheorems, TLAPS

(***************************************************************************)
(* Proofs about the activity trace, for any events, bridges and narrators, *)
(* however often they fail and whatever texts the models return.           *)
(*                                                                         *)
(* The streams may hold anything of the right shape: what is stored is     *)
(* decided by append alone. The invariant says what append relies on: a    *)
(* summary that has a row in the outbox is in the trace (RowsHaveSources), *)
(* and a narration that is in the trace is the result of its row.          *)
(***************************************************************************)

Messages == [of : Summaries \cup Lifecycles, text : Nat]

QueueTypes ==
  /\ queue \in Seq(Summaries \cup Lifecycles)
  /\ activities \subseteq Messages
  /\ \A m \in activities : IsNarration(m) => m.of \in Summaries

WorkTypes ==
  /\ todo \in [Bridges -> SUBSET Summaries]
  /\ unmarked \in [Bridges -> SUBSET Summaries]
  /\ jobs \subseteq Summaries
  /\ cache \in [Summaries -> Nat]
  /\ slot \in [Slots -> [at : {"idle", "model", "publish"}, job : SUBSET Summaries, text : Nat]]
  /\ texts \in Nat

StoreTypes ==
  /\ trace \in Seq(Messages)
  /\ dispatched \in [Summaries -> {"none", "pending", "sent"}]
  /\ result \in [Summaries -> Nat]

RowsHaveSources ==
  \A s \in Summaries :
    dispatched[s] # "none" => \E i \in 1..Len(trace) : trace[i] = Emission(s)

StoreInv == StoreTypes /\ RowsHaveSources /\ NarratedOnce

\* What a bridge sends and marks are rows.
WorkHasRows ==
  \A b \in Bridges : \A s \in todo[b] \cup unmarked[b] : dispatched[s] # "none"

TraceInv == QueueTypes /\ WorkTypes /\ StoreInv /\ WorkHasRows

-----------------------------------------------------------------------------
(* append *)

\* What append accepts is new, and a narration is the first of a summary that is there.
LEMMA AppendKeepsStore ==
  ASSUME StoreInv, NEW m \in Messages, IsNarration(m) => m.of \in Summaries,
         Accepted(m), AppendEvent(m)
  PROVE  StoreInv'
<1> DEFINE n == Len(trace)
<1>1. trace \in Seq(Messages) /\ n \in Nat
  BY DEF StoreInv, StoreTypes
<1>2. /\ trace' \in Seq(Messages)
      /\ Len(trace') = n + 1
      /\ \A i \in 1..n : trace'[i] = trace[i]
      /\ trace'[n + 1] = m
  BY <1>1 DEF AppendEvent
<1>3. /\ DOMAIN trace = 1..n
      /\ DOMAIN trace' = 1..(n + 1)
  BY <1>1, <1>2
<1>4. /\ m.of \in Summaries \cup Lifecycles /\ m.text \in Nat
      /\ m = [of |-> m.of, text |-> m.text]
  BY DEF Messages
<1>5. result' = IF IsNarration(m) THEN [result EXCEPT ![m.of] = m.text] ELSE result
  BY DEF AppendEvent
<1>6. dispatched' = IF ~IsNarration(m) /\ m.of \in Summaries
                    THEN [dispatched EXCEPT ![m.of] = "pending"] ELSE dispatched
  BY DEF AppendEvent
<1> HIDE DEF n
<1>7. StoreTypes'
  BY <1>2, <1>4, <1>5, <1>6 DEF StoreInv, StoreTypes
<1>8. RowsHaveSources'
  <2> SUFFICES ASSUME NEW s \in Summaries, dispatched'[s] # "none"
               PROVE  \E i \in 1..(n + 1) : trace'[i] = Emission(s)
    BY <1>2 DEF RowsHaveSources, Emission
  <2>1. CASE dispatched[s] # "none"
    <3>1. PICK i \in 1..n : trace[i] = Emission(s)
      BY <2>1 DEF StoreInv, RowsHaveSources, n
    <3> QED
      BY <1>1, <1>2, <3>1
  <2>2. CASE dispatched[s] = "none"
    <3>1. ~IsNarration(m) /\ m.of = s
      BY <1>6, <2>2 DEF StoreInv, StoreTypes
    <3>2. m = Emission(s)
      BY <1>4, <3>1 DEF IsNarration, Emission
    <3> QED
      BY <1>1, <1>2, <3>2
  <2> QED
    BY <2>1, <2>2
<1>9. \A i, j \in 1..(n + 1) : SameId(trace'[i], trace'[j]) => i = j
  <2>1. \A i \in 1..n : ~SameId(trace[i], m) /\ ~SameId(m, trace[i])
    BY <1>3 DEF Accepted, SameId
  <2>2. \A i, j \in 1..n : SameId(trace[i], trace[j]) => i = j
    BY <1>3 DEF StoreInv, NarratedOnce
  <2> TAKE i, j \in 1..(n + 1)
  <2>3. CASE i \in 1..n /\ j \in 1..n
    BY <1>2, <2>2, <2>3
  <2>4. CASE i = n + 1 /\ j \in 1..n
    BY <1>2, <2>1, <2>4
  <2>5. CASE i \in 1..n /\ j = n + 1
    BY <1>2, <2>1, <2>5
  <2> QED
    BY <1>1, <2>3, <2>4, <2>5
<1>10. ASSUME NEW j \in 1..(n + 1), IsNarration(trace'[j])
       PROVE  /\ result'[trace'[j].of] = trace'[j].text
              /\ \E i \in 1..(j - 1) : trace'[i] = Emission(trace'[j].of)
  <2>1. CASE j \in 1..n
    <3>1. trace'[j] = trace[j] /\ trace[j] \in Messages
      BY <1>1, <1>2, <1>3, <2>1
    <3>2. /\ result[trace[j].of] = trace[j].text
          /\ \E i \in 1..(j - 1) : trace[i] = Emission(trace[j].of)
      BY <1>3, <1>10, <2>1, <3>1 DEF StoreInv, NarratedOnce
    <3>3. IsNarration(m) => m.of # trace[j].of
      BY <1>3, <1>10, <2>1, <3>1 DEF Accepted, SameId
    <3>4. result'[trace[j].of] = result[trace[j].of]
      BY <1>5, <3>3 DEF StoreInv, StoreTypes
    <3>5. \A i \in 1..(j - 1) : trace'[i] = trace[i]
      BY <1>1, <1>2, <2>1
    <3> QED
      BY <3>1, <3>2, <3>4, <3>5
  <2>2. CASE j = n + 1
    <3>1. trace'[j] = m /\ IsNarration(m)
      BY <1>2, <1>10, <2>2
    <3>2. m.of \in Summaries /\ dispatched[m.of] # "none"
      BY <3>1 DEF Accepted
    <3>3. PICK i \in 1..n : trace[i] = Emission(m.of)
      BY <3>2 DEF StoreInv, RowsHaveSources, n
    <3>4. i \in 1..(j - 1) /\ trace'[i] = Emission(m.of)
      BY <1>1, <1>2, <2>2, <3>3
    <3>5. result'[m.of] = m.text
      BY <1>5, <3>1, <3>2 DEF StoreInv, StoreTypes
    <3> QED
      BY <3>1, <3>4, <3>5
  <2> QED
    BY <1>1, <2>1, <2>2
<1>11. NarratedOnce'
  BY <1>3, <1>9, <1>10 DEF NarratedOnce, Emission, SameId, IsNarration
<1> QED
  BY <1>7, <1>8, <1>11 DEF StoreInv

\* Rows change between "pending" and "sent" beside that.
LEMMA StoreUntouched ==
  ASSUME StoreInv, UNCHANGED <<trace, result>>,
         dispatched' \in [Summaries -> {"none", "pending", "sent"}],
         \A s \in Summaries : dispatched'[s] # "none" =>
           \E i \in 1..Len(trace) : trace[i] = Emission(s)
  PROVE  StoreInv'
  BY DEF StoreInv, StoreTypes, RowsHaveSources, NarratedOnce, Emission, SameId, IsNarration

LEMMA SameStore ==
  ASSUME StoreInv, UNCHANGED storeVars
  PROVE  StoreInv'
  BY StoreUntouched DEF storeVars, StoreInv, StoreTypes, RowsHaveSources

-----------------------------------------------------------------------------
(* The steps *)

LEMMA EmissionsAreMessages ==
  \A e \in Summaries \cup Lifecycles : Emission(e) \in Messages /\ ~IsNarration(Emission(e))
  BY DEF Emission, IsNarration, Messages

LEMMA NarrationsAreMessages ==
  \A s \in Summaries, text \in Nat : Narration(s, text) \in Messages
  BY DEF Narration, Messages

LEMMA TraceInitially == TraceInit => TraceInv
<1> SUFFICES ASSUME TraceInit PROVE TraceInv
  OBVIOUS
<1>1. QueueTypes
  BY DEF TraceInit, QueueTypes
<1>2. WorkTypes
  BY DEF TraceInit, WorkTypes, AtRest
<1>3. StoreInv
  BY DEF TraceInit, StoreInv, StoreTypes, RowsHaveSources, NarratedOnce
<1>4. WorkHasRows
  BY DEF TraceInit, WorkHasRows
<1> QED
  BY <1>1, <1>2, <1>3, <1>4 DEF TraceInv

\* The agent's steps touch its queue and the stream only.
LEMMA AgentSteps ==
  ASSUME TraceInv, \/ \E e \in Summaries \cup Lifecycles : Emit(e)
               \/ PublishEvent
               \/ QueueIsLost
  PROVE  TraceInv'
<1>1. UNCHANGED <<storeVars, bridgeVars, jobs, narratorVars>>
  BY DEF Emit, PublishEvent, QueueIsLost
<1>2. StoreInv'
  BY <1>1, SameStore DEF TraceInv
<1>3. WorkTypes' /\ WorkHasRows'
  BY <1>1 DEF TraceInv, WorkTypes, WorkHasRows, storeVars, bridgeVars, narratorVars
<1>4. QueueTypes'
  <2>1. ASSUME NEW e \in Summaries \cup Lifecycles, Emit(e) PROVE QueueTypes'
    BY <2>1 DEF TraceInv, QueueTypes, Emit, IsNarration
  <2>2. CASE PublishEvent
    <3>1. Head(queue) \in Summaries \cup Lifecycles /\ queue' \in Seq(Summaries \cup Lifecycles)
      BY <2>2 DEF TraceInv, QueueTypes, PublishEvent
    <3> QED
      BY <2>2, <3>1, EmissionsAreMessages DEF TraceInv, QueueTypes, PublishEvent, IsNarration
  <2>3. CASE QueueIsLost
    BY <2>3 DEF TraceInv, QueueTypes, QueueIsLost, IsNarration
  <2> QED
    BY <2>1, <2>2, <2>3
<1> QED
  BY <1>2, <1>3, <1>4 DEF TraceInv

\* A row is never removed.
LEMMA ConsumeStep ==
  ASSUME TraceInv, NEW b \in Bridges, NEW m \in activities, Consume(b, m)
  PROVE  TraceInv'
<1>1. m \in Messages /\ (IsNarration(m) => m.of \in Summaries)
  BY DEF TraceInv, QueueTypes
<1>2. StoreInv'
  <2>1. CASE Accepted(m)
    BY <1>1, <2>1, AppendKeepsStore DEF TraceInv, Consume
  <2>2. CASE ~Accepted(m)
    BY <2>2, SameStore DEF TraceInv, Consume
  <2> QED
    BY <2>1, <2>2
<1>3. WorkTypes' /\ QueueTypes'
  BY DEF TraceInv, WorkTypes, QueueTypes, Consume, bridgeVars, narratorVars, agentQueue, IsNarration
<1>4. \A s \in Summaries : dispatched[s] # "none" => dispatched'[s] # "none"
  BY DEF Consume, AppendEvent, storeVars, TraceInv, StoreInv, StoreTypes
<1>5. WorkHasRows'
  BY <1>4 DEF TraceInv, WorkTypes, WorkHasRows, Consume, bridgeVars
<1> QED
  BY <1>2, <1>3, <1>5 DEF TraceInv

LEMMA DispatchSteps ==
  ASSUME TraceInv, NEW b \in Bridges, Dispatches(b) \/ BridgeFails(b)
  PROVE  TraceInv'
<1> USE DEF TraceInv
<1>1. QueueTypes'
  BY DEF QueueTypes, IsNarration, agentQueue, Dispatches, ReadPending, SendJob, MarkSent,
    BridgeFails
<1>2. CASE ReadPending(b)
  <2>1. StoreInv'
    BY <1>2, SameStore DEF ReadPending
  <2>2. WorkTypes' /\ WorkHasRows'
    BY <1>2 DEF ReadPending, WorkTypes, WorkHasRows, storeVars, narratorVars
  <2> QED
    BY <1>1, <2>1, <2>2
<1>3. ASSUME NEW s \in Summaries, SendJob(b, s) PROVE TraceInv'
  <2>1. StoreInv'
    BY <1>3, SameStore DEF SendJob
  <2>2. WorkTypes' /\ WorkHasRows'
    BY <1>3 DEF SendJob, WorkTypes, WorkHasRows, storeVars, narratorVars
  <2> QED
    BY <1>1, <2>1, <2>2
<1>4. CASE MarkSent(b)
  <2>1. dispatched' \in [Summaries -> {"none", "pending", "sent"}]
    BY <1>4 DEF MarkSent, StoreInv, StoreTypes
  <2>2. \A s \in Summaries : dispatched'[s] # "none" <=> dispatched[s] # "none"
    BY <1>4 DEF MarkSent, WorkHasRows
  <2>3. StoreInv'
    BY <1>4, <2>1, <2>2, StoreUntouched DEF MarkSent, StoreInv, RowsHaveSources
  <2>4. WorkTypes' /\ WorkHasRows'
    BY <1>4, <2>2 DEF MarkSent, WorkTypes, WorkHasRows, narratorVars
  <2> QED
    BY <1>1, <2>3, <2>4
<1>5. CASE BridgeFails(b)
  <2>1. StoreInv'
    BY <1>5, SameStore DEF BridgeFails
  <2>2. WorkTypes' /\ WorkHasRows'
    BY <1>5 DEF BridgeFails, WorkTypes, WorkHasRows, storeVars, narratorVars
  <2> QED
    BY <1>1, <2>1, <2>2
<1> QED
  BY <1>2, <1>3, <1>4, <1>5 DEF Dispatches

\* A narrator adds narrations of summaries to the stream, and leaves the store alone.
LEMMA NarratorSteps ==
  ASSUME TraceInv, \/ \E n \in Slots : Narrates(n) \/ SlotFails(n)
               \/ \E s \in Summaries : LockExpires(s)
  PROVE  TraceInv'
<1> USE DEF TraceInv
<1>1. UNCHANGED <<agentQueue, storeVars, bridgeVars>>
  BY DEF Narrates, TakeJob, Generate, PublishResult, SlotFails, LockExpires
<1>2. StoreInv' /\ WorkHasRows'
  BY <1>1, SameStore DEF WorkHasRows, storeVars, bridgeVars
<1>3. ASSUME NEW n \in Slots, NEW s \in Summaries, TakeJob(n, s)
      PROVE  QueueTypes' /\ WorkTypes'
  <2>1. Narration(s, cache[s]) \in Messages /\ Narration(s, cache[s]).of = s
    BY NarrationsAreMessages DEF WorkTypes, Narration
  <2>2. QueueTypes'
    BY <1>3, <2>1 DEF QueueTypes, TakeJob, IsNarration, agentQueue
  <2>3. [AtRest EXCEPT !.at = "model", !.job = {s}]
          \in [at : {"idle", "model", "publish"}, job : SUBSET Summaries, text : Nat]
    BY DEF AtRest
  <2>4. slot' \in [Slots -> [at : {"idle", "model", "publish"}, job : SUBSET Summaries, text : Nat]]
    BY <1>3, <2>3 DEF WorkTypes, TakeJob
  <2>5. WorkTypes'
    BY <1>3, <2>4 DEF WorkTypes, TakeJob, bridgeVars
  <2> QED
    BY <2>2, <2>5
<1>4. ASSUME NEW n \in Slots, Generate(n) PROVE QueueTypes' /\ WorkTypes'
  <2>1. texts' \in Nat
    BY <1>4 DEF WorkTypes, Generate
  <2>2. slot' = [slot EXCEPT ![n] = [slot[n] EXCEPT !.at = "publish", !.text = texts']]
    BY <1>4 DEF Generate
  <2>3. [slot[n] EXCEPT !.at = "publish", !.text = texts']
          \in [at : {"idle", "model", "publish"}, job : SUBSET Summaries, text : Nat]
    BY <2>1 DEF WorkTypes
  <2>4. WorkTypes'
    BY <1>4, <2>1, <2>2, <2>3 DEF WorkTypes, Generate, bridgeVars
  <2>5. QueueTypes'
    BY <1>4 DEF QueueTypes, Generate, IsNarration, agentQueue
  <2> QED
    BY <2>4, <2>5
<1>5. ASSUME NEW n \in Slots, PublishResult(n) PROVE QueueTypes' /\ WorkTypes'
  <2>1. slot[n].job \subseteq Summaries /\ slot[n].text \in Nat
    BY DEF WorkTypes
  <2>2. \A s \in slot[n].job : /\ Narration(s, slot[n].text) \in Messages
                               /\ Narration(s, slot[n].text).of = s
    BY <2>1, NarrationsAreMessages DEF Narration
  <2>3. QueueTypes'
    BY <1>5, <2>1, <2>2 DEF QueueTypes, PublishResult, IsNarration, agentQueue
  <2>4. WorkTypes'
    BY <1>5, <2>1 DEF WorkTypes, PublishResult, AtRest, bridgeVars
  <2> QED
    BY <2>3, <2>4
<1>6. ASSUME NEW n \in Slots, SlotFails(n) PROVE QueueTypes' /\ WorkTypes'
  BY <1>6 DEF QueueTypes, WorkTypes, SlotFails, AtRest, IsNarration, agentQueue, bridgeVars
<1>7. ASSUME NEW s \in Summaries, LockExpires(s) PROVE QueueTypes' /\ WorkTypes'
  BY <1>7 DEF QueueTypes, WorkTypes, LockExpires, IsNarration, agentQueue, bridgeVars
<1> QED
  BY <1>2, <1>3, <1>4, <1>5, <1>6, <1>7 DEF Narrates

-----------------------------------------------------------------------------
(* The theorems *)

\* The inductive invariant: rows have their summaries in the trace, bridges work on
\* rows, and each narration is the one its row knows.
THEOREM TraceInvariance == TraceSpec => []TraceInv
<1>1. TraceInv /\ [TraceNext]_traceVars => TraceInv'
  <2> SUFFICES ASSUME TraceInv, [TraceNext]_traceVars PROVE TraceInv'
    OBVIOUS
  <2>1. CASE UNCHANGED traceVars
    <3>1. StoreInv'
      BY <2>1, SameStore DEF traceVars, TraceInv
    <3> QED
      BY <2>1, <3>1 DEF traceVars, agentQueue, storeVars, bridgeVars, narratorVars, TraceInv,
           QueueTypes, WorkTypes, WorkHasRows, IsNarration
  <2>2. CASE TraceNext
    BY <2>2, AgentSteps, ConsumeStep, DispatchSteps, NarratorSteps DEF TraceNext, Consumes
  <2> QED
    BY <2>1, <2>2
<1> QED
  BY <1>1, TraceInitially, PTL DEF TraceSpec

\* The trace has every event once, and at most one narration of a summary, after it,
\* with the text its row knows: append decides alone, whatever is sent again and
\* however many narrators work on a job.
THEOREM TraceNarratesOnce == TraceSpec => []NarratedOnce
<1>1. TraceInv => NarratedOnce
  BY DEF TraceInv, StoreInv
<1> QED
  BY <1>1, TraceInvariance, PTL

-----------------------------------------------------------------------------
(***************************************************************************)
(* Proofs about the screen of a case, for any number of commits, reads,    *)
(* activities, failures and lost connections.                              *)
(*                                                                         *)
(* A read knows nothing of the others, and the page compares two numbers.  *)
(* Why that suffices: a read that was issued after another sees at least   *)
(* the event of that one (LaterReadsSeeMore), so that a read that is       *)
(* dropped or overtaken has nothing that the screen lacks (Overtaken), and *)
(* no read that may still be shown lacks an event that is settled          *)
(* (Settled). The feed needs that the cursor, the Last-Event-ID and what   *)
(* is on the wire continue each other (FeedInv).                           *)
(***************************************************************************)

Reads ==
  [ticket : Nat, event : Nat, at : {"asked", "answered", "failed"}, detail : Nat]

ReadTypes ==
  /\ {committed, received, issuedReads, appliedRead, detail} \subseteq Nat
  /\ received <= committed
  /\ reads \subseteq Reads
  /\ appliedRead <= issuedReads

Issued == \A q \in reads : q.ticket <= issuedReads /\ q.event <= received

TicketsAreUnique == \A q, r \in reads : q.ticket = r.ticket => q = r

LaterReadsSeeMore ==
  \A q, r \in reads :
    r.at = "answered" /\ r.ticket >= q.ticket => r.detail >= q.event

Overtaken == \A q \in reads : q.ticket < appliedRead => detail >= q.event

IsSettled(e) == ~\E q \in reads : q.event = e

Settled ==
  \A e \in 1..received :
    IsSettled(e) =>
      /\ detail >= e
      /\ \A r \in reads : r.at = "answered" /\ r.ticket >= appliedRead => r.detail >= e

ScreenInv ==
  ReadTypes /\ Issued /\ TicketsAreUnique /\ LaterReadsSeeMore /\ Overtaken /\ Settled

FeedInv ==
  /\ {stored, pageCursor, lastId, sentUpTo} \subseteq Nat
  /\ wire \in Seq(Nat)
  /\ feedState = "pages" => lastId = 0
  /\ feedState # "open" => wire = <<>>
  /\ feedState = "open" => sentUpTo = ResumeAfter + Len(wire)
  /\ \A i \in 1..Len(wire) : wire[i] = ResumeAfter + i
  /\ feed = 1..ResumeAfter

PageInv == ScreenInv /\ FeedInv

-----------------------------------------------------------------------------
(* The screen. *)

LEMMA ScreenUntouched ==
  ASSUME ScreenInv, UNCHANGED <<received, issuedReads, appliedRead, reads, detail>>,
         committed' \in Nat, committed' >= committed
  PROVE  ScreenInv'
  BY DEF ScreenInv, ReadTypes, Issued, TicketsAreUnique, LaterReadsSeeMore,
         Overtaken, Settled, IsSettled

\* A new read has the highest ticket and, if it is for an event, for a new one.
LEMMA RefreshKeepsScreen ==
  ASSUME ScreenInv, NEW event \in Nat, Refresh(event),
         received' \in Nat, received' <= committed, event <= received',
         received' = received \/ (received' = received + 1 /\ event = received'),
         UNCHANGED <<committed, appliedRead, detail>>
  PROVE  ScreenInv'
<1> DEFINE new == [ticket |-> issuedReads + 1, event |-> event, at |-> "asked", detail |-> 0]
<1>1. /\ issuedReads' = issuedReads + 1
      /\ reads' = reads \cup {new}
      /\ issuedReads \in Nat
  BY DEF Refresh, ScreenInv, ReadTypes
<1>2. /\ new \in Reads
      /\ new.ticket = issuedReads + 1
      /\ new.event = event
      /\ new.at = "asked"
  BY <1>1 DEF Reads
<1> HIDE DEF new
<1>3. ReadTypes'
  BY <1>1, <1>2 DEF ScreenInv, ReadTypes
<1>4. Issued'
  BY <1>1, <1>2 DEF ScreenInv, ReadTypes, Issued, Reads
<1>5. TicketsAreUnique'
  BY <1>1, <1>2 DEF ScreenInv, ReadTypes, Issued, TicketsAreUnique, Reads
<1>6. LaterReadsSeeMore'
  BY <1>1, <1>2 DEF ScreenInv, ReadTypes, Issued, LaterReadsSeeMore, Reads
<1>7. Overtaken'
  BY <1>1, <1>2 DEF ScreenInv, ReadTypes, Overtaken
<1>8. Settled'
  <2> SUFFICES ASSUME NEW e \in 1..received', IsSettled(e)'
               PROVE  /\ detail >= e
                      /\ \A r \in reads' : r.at = "answered" /\ r.ticket >= appliedRead
                                             => r.detail >= e
    BY DEF Settled
  <2>1. IsSettled(e) /\ e # event
    BY <1>1, <1>2 DEF IsSettled
  <2>2. e \in 1..received
    BY <2>1 DEF ScreenInv, ReadTypes
  <2> QED
    BY <1>1, <1>2, <2>1, <2>2 DEF ScreenInv, Settled
<1> QED
  BY <1>3, <1>4, <1>5, <1>6, <1>7, <1>8 DEF ScreenInv

\* The answer to a read is the case as it is now, which no event is ahead of.
LEMMA AnswerKeepsScreen ==
  ASSUME ScreenInv, NEW r \in reads, NEW new,
         reads' = (reads \ {r}) \cup {new},
         \/ new = [r EXCEPT !.at = "answered", !.detail = committed]
         \/ new = [r EXCEPT !.at = "failed"],
         UNCHANGED <<committed, received, issuedReads, appliedRead, detail>>
  PROVE  ScreenInv'
<1>1. /\ new \in Reads
      /\ new.ticket = r.ticket
      /\ new.event = r.event
      /\ new.at = "answered" => new.detail = committed
  BY DEF ScreenInv, ReadTypes, Reads
<1>2. ReadTypes' /\ Issued' /\ TicketsAreUnique' /\ Overtaken'
  BY <1>1 DEF ScreenInv, ReadTypes, Issued, TicketsAreUnique, Overtaken
<1>3. LaterReadsSeeMore'
  BY <1>1 DEF ScreenInv, ReadTypes, Issued, LaterReadsSeeMore, Reads
<1>4. Settled'
  <2> SUFFICES ASSUME NEW e \in 1..received, IsSettled(e)'
               PROVE  /\ detail >= e
                      /\ \A q \in reads' : q.at = "answered" /\ q.ticket >= appliedRead
                                             => q.detail >= e
    BY DEF Settled
  <2>1. IsSettled(e)
    BY <1>1 DEF IsSettled
  <2> QED
    BY <1>1, <2>1 DEF ScreenInv, ReadTypes, Settled
<1> QED
  BY <1>2, <1>3, <1>4 DEF ScreenInv

\* An answer that is shown has all that is settled, and the event of every read that it
\* overtakes; one that is dropped was overtaken.
LEMMA ApplyKeepsScreen ==
  ASSUME ScreenInv, NEW r \in reads, ApplyRead(r)
  PROVE  ScreenInv'
<1>1. /\ r.at = "answered"
      /\ reads' = reads \ {r}
      /\ UNCHANGED <<committed, received, issuedReads>>
  BY DEF ApplyRead
<1>2. r \in Reads /\ r.ticket <= issuedReads
  BY DEF ScreenInv, ReadTypes, Issued
<1>3. CASE Newer(r)
  <2>1. appliedRead' = r.ticket /\ detail' = r.detail /\ r.ticket >= appliedRead
    BY <1>3 DEF ApplyRead, Newer
  <2>2. ReadTypes' /\ Issued' /\ TicketsAreUnique' /\ LaterReadsSeeMore'
    BY <1>1, <1>2, <2>1 DEF ScreenInv, ReadTypes, Issued, TicketsAreUnique, LaterReadsSeeMore, Reads
  <2>3. Overtaken'
    BY <1>1, <1>2, <2>1 DEF ScreenInv, ReadTypes, LaterReadsSeeMore, Overtaken, Reads
  <2>4. Settled'
    <3> SUFFICES ASSUME NEW e \in 1..received, IsSettled(e)'
                 PROVE  /\ r.detail >= e
                        /\ \A q \in reads' : q.at = "answered" /\ q.ticket >= r.ticket
                                               => q.detail >= e
      BY <1>1, <2>1 DEF Settled
    <3>1. CASE IsSettled(e)
      BY <1>1, <1>2, <2>1, <3>1 DEF ScreenInv, ReadTypes, Settled, Reads
    <3>2. CASE ~IsSettled(e)
      <4>1. r.event = e
        BY <1>1, <3>2 DEF IsSettled
      <4> QED
        BY <1>1, <1>2, <4>1 DEF ScreenInv, ReadTypes, LaterReadsSeeMore, Reads
    <3> QED
      BY <3>1, <3>2
  <2> QED
    BY <2>2, <2>3, <2>4 DEF ScreenInv
<1>4. CASE ~Newer(r)
  <2>1. appliedRead' = appliedRead /\ detail' = detail /\ r.ticket < appliedRead
    BY <1>2, <1>4 DEF ApplyRead, Newer, ScreenInv, ReadTypes, Reads
  <2>2. ReadTypes' /\ Issued' /\ TicketsAreUnique' /\ LaterReadsSeeMore' /\ Overtaken'
    BY <1>1, <2>1 DEF ScreenInv, ReadTypes, Issued, TicketsAreUnique, LaterReadsSeeMore, Overtaken
  <2>3. Settled'
    <3> SUFFICES ASSUME NEW e \in 1..received, IsSettled(e)'
                 PROVE  /\ detail >= e
                        /\ \A q \in reads' : q.at = "answered" /\ q.ticket >= appliedRead
                                               => q.detail >= e
      BY <1>1, <2>1 DEF Settled
    <3>1. CASE IsSettled(e)
      BY <1>1, <3>1 DEF ScreenInv, Settled
    <3>2. CASE ~IsSettled(e)
      <4>1. r.event = e
        BY <1>1, <3>2 DEF IsSettled
      <4> QED
        BY <1>1, <1>2, <2>1, <4>1 DEF ScreenInv, ReadTypes, Overtaken, LaterReadsSeeMore, Reads
    <3> QED
      BY <3>1, <3>2
  <2> QED
    BY <2>2, <2>3 DEF ScreenInv
<1> QED
  BY <1>3, <1>4
LEMMA CaseKeepsScreen ==
  ASSUME ScreenInv, CaseNext
  PROVE  ScreenInv'
<1>1. CASE Commit
  BY <1>1, ScreenUntouched DEF Commit, ScreenInv, ReadTypes
<1>2. CASE Start
  BY <1>2, RefreshKeepsScreen DEF Start, ScreenInv, ReadTypes
<1>3. CASE Updated
  BY <1>3, RefreshKeepsScreen DEF Updated, ScreenInv, ReadTypes
<1>4. CASE Receive
  BY <1>4, RefreshKeepsScreen DEF Receive, ScreenInv, ReadTypes
<1>5. ASSUME NEW r \in reads, ServeRead(r) PROVE ScreenInv'
  BY <1>5, AnswerKeepsScreen DEF ServeRead
<1>6. ASSUME NEW r \in reads, ApplyRead(r) PROVE ScreenInv'
  BY <1>6, ApplyKeepsScreen
<1>7. ASSUME NEW r \in reads, FailRead(r) PROVE ScreenInv'
  BY <1>7, AnswerKeepsScreen DEF FailRead
<1> QED
  BY <1>1, <1>2, <1>3, <1>4, <1>5, <1>6, <1>7 DEF CaseNext

-----------------------------------------------------------------------------
(* The feed. *)

\* A page continues at its cursor without a hole, and ends where Cardinality says.
LEMMA PageIsAnInterval ==
  ASSUME stored \in Nat, NEW after \in Nat
  PROVE  /\ Cardinality(Page(after)) \in Nat
         /\ Page(after) = (after + 1)..(after + Cardinality(Page(after)))
<1>1. PageSize \in Nat
  BY WorkspaceAssumption
<1> DEFINE end == IF stored <= after + PageSize THEN stored ELSE after + PageSize
<1>2. end \in Nat
  BY <1>1
<1>3. Page(after) = (after + 1)..end
  <2>1. \A n \in Int : n \in Page(after) <=> n \in (after + 1)..end
    BY <1>1, <1>2 DEF Page
  <2>2. Page(after) \subseteq Int /\ (after + 1)..end \subseteq Int
    BY DEF Page
  <2> HIDE DEF end
  <2> QED
    BY <2>1, <2>2
<1> HIDE DEF end
<1>4. Cardinality((after + 1)..end) = IF after + 1 > end THEN 0 ELSE end - after
  <2>1. after + 1 \in Int /\ end \in Int
    BY <1>2
  <2>2. Cardinality((after + 1)..end)
          = IF after + 1 > end THEN 0 ELSE end - (after + 1) + 1
    BY <2>1, FS_Interval
  <2> QED
    BY <1>2, <2>2
<1>5. CASE after + 1 > end
  BY <1>2, <1>3, <1>4, <1>5
<1>6. CASE after + 1 <= end
  <2>1. Cardinality(Page(after)) = end - after
    BY <1>2, <1>3, <1>4, <1>6
  <2>2. end - after \in Nat /\ after + (end - after) = end
    BY <1>2, <1>6
  <2> QED
    BY <1>3, <2>1, <2>2
<1> QED
  BY <1>2, <1>5, <1>6

LEMMA FeedUntouched ==
  ASSUME FeedInv, UNCHANGED <<feedState, pageCursor, lastId, wire, sentUpTo, feed>>,
         stored' \in Nat
  PROVE  FeedInv'
  BY DEF FeedInv, ResumeAfter

LEMMA LoadPageKeepsFeed ==
  ASSUME FeedInv, LoadPage
  PROVE  FeedInv'
<1>1. /\ feedState = "pages" /\ lastId = 0 /\ wire = <<>>
      /\ UNCHANGED <<stored, lastId, wire, sentUpTo>>
      /\ stored \in Nat /\ pageCursor \in Nat
  BY DEF LoadPage, FeedInv
<1>2. CASE feedState' = "unavailable" /\ UNCHANGED <<feed, pageCursor>>
  BY <1>1, <1>2 DEF FeedInv, ResumeAfter
<1>3. CASE /\ feed' = feed \cup Page(pageCursor)
           /\ pageCursor' = pageCursor + Cardinality(Page(pageCursor))
           /\ feedState' = IF HasMore(pageCursor) THEN "pages" ELSE "closed"
  <2> DEFINE n == Cardinality(Page(pageCursor))
  <2>1. n \in Nat /\ Page(pageCursor) = (pageCursor + 1)..(pageCursor + n)
    BY <1>1, PageIsAnInterval
  <2>2. feed = 1..pageCursor
    BY <1>1 DEF FeedInv, ResumeAfter
  <2>3. pageCursor' = pageCursor + n /\ feed' = feed \cup Page(pageCursor)
    BY <1>3
  <2> HIDE DEF n
  <2>4. feed' = 1..pageCursor'
    BY <1>1, <2>1, <2>2, <2>3
  <2>5. pageCursor' \in Nat
    BY <1>1, <2>1, <2>3
  <2> QED
    BY <1>1, <1>3, <2>4, <2>5 DEF FeedInv, ResumeAfter
<1> QED
  BY <1>2, <1>3 DEF LoadPage

LEMMA SendKeepsFeed ==
  ASSUME FeedInv, SendActivities
  PROVE  FeedInv'
<1> DEFINE n == Cardinality(Page(sentUpTo))
           sending == [i \in 1..n |-> sentUpTo + i]
<1>1. n \in Nat /\ sentUpTo \in Nat
  BY PageIsAnInterval DEF FeedInv
<1>2. /\ feedState = "open"
      /\ wire' = wire \o sending
      /\ sentUpTo' = sentUpTo + n
      /\ UNCHANGED <<stored, feedState, pageCursor, lastId, feed>>
  BY DEF SendActivities
<1>3. sentUpTo = ResumeAfter + Len(wire) /\ ResumeAfter \in Nat
  BY <1>2 DEF FeedInv, ResumeAfter
<1> HIDE DEF n
<1>4. sending \in Seq(Nat) /\ Len(sending) = n
  BY <1>1
<1>5. \A i \in 1..n : sending[i] = sentUpTo + i
  OBVIOUS
<1> HIDE DEF sending
<1>6. wire \in Seq(Nat)
  BY DEF FeedInv
<1>7. /\ wire' \in Seq(Nat)
      /\ Len(wire') = Len(wire) + n
      /\ \A i \in 1..Len(wire') :
           wire'[i] = IF i <= Len(wire) THEN wire[i] ELSE sending[i - Len(wire)]
  <2>1. /\ wire \o sending \in Seq(Nat)
        /\ Len(wire \o sending) = Len(wire) + Len(sending)
        /\ \A i \in 1..(Len(wire) + Len(sending)) :
             (wire \o sending)[i] = IF i <= Len(wire) THEN wire[i] ELSE sending[i - Len(wire)]
    BY <1>4, <1>6, ConcatProperties, Zenon
  <2> QED
    BY <1>2, <1>4, <2>1, Zenon
<1>8. ResumeAfter' = ResumeAfter
  BY <1>2 DEF ResumeAfter
<1>9. \A i \in 1..Len(wire') : wire'[i] = ResumeAfter + i
  <2> TAKE i \in 1..Len(wire')
  <2>1. CASE i <= Len(wire)
    BY <1>6, <1>7, <2>1 DEF FeedInv
  <2>2. CASE i > Len(wire)
    <3>1. i - Len(wire) \in 1..n
      BY <1>1, <1>6, <1>7, <2>2
    <3>2. wire'[i] = sentUpTo + (i - Len(wire))
      BY <1>5, <1>7, <2>2, <3>1
    <3> QED
      BY <1>3, <1>6, <3>2
  <2> QED
    BY <1>6, <1>7, <2>1, <2>2
<1> QED
  BY <1>1, <1>2, <1>3, <1>6, <1>7, <1>8, <1>9 DEF FeedInv

LEMMA ReceiveKeepsFeed ==
  ASSUME FeedInv, ReceiveActivity
  PROVE  FeedInv'
<1>1. /\ wire # <<>> /\ wire \in Seq(Nat) /\ feedState = "open"
      /\ wire' = Tail(wire)
      /\ feed' = feed \cup {Head(wire)}
      /\ lastId' = Head(wire)
      /\ UNCHANGED <<stored, feedState, pageCursor, sentUpTo>>
  BY DEF ReceiveActivity, FeedInv
<1>2. Len(wire) \in Nat /\ Len(wire) >= 1 /\ ResumeAfter \in Nat
  BY <1>1 DEF FeedInv, ResumeAfter
<1>3. Head(wire) = ResumeAfter + 1
  <2>1. Head(wire) = wire[1]
    BY <1>1
  <2> QED
    BY <1>2, <2>1 DEF FeedInv
<1>4. ResumeAfter' = ResumeAfter + 1
  BY <1>1, <1>2, <1>3 DEF ResumeAfter
<1>5. /\ wire' \in Seq(Nat)
      /\ Len(wire') = Len(wire) - 1
      /\ \A i \in 1..Len(wire') : wire'[i] = wire[i + 1]
  BY <1>1
<1>6. \A i \in 1..Len(wire') : wire'[i] = ResumeAfter' + i
  BY <1>2, <1>4, <1>5 DEF FeedInv
<1>7. feed' = 1..ResumeAfter'
  BY <1>1, <1>2, <1>3, <1>4 DEF FeedInv
<1>8. sentUpTo' = ResumeAfter' + Len(wire')
  BY <1>1, <1>2, <1>4, <1>5 DEF FeedInv
<1>9. {stored, pageCursor, lastId, sentUpTo}' \subseteq Nat
  BY <1>1, <1>2, <1>3 DEF FeedInv
<1> QED
  BY <1>1, <1>5, <1>6, <1>7, <1>8, <1>9 DEF FeedInv

LEMMA ReconnectKeepsFeed ==
  ASSUME FeedInv, OpenFeed \/ LoseFeed
  PROVE  FeedInv'
<1>1. ResumeAfter \in Nat
  BY DEF FeedInv, ResumeAfter
<1>2. CASE OpenFeed
  BY <1>1, <1>2 DEF OpenFeed, FeedInv, ResumeAfter
<1>3. CASE LoseFeed
  BY <1>1, <1>3 DEF LoseFeed, FeedInv, ResumeAfter
<1> QED
  BY <1>2, <1>3

LEMMA FeedKeepsFeed ==
  ASSUME FeedInv, FeedNext
  PROVE  FeedInv'
<1>1. CASE Store
  BY <1>1, FeedUntouched DEF Store, FeedInv
<1> QED
  BY <1>1, LoadPageKeepsFeed, SendKeepsFeed, ReceiveKeepsFeed, ReconnectKeepsFeed DEF FeedNext

-----------------------------------------------------------------------------
(* Both. *)

LEMMA PageInitially == WorkspaceInit => PageInv
<1> SUFFICES ASSUME WorkspaceInit PROVE PageInv
  OBVIOUS
<1>1. ScreenInv
  BY DEF WorkspaceInit, ScreenInv, ReadTypes, Issued, TicketsAreUnique,
         LaterReadsSeeMore, Overtaken, Settled
<1>2. FeedInv
  BY DEF WorkspaceInit, FeedInv, ResumeAfter
<1> QED
  BY <1>1, <1>2 DEF PageInv

LEMMA PageInvSuffices == PageInv => ScreenIsCurrent
<1> SUFFICES ASSUME PageInv PROVE ScreenIsCurrent
  OBVIOUS
<1>1. \A e \in 1..received : detail >= e \/ \E r \in reads : r.event = e
  BY DEF PageInv, ScreenInv, Settled, IsSettled
<1>2. ResumeAfter \in Nat /\ feed = 1..ResumeAfter
  BY DEF PageInv, FeedInv, ResumeAfter
<1>3. Cardinality(1..ResumeAfter) = ResumeAfter
  BY <1>2, FS_Interval
<1> QED
  BY <1>1, <1>2, <1>3 DEF ScreenIsCurrent

\* In every reachable state reads and tickets, cursors and the wire are as the screen
\* and the feed need them.
THEOREM WorkspaceInvariance == WorkspaceSpec => []PageInv
<1>1. PageInv /\ [WorkspaceNext]_screenVars => PageInv'
  <2> SUFFICES ASSUME PageInv, [WorkspaceNext]_screenVars PROVE PageInv'
    OBVIOUS
  <2>1. CASE CaseNext
    <3>1. UNCHANGED feedView
      BY <2>1 DEF CaseNext, Commit, Start, Updated, Receive, ServeRead, ApplyRead, FailRead
    <3>2. FeedInv'
      BY <3>1, FeedUntouched DEF PageInv, FeedInv, feedView
    <3> QED
      BY <2>1, <3>2, CaseKeepsScreen DEF PageInv
  <2>2. CASE FeedNext
    <3>1. UNCHANGED caseView
      BY <2>2 DEF FeedNext, Store, LoadPage, OpenFeed, SendActivities, ReceiveActivity, LoseFeed
    <3>2. ScreenInv'
      BY <3>1, ScreenUntouched DEF PageInv, ScreenInv, ReadTypes, caseView
    <3> QED
      BY <2>2, <3>2, FeedKeepsFeed DEF PageInv
  <2>3. CASE UNCHANGED screenVars
    <3>1. ScreenInv'
      BY <2>3, ScreenUntouched DEF PageInv, ScreenInv, ReadTypes, screenVars, caseView
    <3>2. FeedInv'
      BY <2>3, FeedUntouched DEF PageInv, FeedInv, screenVars, feedView
    <3> QED
      BY <3>1, <3>2 DEF PageInv
  <2> QED
    BY <2>1, <2>2, <2>3 DEF WorkspaceNext
<1> QED
  BY <1>1, PageInitially, PTL DEF WorkspaceSpec

\* The screen catches up with its events, and the feed has no hole.
THEOREM ScreenIsAlwaysCurrent == WorkspaceSpec => []ScreenIsCurrent
  BY WorkspaceInvariance, PageInvSuffices, PTL

=============================================================================
