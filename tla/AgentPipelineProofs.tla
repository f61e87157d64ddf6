------------------------- MODULE AgentPipelineProofs -------------------------
(***************************************************************************)
(* Theorems about AgentPipeline, for any number of workers, bridges,       *)
(* commands, stream entries, runs and faults.                              *)
(*                                                                         *)
(* What holds whatever crashes rests on little: a worker that executes a   *)
(* command owns its journal row (WorkerKnows), a bridge holds an event     *)
(* (BridgeKnows), and a projection is terminated only with its case        *)
(* (TerminatedCloses).                                                     *)
(*                                                                         *)
(* That redelivery and reordering do no harm as long as nothing fails      *)
(* (CleanInv) needs a picture of the whole way of a command:               *)
(*   - a command is executed once: its row is running exactly while its    *)
(*     owner executes it, and there are no events before (RunsOnce);       *)
(*   - the events of a command have different numbers, those published so  *)
(*     far are not numbered higher than the last one, and the one that     *)
(*     ends the run comes last (Numbered);                                 *)
(*   - a reply is accepted, and a RESUME sent, only when the event that    *)
(*     ended the run of every earlier command is projected (InTurn);       *)
(*   - the status of the case says how far the last command has come       *)
(*     (StatusFits), and so does the thread of the agent (ThreadFits).     *)
(* Every event that is not projected then belongs to the last command, is  *)
(* the only one of its number, and asks for a move the case can make.      *)
(***************************************************************************)
EXTENDS AgentPipeline, TLAPS

Stages == {"idle", "invoke", "run", "publish", "finish", "ack", "abandon",
           "stopped"}
Types == Endings \cup {"NODE_OBSERVED", "RUN_FAILED"}
Event == [command : Commands, index : Nat \ {0}, run : Nat, type : Types]

Typed ==
  /\ status \in Statuses
  /\ reply \in [Commands -> Kinds \cup {"START", None}]
  /\ commands \in SUBSET (Commands \X Nat)
  /\ sent \in [Commands -> Nat]
  /\ journal \in [Commands -> {"ABSENT", "RUNNING", "COMPLETED", "FAILED"}]
  /\ owner \in [Commands -> Workers \cup {None}]
  /\ runs \in [Commands -> Nat]
  /\ worker \in [Workers -> Stages]
  /\ entry \in [Workers -> (Commands \X Nat) \cup {None}]
  /\ run \in [Workers -> Nat]
  /\ index \in [Workers -> Nat]
  /\ lost \in [Workers -> BOOLEAN]
  /\ outcome \in [Workers -> Endings \cup {"RUN_FAILED", None}]
  /\ events \in SUBSET Event
  /\ processed \in SUBSET Event
  /\ last \in [Commands -> Nat]
  /\ terminated \in SUBSET Commands
  /\ bridge \in [Bridges -> {"idle", "refund", "complete", "reject"}]
  /\ held \in [Bridges -> Event \cup {None}]
  /\ faults \in Nat

WorkerKnows ==
  \A w \in Workers :
    /\ worker[w] \notin {"idle", "stopped"} => entry[w] \in Commands \X Nat
    /\ worker[w] \in {"invoke", "run", "publish", "finish"} =>
         journal[entry[w][1]] = "RUNNING" /\ owner[entry[w][1]] = w
    /\ worker[w] = "publish" => outcome[w] \in Endings \cup {"RUN_FAILED"}

BridgeKnows ==
  \A b \in Bridges :
    /\ bridge[b] # "idle" => held[b] \in Event
    /\ bridge[b] \in {"refund", "complete"} => held[b].type = "FULL_REFUND"

TerminatedCloses == terminated # {} => status \in Closed

\* The event that ended the run of a command has been projected.
Over(c) == \E m \in processed : m.command = c /\ m.type # "NODE_OBSERVED"

Published == events \cup processed

RunsOnce ==
  \A c \in Commands :
    /\ journal[c] = "ABSENT" =>
         /\ \A m \in Published : m.command # c
         /\ \A w \in Workers : worker[w] # "idle" => entry[w][1] # c
    /\ journal[c] = "RUNNING" =>
         owner[c] \in Workers /\ Executing(owner[c], c)

Numbered ==
  /\ \A m, n \in Published : SameId(m, n) => m = n
  /\ \A m, n \in Published :
       m.command = n.command /\ m.type # "NODE_OBSERVED" => n.index <= m.index
  /\ \A w \in Workers, m \in Published :
       Executing(w, m.command) =>
         /\ m.index <= index[w]
         /\ worker[w] # "finish" => m.type = "NODE_OBSERVED"

InTurn ==
  /\ \A c \in Commands : journal[c] # "ABSENT" => reply[c] # None
  /\ \A e \in commands : reply[e[1]] # None
  /\ \A c \in Commands : sent[c] > 0 => reply[c] # None
  /\ \A c, d \in Commands : d < c /\ reply[c] # None => Over(d)

Undecided == {"OBSERVING", "EXECUTING"}

StatusFits ==
  /\ status \notin Undecided => \A c \in Commands : reply[c] # None => Over(c)
  /\ status = "EXECUTING" =>
       \E m \in events \ processed : /\ m.type = "FULL_REFUND"
                                     /\ m.index = last[m.command] + 1

\* No later command has a reply.
Latest(c) == \A d \in Commands : d > c => reply[d] = None

ThreadFits ==
  /\ \A w \in Workers :
       worker[w] = "publish" /\ outcome[w] \in Kinds => thread = outcome[w]
  /\ \A m \in Published :
       m.type \in Kinds /\ Latest(m.command) => thread = m.type
  /\ \A k \in Kinds : status = Awaiting[k] => thread = k

Untroubled ==
  /\ terminated = {}
  /\ \A b \in Bridges : bridge[b] # "idle" =>
       bridge[b] # "reject" /\ held[b] \in Published
  /\ \A w \in Workers : worker[w] \notin {"abandon", "stopped"} /\ ~lost[w]

CleanInv ==
  /\ Untroubled
  /\ RunsOnce
  /\ Numbered
  /\ InTurn
  /\ StatusFits
  /\ ThreadFits

IInv ==
  /\ Typed
  /\ WorkerKnows
  /\ BridgeKnows
  /\ TerminatedCloses
  /\ DoneOnce
  /\ ProjectedInOrder
  /\ faults = 0 => CleanInv

-----------------------------------------------------------------------------
(* The types. *)

LEMMA StatusesAre ==
  /\ \A k \in Kinds : Awaiting[k] \in Statuses /\ Awaiting[k] \notin Closed
  /\ \A k \in Kinds : Awaiting[k] \notin Undecided
  /\ {"OBSERVING", "EXECUTING", "RESOLVED", "ESCALATED"} \subseteq Statuses
  /\ "NODE_OBSERVED" \notin Kinds /\ "FULL_REFUND" \notin Kinds
  /\ "RESOLVED" \notin Kinds /\ "ESCALATED" \notin Kinds /\ "RUN_FAILED" \notin Kinds
  /\ \A j, k \in Kinds : Awaiting[j] = Awaiting[k] => j = k
  BY PipelineAssumption DEF InterruptKinds, Awaiting, Statuses, Closed, Undecided

LEMMA PublishTyped ==
  ASSUME Typed, NEW w \in Workers, entry[w] \in Commands \X Nat, NEW type \in Types,
         Publish(w, type)
  PROVE  events' \in SUBSET Event
<1>1. entry[w][1] \in Commands /\ index[w] + 1 \in Nat \ {0} /\ run[w] \in Nat
  BY DEF Typed
<1> QED
  BY <1>1 DEF Publish, Typed, Event

LEMMA TypedKept == ASSUME IInv, [Next]_vars PROVE Typed'
<1>0. Typed /\ WorkerKnows /\ BridgeKnows
  BY DEF IInv
<1> USE DEF caseVars, outboxVars, journalVars, workerVars, projection, bridgeVars
<1>1. ASSUME NEW c \in Commands, NEW k \in Kinds, Reply(c, k) PROVE Typed'
  BY <1>0, <1>1, StatusesAre DEF Reply, Typed
<1>2. ASSUME NEW c \in Commands, Send(c) PROVE Typed'
  BY <1>0, <1>2 DEF Send, Typed
<1>3. ASSUME NEW c \in Commands, MarkPublished(c) PROVE Typed'
  BY <1>0, <1>3 DEF MarkPublished, Typed
<1>4. ASSUME NEW w \in Workers, NEW e \in commands, Claim(w, e) PROVE Typed'
  <2>1. e \in Commands \X Nat /\ e[1] \in Commands
    BY <1>0 DEF Typed
  <2> QED
    BY <1>0, <1>4, <2>1 DEF Claim, Typed, Stages
<1>5. ASSUME NEW w \in Workers, NEW e \in commands, AckTerminal(w, e) PROVE Typed'
  BY <1>0, <1>5 DEF AckTerminal, Typed
<1>6. ASSUME NEW w \in Workers, Invoke(w) PROVE Typed'
  BY <1>0, <1>6 DEF Invoke, Typed, Stages
<1>7. ASSUME NEW w \in Workers, Observe(w) PROVE Typed'
  <2>1. entry[w] \in Commands \X Nat
    BY <1>0, <1>7 DEF Observe, WorkerKnows
  <2>2. events' \in SUBSET Event
    BY <1>0, <1>7, <2>1, PublishTyped DEF Observe, Types, Typed
  <2>3. index' \in [Workers -> Nat] /\ faults' \in Nat
    BY <1>0, <1>7 DEF Observe, Typed
  <2>4. lost' \in [Workers -> BOOLEAN]
    BY <1>0, <1>7 DEF Observe, Typed
  <2> QED
    BY <1>0, <1>7, <2>2, <2>3, <2>4 DEF Observe, Typed
<1>8. ASSUME NEW w \in Workers, Checkpoint(w) PROVE Typed'
  BY <1>0, <1>8 DEF Checkpoint, Typed
<1>9. ASSUME NEW w \in Workers, EndRun(w) PROVE Typed'
  BY <1>0, <1>9 DEF EndRun, Typed, Stages
<1>10. ASSUME NEW w \in Workers, PublishEnding(w) PROVE Typed'
  <2>1. entry[w] \in Commands \X Nat /\ outcome[w] \in Types
    BY <1>0, <1>10 DEF PublishEnding, WorkerKnows, Types
  <2>2. events' \in SUBSET Event
    BY <1>0, <1>10, <2>1, PublishTyped DEF PublishEnding, Typed
  <2> QED
    BY <1>0, <1>10, <2>2 DEF PublishEnding, Typed, Stages
<1>11. ASSUME NEW w \in Workers, Finish(w) PROVE Typed'
  BY <1>0, <1>11 DEF Finish, Typed, Stages
<1>12. ASSUME NEW w \in Workers, Acknowledge(w) PROVE Typed'
  BY <1>0, <1>12 DEF Acknowledge, Forget, Typed, Stages
<1>13. ASSUME NEW w \in Workers, Abandon(w) PROVE Typed'
  BY <1>0, <1>13 DEF Abandon, Forget, Typed, Stages
<1>14. ASSUME NEW w \in Workers, Crash(w) PROVE Typed'
  BY <1>0, <1>14 DEF Crash, Forget, Typed, Stages
<1>15. ASSUME NEW w \in Workers, Restart(w) PROVE Typed'
  BY <1>0, <1>15 DEF Restart, Typed, Stages
<1>16. ASSUME NEW b \in Bridges, NEW m \in events, Replay(b, m) PROVE Typed'
  BY <1>0, <1>16 DEF Replay, AckEvent, Typed
<1>17. ASSUME NEW b \in Bridges, NEW m \in events, Project(b, m) PROVE Typed'
  <2>1. /\ m \in Event /\ m.command \in Commands /\ m.index \in Nat
        /\ events' \in SUBSET Event
    BY <1>0, <1>17 DEF Typed, Event, Project, AckEvent
  <2>2. processed' \in SUBSET Event /\ last' \in [Commands -> Nat]
    BY <1>0, <1>17, <2>1 DEF Project, RecordProcessed, Typed
  <2>3. status' \in Statuses
    BY <1>0, <1>17, StatusesAre DEF Project, Apply, Close, Typed
  <2> QED
    BY <1>0, <1>17, <2>1, <2>2, <2>3 DEF Project, RecordProcessed, Typed
<1>18. ASSUME NEW b \in Bridges, NEW m \in events, BeginRefund(b, m) PROVE Typed'
  BY <1>0, <1>18, StatusesAre DEF BeginRefund, Take, Typed
<1>19. ASSUME NEW b \in Bridges, Refund(b) PROVE Typed'
  BY <1>0, <1>19 DEF Refund, Typed
<1>20. ASSUME NEW b \in Bridges, CompleteRefund(b) PROVE Typed'
  <2> DEFINE m == held[b]
  <2>1. /\ m \in Event /\ m.command \in Commands /\ m.index \in Nat
        /\ events' \in SUBSET Event
    BY <1>0, <1>20 DEF Typed, Event, CompleteRefund, AckEvent, BridgeKnows
  <2>2. processed' \in SUBSET Event /\ last' \in [Commands -> Nat]
        /\ UNCHANGED terminated
    BY <1>0, <1>20, <2>1 DEF CompleteRefund, RecordProcessed, Typed
  <2>3. status' \in Statuses
    BY <1>0, <1>20, StatusesAre DEF CompleteRefund, Close, RefundEnd, Typed
  <2>4. bridge' \in [Bridges -> {"idle", "refund", "complete", "reject"}]
        /\ held' \in [Bridges -> Event \cup {None}]
    BY <1>0, <1>20 DEF CompleteRefund, Release, Take, Typed
  <2> QED
    BY <1>0, <1>20, <2>1, <2>2, <2>3, <2>4 DEF CompleteRefund, Typed
<1>21. ASSUME NEW b \in Bridges, NEW m \in events, Refuse(b, m) PROVE Typed'
  BY <1>0, <1>21 DEF Refuse, Take, Typed
<1>22. ASSUME NEW b \in Bridges, Reject(b) PROVE Typed'
  <2> DEFINE m == held[b]
  <2>1. /\ m \in Event /\ m.command \in Commands /\ events' \in SUBSET Event
    BY <1>0, <1>22 DEF Typed, Event, Reject, AckEvent, BridgeKnows
  <2>2. status' \in Statuses
    BY <1>0, <1>22, StatusesAre DEF Reject, Escalate, Close, Typed
  <2> QED
    BY <1>0, <1>22, <2>1, <2>2 DEF Reject, Release, Take, Typed
<1>23. ASSUME NEW b \in Bridges, Drop(b) PROVE Typed'
  BY <1>0, <1>23 DEF Drop, Release, Take, Typed
<1>24. CASE UNCHANGED vars
  BY <1>0, <1>24 DEF vars, Typed
<1> QED
  BY <1>1, <1>2, <1>3, <1>4, <1>5, <1>6, <1>7, <1>8, <1>9, <1>10, <1>11, <1>12,
     <1>13, <1>14, <1>15, <1>16, <1>17, <1>18, <1>19, <1>20, <1>21, <1>22, <1>23,
     <1>24 DEF Next

-----------------------------------------------------------------------------
(* Whatever crashes. *)

\* Steps of the API and of a bridge; all others are steps of a worker.
ApiStep ==
  \E c \in Commands : (\E k \in Kinds : Reply(c, k)) \/ Send(c) \/ MarkPublished(c)
BridgeStep(b) ==
  \/ \E m \in events : \/ Replay(b, m) \/ Project(b, m)
                       \/ BeginRefund(b, m) \/ Refuse(b, m)
  \/ Refund(b) \/ CompleteRefund(b) \/ Reject(b) \/ Drop(b)
WorkerStep(w) ==
  \/ \E e \in commands : Claim(w, e) \/ AckTerminal(w, e)
  \/ Invoke(w) \/ Observe(w) \/ Checkpoint(w) \/ EndRun(w) \/ PublishEnding(w)
  \/ Finish(w) \/ Acknowledge(w) \/ Abandon(w) \/ Crash(w) \/ Restart(w)

LEMMA Steps ==
  ASSUME [Next]_vars
  PROVE  \/ ApiStep
         \/ \E w \in Workers : WorkerStep(w)
         \/ \E b \in Bridges : BridgeStep(b)
         \/ UNCHANGED vars
  BY DEF Next, ApiStep, WorkerStep, BridgeStep

LEMMA NoWorkerMoves ==
  ASSUME ApiStep \/ (\E b \in Bridges : BridgeStep(b)) \/ UNCHANGED vars
  PROVE  UNCHANGED <<journalVars, workerVars, thread, faults>>
  BY DEF ApiStep, BridgeStep, Reply, Send, MarkPublished, Replay, Project,
         BeginRefund, Refuse, Refund, CompleteRefund, Reject, Drop, vars,
         journalVars, workerVars

LEMMA NoBridgeMoves ==
  ASSUME ApiStep \/ (\E w \in Workers : WorkerStep(w)) \/ UNCHANGED vars
  PROVE  UNCHANGED <<done, projection, bridgeVars, refund>>
  BY DEF ApiStep, WorkerStep, Reply, Send, MarkPublished, Claim, AckTerminal, Invoke,
         Observe, Checkpoint, EndRun, PublishEnding, Finish, Acknowledge, Abandon,
         Crash, Restart, vars, caseVars, projection, bridgeVars

\* How the case and its projection change.
LEMMA CaseMoves ==
  ASSUME [Next]_vars
  PROVE  \/ UNCHANGED <<status, done, projection>>
         \/ \E c \in Commands, k \in Kinds : Reply(c, k)
         \/ \E b \in Bridges, m \in events : Project(b, m) \/ BeginRefund(b, m)
         \/ \E b \in Bridges : CompleteRefund(b) \/ Reject(b)
<1>1. ASSUME NEW b \in Bridges, BridgeStep(b)
      PROVE  \/ UNCHANGED <<status, done, projection>>
             \/ \E m \in events : Project(b, m) \/ BeginRefund(b, m)
             \/ CompleteRefund(b) \/ Reject(b)
  BY <1>1 DEF BridgeStep, Replay, Refuse, Refund, Drop, caseVars
<1>2. ASSUME NEW w \in Workers, WorkerStep(w)
      PROVE  UNCHANGED <<status, done, projection>>
  BY <1>2 DEF WorkerStep, Claim, AckTerminal, Invoke, Observe, Checkpoint, EndRun,
     PublishEnding, Finish, Acknowledge, Abandon, Crash, Restart, caseVars
<1>3. CASE ApiStep
  BY <1>3 DEF ApiStep, Send, MarkPublished, caseVars
<1>4. CASE UNCHANGED vars
  BY <1>4 DEF vars, projection
<1> QED
  BY <1>1, <1>2, <1>3, <1>4, Steps

\* A bridge that is to complete a refund or to reject an event holds one.
LEMMA BridgesKept == ASSUME IInv, [Next]_vars PROVE BridgeKnows'
<1>0. Typed /\ BridgeKnows
  BY DEF IInv
<1>1. ASSUME NEW b \in Bridges, BridgeStep(b) PROVE BridgeKnows'
  <2>1. ASSUME NEW m \in events, Replay(b, m) \/ Project(b, m) PROVE BridgeKnows'
    BY <1>0, <2>1 DEF Replay, Project, bridgeVars, BridgeKnows
  <2>2. ASSUME NEW m \in events, BeginRefund(b, m) PROVE BridgeKnows'
    BY <1>0, <2>2 DEF BeginRefund, Take, Typed, BridgeKnows
  <2>3. ASSUME NEW m \in events, Refuse(b, m) PROVE BridgeKnows'
    BY <1>0, <2>3 DEF Refuse, Take, Typed, BridgeKnows
  <2>4. CASE Refund(b)
    BY <1>0, <2>4 DEF Refund, Typed, BridgeKnows
  <2>5. CASE CompleteRefund(b) \/ Reject(b) \/ Drop(b)
    <3>1. bridge' = [bridge EXCEPT ![b] = "idle"] /\ held' = [held EXCEPT ![b] = None]
      BY <2>5 DEF CompleteRefund, Reject, Drop, Release, Take
    <3> QED
      BY <1>0, <3>1 DEF Typed, BridgeKnows
  <2> QED
    BY <1>1, <2>1, <2>2, <2>3, <2>4, <2>5 DEF BridgeStep
<1>2. CASE UNCHANGED bridgeVars
  BY <1>0, <1>2 DEF bridgeVars, BridgeKnows
<1> QED
  BY <1>1, <1>2, Steps, NoBridgeMoves

\* No move leads out of a closed status.
LEMMA ClosedDoesNotMove ==
  ASSUME NEW from \in Closed, NEW to PROVE ~CanMove(from, to)
  BY DEF Closed, CanMove, AllowedTransitions

\* An event that is applied finds the case open.
LEMMA AppliesToOpen ==
  ASSUME NEW b \in Bridges, NEW m \in events, Project(b, m), m.type # "NODE_OBSERVED"
  PROVE  status \notin Closed
  BY ClosedDoesNotMove DEF Project, Ready, Applies, Closed

LEMMA TerminatedKept == ASSUME IInv, [Next]_vars PROVE TerminatedCloses'
<1>0. TerminatedCloses
  BY DEF IInv
<1>1. CASE UNCHANGED <<status, done, projection>>
  BY <1>0, <1>1 DEF projection, TerminatedCloses
<1>2. ASSUME NEW c \in Commands, NEW k \in Kinds, Reply(c, k)
      PROVE  TerminatedCloses'
  BY <1>0, <1>2, StatusesAre DEF Reply, projection, TerminatedCloses
<1>3. ASSUME NEW b \in Bridges, NEW m \in events, Project(b, m)
      PROVE  TerminatedCloses'
  <2>1. CASE m.type = "NODE_OBSERVED"
    BY <1>0, <1>3, <2>1, StatusesAre
    DEF Project, Apply, RecordProcessed, caseVars, TerminatedCloses
  <2>2. CASE m.type # "NODE_OBSERVED"
    BY <1>0, <1>3, <2>2, AppliesToOpen DEF Project, RecordProcessed, TerminatedCloses
  <2> QED
    BY <2>1, <2>2
<1>4. ASSUME NEW b \in Bridges, NEW m \in events, BeginRefund(b, m)
      PROVE  TerminatedCloses'
  <2>1. status \notin Closed
    BY <1>4, StatusesAre DEF BeginRefund, Ready, Applies, Closed
  <2> QED
    BY <1>0, <1>4, <2>1 DEF BeginRefund, projection, TerminatedCloses
<1>5. ASSUME NEW b \in Bridges, CompleteRefund(b) PROVE TerminatedCloses'
  BY <1>0, <1>5 DEF CompleteRefund, RecordProcessed, Close, RefundEnd, caseVars,
     projection, Closed, TerminatedCloses
<1>6. ASSUME NEW b \in Bridges, Reject(b) PROVE TerminatedCloses'
  BY <1>6 DEF Reject, Escalate, Close, caseVars, Closed, TerminatedCloses
<1> QED
  BY <1>1, <1>2, <1>3, <1>4, <1>5, <1>6, CaseMoves

\* Closing a case that is open.
LEMMA CloseEndsOnce ==
  ASSUME DoneOnce, status \notin Closed, NEW final \in Closed, NEW cause,
         Close(final, cause)
  PROVE  DoneOnce'
  BY DEF DoneOnce, Close

LEMMA DoneKept == ASSUME IInv, [Next]_vars PROVE DoneOnce'
<1>0. DoneOnce
  BY DEF IInv
<1>1. CASE UNCHANGED <<status, done, projection>>
  BY <1>0, <1>1 DEF DoneOnce
<1>2. ASSUME NEW c \in Commands, NEW k \in Kinds, Reply(c, k) PROVE DoneOnce'
  BY <1>0, <1>2, StatusesAre DEF Reply, DoneOnce, Closed
<1>3. ASSUME NEW b \in Bridges, NEW m \in events, Project(b, m) PROVE DoneOnce'
  <2>1. CASE m.type = "NODE_OBSERVED"
    BY <1>0, <1>3, <2>1, StatusesAre DEF Project, Apply, caseVars, DoneOnce
  <2>2. CASE m.type \in Kinds
    BY <1>0, <1>3, <2>2, AppliesToOpen, StatusesAre DEF Project, Apply, DoneOnce
  <2>3. CASE m.type \in {"RESOLVED", "ESCALATED", "RUN_FAILED"}
    BY <1>0, <1>3, <2>3, AppliesToOpen, CloseEndsOnce, StatusesAre
    DEF Project, Apply, Closed
  <2> QED
    BY <1>3, <2>1, <2>2, <2>3 DEF Project, Apply
<1>4. ASSUME NEW b \in Bridges, NEW m \in events, BeginRefund(b, m) PROVE DoneOnce'
  <2>1. status \notin Closed
    BY <1>4, StatusesAre DEF BeginRefund, Ready, Applies, Closed
  <2> QED
    BY <1>0, <1>4, <2>1 DEF BeginRefund, DoneOnce, Closed
<1>5. ASSUME NEW b \in Bridges, CompleteRefund(b) PROVE DoneOnce'
  <2>1. RefundEnd \in Closed
    BY DEF RefundEnd, Closed
  <2> QED
    BY <1>0, <1>5, <2>1, ClosedDoesNotMove, CloseEndsOnce
    DEF CompleteRefund, caseVars, DoneOnce
<1>6. ASSUME NEW b \in Bridges, Reject(b) PROVE DoneOnce'
  BY <1>0, <1>6, CloseEndsOnce DEF Reject, Escalate, caseVars, DoneOnce, Closed
<1> QED
  BY <1>1, <1>2, <1>3, <1>4, <1>5, <1>6, CaseMoves

\* The next event of a command is recorded.
LEMMA RecordKeepsOrder ==
  ASSUME Typed, ProjectedInOrder, NEW m \in Event, m.index = last[m.command] + 1,
         RecordProcessed(m)
  PROVE  ProjectedInOrder'
<1>1. /\ m.command \in Commands /\ last[m.command] \in Nat
      /\ processed' = processed \cup {m}
      /\ last' = [last EXCEPT ![m.command] = m.index]
  BY DEF Event, Typed, RecordProcessed
<1> SUFFICES ASSUME NEW c \in Commands
             PROVE  LET seen == {n \in processed' : n.command = c} IN
                    /\ {n.index : n \in seen} = 1..last'[c]
                    /\ \A k, n \in seen : k.index = n.index => k = n
  BY DEF ProjectedInOrder
<1> DEFINE was == {n \in processed : n.command = c}
           seen == {n \in processed' : n.command = c}
<1>2. /\ {n.index : n \in was} = 1..last[c]
      /\ \A k, n \in was : k.index = n.index => k = n
  BY DEF ProjectedInOrder
<1>3. CASE c # m.command
  <2>1. seen = was /\ last'[c] = last[c]
    BY <1>1, <1>3 DEF Typed
  <2> QED
    BY <1>2, <2>1
<1>4. CASE c = m.command
  <2>1. seen = was \cup {m} /\ last'[c] = last[c] + 1 /\ m.index = last[c] + 1
    BY <1>1, <1>4 DEF Typed
  <2>2. {n.index : n \in seen} = {n.index : n \in was} \cup {last[c] + 1}
    BY <2>1
  <2>3. 1..(last[c] + 1) = (1..last[c]) \cup {last[c] + 1}
    BY <1>1, <1>4
  <2>4. \A n \in was : n.index # m.index
    BY <1>1, <1>2, <1>4, <2>1
  <2> QED
    BY <1>2, <2>1, <2>2, <2>3, <2>4
<1> QED
  BY <1>3, <1>4

LEMMA OrderKept == ASSUME IInv, [Next]_vars PROVE ProjectedInOrder'
<1>0. Typed /\ ProjectedInOrder /\ BridgeKnows
  BY DEF IInv
<1>1. CASE UNCHANGED projection
  BY <1>0, <1>1 DEF projection, ProjectedInOrder
<1>2. ASSUME NEW b \in Bridges, NEW m \in events, Project(b, m)
      PROVE  ProjectedInOrder'
  <2>1. m \in Event /\ m.index \in Nat /\ last[m.command] \in Nat
    BY <1>0 DEF Typed, Event
  <2>2. m.index = last[m.command] + 1
    BY <1>2, <2>1 DEF Project, Ready, Early, Late
  <2> QED
    BY <1>0, <1>2, <2>1, <2>2, RecordKeepsOrder DEF Project
<1>3. ASSUME NEW b \in Bridges, CompleteRefund(b) PROVE ProjectedInOrder'
  <2>1. held[b] \in Event
    BY <1>0, <1>3 DEF CompleteRefund, BridgeKnows
  <2> QED
    BY <1>0, <1>1, <1>3, <2>1, RecordKeepsOrder DEF CompleteRefund
<1>4. ASSUME NEW b \in Bridges, Reject(b) PROVE ProjectedInOrder'
  BY <1>0, <1>4 DEF Reject, ProjectedInOrder
<1> QED
  BY <1>1, <1>2, <1>3, <1>4, CaseMoves DEF Reply, BeginRefund

\* A worker that executes a command owns its row.
LEMMA WorkersKept == ASSUME IInv, [Next]_vars PROVE WorkerKnows'
<1>0. Typed /\ WorkerKnows
  BY DEF IInv
<1> USE DEF journalVars
<1>1. ASSUME NEW w \in Workers, NEW e \in commands, Claim(w, e) PROVE WorkerKnows'
  <2>1. e \in Commands \X Nat /\ e[1] \in Commands
    BY <1>0 DEF Typed
  <2>2. \A v \in Workers \ {w} :
          worker[v] \in {"invoke", "run", "publish", "finish"} => entry[v][1] # e[1]
    BY <1>0, <1>1, <2>1, NoneAssumption
    DEF Claim, Claimable, LeaseOver, Executing, Holds, WorkerKnows
  <2>3. /\ journal' = [journal EXCEPT ![e[1]] = "RUNNING"]
        /\ owner' = [owner EXCEPT ![e[1]] = w]
        /\ worker' = [worker EXCEPT ![w] = "invoke"]
        /\ entry' = [entry EXCEPT ![w] = e]
        /\ UNCHANGED outcome
    BY <1>1 DEF Claim
  <2> QED
    BY <1>0, <2>1, <2>2, <2>3 DEF Typed, WorkerKnows
<1>2. ASSUME NEW w \in Workers,
             \/ \E e \in commands : AckTerminal(w, e)
             \/ Observe(w) \/ Checkpoint(w)
      PROVE  WorkerKnows'
  <2>1. UNCHANGED <<journal, owner, worker, entry, outcome>>
    BY <1>2 DEF AckTerminal, Observe, Checkpoint, workerVars
  <2> QED
    BY <1>0, <2>1 DEF WorkerKnows
<1>3. ASSUME NEW w \in Workers, Invoke(w) PROVE WorkerKnows'
  BY <1>0, <1>3 DEF Invoke, Typed, WorkerKnows
<1>4. ASSUME NEW w \in Workers, EndRun(w) PROVE WorkerKnows'
  BY <1>0, <1>4 DEF EndRun, Typed, WorkerKnows
<1>5. ASSUME NEW w \in Workers, PublishEnding(w) PROVE WorkerKnows'
  BY <1>0, <1>5 DEF PublishEnding, Typed, WorkerKnows
<1>6. ASSUME NEW w \in Workers, Finish(w) PROVE WorkerKnows'
  <2>1. CASE UNCHANGED <<journal, owner>>
    BY <1>0, <1>6, <2>1 DEF Finish, Typed, WorkerKnows
  <2>2. CASE Owned(w, entry[w][1])
    <3>1. /\ worker' = [worker EXCEPT ![w] = "ack"]
          /\ UNCHANGED <<entry, outcome>>
          /\ entry[w] \in Commands \X Nat
      BY <1>0, <1>6, <2>2 DEF Finish, WorkerKnows
    <3>2. \A v \in Workers \ {w} :
            worker[v] \in {"invoke", "run", "publish", "finish"} =>
              entry[v][1] # entry[w][1]
      BY <1>0, <2>2 DEF Owned, WorkerKnows
    <3>3. \A c \in Commands \ {entry[w][1]} :
            journal'[c] = journal[c] /\ owner'[c] = owner[c]
      BY <1>0, <1>6 DEF Finish, Typed
    <3> QED
      BY <1>0, <3>1, <3>2, <3>3 DEF Typed, WorkerKnows
  <2> QED
    BY <1>6, <2>1, <2>2 DEF Finish
<1>7. ASSUME NEW w \in Workers, Acknowledge(w) \/ Crash(w) \/ Restart(w)
      PROVE  WorkerKnows'
  <2>1. /\ worker'[w] \in {"idle", "stopped"} /\ UNCHANGED <<journal, owner>>
        /\ \A v \in Workers \ {w} : /\ worker'[v] = worker[v] /\ entry'[v] = entry[v]
                                    /\ outcome'[v] = outcome[v]
    BY <1>0, <1>7 DEF Acknowledge, Crash, Restart, Forget, Typed
  <2> QED
    BY <1>0, <2>1 DEF WorkerKnows
<1>8. ASSUME NEW w \in Workers, Abandon(w) PROVE WorkerKnows'
  <2>1. /\ worker'[w] = "stopped" /\ entry[w] \in Commands \X Nat
        /\ \A v \in Workers \ {w} : /\ worker'[v] = worker[v] /\ entry'[v] = entry[v]
                                    /\ outcome'[v] = outcome[v]
    BY <1>0, <1>8 DEF Abandon, Forget, Typed, WorkerKnows
  <2>2. CASE UNCHANGED <<journal, owner>>
    BY <1>0, <2>1, <2>2 DEF WorkerKnows
  <2>3. CASE Owned(w, entry[w][1])
    <3>1. \A v \in Workers \ {w} :
            worker[v] \in {"invoke", "run", "publish", "finish"} =>
              entry[v][1] # entry[w][1]
      BY <1>0, <2>3 DEF Owned, WorkerKnows
    <3>2. \A c \in Commands \ {entry[w][1]} :
            journal'[c] = journal[c] /\ owner'[c] = owner[c]
      BY <1>0, <1>8 DEF Abandon, Typed
    <3> QED
      BY <1>0, <2>1, <3>1, <3>2 DEF Typed, WorkerKnows
  <2> QED
    BY <1>8, <2>2, <2>3 DEF Abandon
<1>9. CASE UNCHANGED <<journalVars, workerVars, thread, faults>>
  BY <1>0, <1>9 DEF workerVars, WorkerKnows
<1> QED
  BY <1>1, <1>2, <1>3, <1>4, <1>5, <1>6, <1>7, <1>8, <1>9, Steps, NoWorkerMoves
  DEF WorkerStep

-----------------------------------------------------------------------------
(* What is known as long as nothing failed. *)

\* An event belongs to a command that has a reply, and is for ever one of its
\* kind; a command that is over has no event that is not projected.
LEMMA EventHasReply ==
  ASSUME IInv, CleanInv, NEW m \in Published
  PROVE  /\ m \in Event /\ m.command \in Commands /\ m.index \in Nat \ {0}
         /\ m.type \in Types /\ reply[m.command] # None
<1>1. m \in Event
  BY DEF Published, IInv, Typed
<1>2. m.command \in Commands /\ m.index \in Nat \ {0} /\ m.type \in Types
  BY <1>1 DEF Event
<1> QED
  BY <1>1, <1>2 DEF CleanInv, RunsOnce, InTurn

LEMMA OverIsProjected ==
  ASSUME IInv, CleanInv, NEW m \in Published, Over(m.command)
  PROVE  m \in processed
<1>1. PICK t \in processed : t.command = m.command /\ t.type # "NODE_OBSERVED"
  BY DEF Over
<1>2. m.index <= t.index
  BY <1>1 DEF CleanInv, Numbered, Published
<1>3. m.command \in Commands /\ m.index \in Nat \ {0}
  BY EventHasReply
<1>4. {n.index : n \in {k \in processed : k.command = m.command}} = 1..last[m.command]
  BY <1>3 DEF IInv, ProjectedInOrder
<1>5. t.index \in 1..last[m.command] /\ last[m.command] \in Nat
  BY <1>1, <1>3, <1>4 DEF IInv, Typed
<1>6. m.index \in 1..last[m.command]
  BY <1>2, <1>3, <1>5
<1>7. PICK n \in processed : n.command = m.command /\ n.index = m.index
  BY <1>4, <1>6
<1> QED
  BY <1>7 DEF CleanInv, Numbered, Published, SameId

\* A command that is not over is the latest one, and the case is undecided.
LEMMA UnfinishedIsLatest ==
  ASSUME IInv, CleanInv, NEW c \in Commands, reply[c] # None, ~Over(c)
  PROVE  Latest(c) /\ status \in Undecided
  BY DEF CleanInv, InTurn, StatusFits, Latest

LEMMA PendingIsLatest ==
  ASSUME IInv, CleanInv, NEW m \in Published \ processed
  PROVE  /\ m.command \in Commands /\ reply[m.command] # None
         /\ ~Over(m.command) /\ Latest(m.command) /\ status \in Undecided
  BY EventHasReply, OverIsProjected, UnfinishedIsLatest

LEMMA OneLatest ==
  ASSUME NEW c \in Commands, NEW d \in Commands, reply[c] # None, reply[d] # None,
         Latest(c), Latest(d)
  PROVE  c = d
<1>1. c \in Nat /\ d \in Nat
  BY PipelineAssumption DEF Commands
<1> QED
  BY <1>1 DEF Latest

\* There is one next event.
LEMMA NextIsUnique ==
  ASSUME IInv, CleanInv,
         NEW m \in Published \ processed, NEW n \in Published \ processed,
         m.index = last[m.command] + 1, n.index = last[n.command] + 1
  PROVE  m = n
<1>1. m.command = n.command
  BY PendingIsLatest, OneLatest
<1> QED
  BY <1>1 DEF CleanInv, Numbered, SameId, Published

\* An event that is not projected and not early is the next one, ...
LEMMA NotEarlyIsNext ==
  ASSUME IInv, CleanInv, NEW m \in Published \ processed, ~Early(m)
  PROVE  m.index = last[m.command] + 1
<1>1. m.command \in Commands /\ m.index \in Nat \ {0} /\ last[m.command] \in Nat
  BY EventHasReply DEF IInv, Typed
<1>2. m.index \notin 1..last[m.command]
  <2> SUFFICES ASSUME m.index \in 1..last[m.command] PROVE FALSE
    OBVIOUS
  <2>1. PICK n \in processed : n.command = m.command /\ n.index = m.index
    BY <1>1 DEF IInv, ProjectedInOrder
  <2> QED
    BY <2>1 DEF CleanInv, Numbered, Published, SameId
<1> QED
  BY <1>1, <1>2 DEF Early

\* ... and asks for a move the case can make.
LEMMA NextApplies ==
  ASSUME IInv, CleanInv, NEW m \in events \ processed, ~Early(m)
  PROVE  Applies(m)
<1>1. m \in Published \ processed /\ m.type \in Types
  BY EventHasReply DEF Published
<1>2. m.index = last[m.command] + 1 /\ status \in Undecided
  BY <1>1, NotEarlyIsNext, PendingIsLatest
<1>3. CASE status = "EXECUTING"
  <2>1. PICK n \in events \ processed : /\ n.type = "FULL_REFUND"
                                        /\ n.index = last[n.command] + 1
    BY <1>3 DEF CleanInv, StatusFits
  <2>2. m = n
    BY <1>1, <1>2, <2>1, NextIsUnique DEF Published
  <2> QED
    BY <1>3, <2>1, <2>2, StatusesAre DEF Applies
<1>4. CASE status = "OBSERVING"
  <2>1. \A k \in Kinds : CanMove("OBSERVING", Awaiting[k])
    BY PipelineAssumption DEF CanMove, AllowedTransitions
  <2>2. CanMove("OBSERVING", "EXECUTING") /\ CanMove("OBSERVING", "ESCALATED")
    BY DEF CanMove, AllowedTransitions
  <2> QED
    BY <1>4, <2>1, <2>2 DEF Applies
<1> QED
  BY <1>2, <1>3, <1>4 DEF Undecided

LEMMA NothingInvalid ==
  ASSUME IInv, CleanInv, NEW m \in events
  PROVE  ~Invalid(m)
<1> SUFFICES ASSUME m \notin processed PROVE ~Invalid(m)
  BY DEF Invalid, Known
<1>1. ~Collides(m)
  BY DEF Collides, CleanInv, Numbered, Published
<1>2. ~Terminated(m)
  BY DEF Terminated, CleanInv, Untroubled
<1>3. ASSUME ~Early(m) PROVE ~Late(m) /\ Applies(m)
  <2>1. m.index = last[m.command] + 1 /\ last[m.command] \in Nat
    BY <1>3, NotEarlyIsNext, EventHasReply DEF Published, IInv, Typed
  <2> QED
    BY <1>3, <2>1, NextApplies DEF Late
<1> QED
  BY <1>1, <1>2, <1>3 DEF Invalid

\* A worker that has not published the end of a run works for the latest
\* command, which is not over, and is the only one.
AtWork(w) == worker[w] \in {"invoke", "run", "publish"}

LEMMA AtWorkIsLatest ==
  ASSUME IInv, CleanInv, NEW w \in Workers, AtWork(w)
  PROVE  /\ entry[w][1] \in Commands /\ Executing(w, entry[w][1])
         /\ reply[entry[w][1]] # None /\ ~Over(entry[w][1])
         /\ Latest(entry[w][1]) /\ status \in Undecided
<1> DEFINE c == entry[w][1]
<1>1. entry[w] \in Commands \X Nat /\ journal[c] = "RUNNING" /\ worker[w] # "finish"
  BY DEF AtWork, IInv, WorkerKnows
<1>2. c \in Commands /\ Executing(w, c)
  BY <1>1, NoneAssumption DEF Executing, Holds, AtWork
<1>3. reply[c] # None
  BY <1>1, <1>2 DEF CleanInv, InTurn
<1>4. ~Over(c)
  BY <1>1, <1>2 DEF Over, CleanInv, Numbered, Published
<1> QED
  BY <1>2, <1>3, <1>4, UnfinishedIsLatest

LEMMA OneExecutes ==
  ASSUME IInv, NEW w \in Workers, NEW v \in Workers, NEW c \in Commands,
         Executing(w, c), Executing(v, c)
  PROVE  w = v
  BY DEF IInv, WorkerKnows, Executing, Holds

LEMMA OneAtWork ==
  ASSUME IInv, CleanInv, NEW w \in Workers, NEW v \in Workers, AtWork(w), AtWork(v)
  PROVE  w = v
<1>1. entry[w][1] = entry[v][1]
  BY AtWorkIsLatest, OneLatest
<1> QED
  BY <1>1, AtWorkIsLatest, OneExecutes

\* The step from a state without a failure to one without a failure.
Quiet == IInv /\ CleanInv /\ [Next]_vars /\ faults = 0 /\ faults' = 0

LEMMA QuietStep ==
  ASSUME IInv, [Next]_vars, faults' = 0
  PROVE  Quiet
<1>1. faults \in Nat
  BY DEF IInv, Typed
<1>2. faults' = faults \/ faults' = faults + 1
  <2>1. ASSUME NEW w \in Workers, WorkerStep(w)
        PROVE  faults' = faults \/ faults' = faults + 1
    BY <2>1 DEF WorkerStep, Claim, AckTerminal, Invoke, Observe, Checkpoint, EndRun,
       PublishEnding, Finish, Acknowledge, Abandon, Crash, Restart
  <2> QED
    BY <2>1, Steps, NoWorkerMoves
<1>3. faults = 0
  BY <1>1, <1>2
<1> QED
  BY <1>3 DEF Quiet, IInv

\* What a worker may do in such a step.
LEMMA QuietWorker ==
  ASSUME Quiet, NEW w \in Workers, WorkerStep(w)
  PROVE  \/ \E e \in commands : /\ Claim(w, e)
                                /\ e \in Commands \X Nat /\ e[1] \in Commands
                                /\ journal[e[1]] = "ABSENT"
         \/ \E e \in commands : AckTerminal(w, e)
         \/ Invoke(w) \/ Checkpoint(w) \/ EndRun(w) \/ Acknowledge(w)
         \/ Observe(w) /\ Publish(w, "NODE_OBSERVED") /\ UNCHANGED lost
         \/ /\ PublishEnding(w) /\ Publish(w, outcome[w])
            /\ worker' = [worker EXCEPT ![w] = "finish"]
            /\ index' = [index EXCEPT ![w] = index[w] + 1]
         \/ Finish(w) /\ Owned(w, entry[w][1])
<1>0. Typed /\ WorkerKnows /\ RunsOnce /\ Untroubled /\ faults = 0 /\ faults' = 0
  BY DEF Quiet, IInv, CleanInv
<1>1. ASSUME NEW e \in commands, Claim(w, e)
      PROVE  /\ e \in Commands \X Nat /\ e[1] \in Commands
             /\ journal[e[1]] = "ABSENT"
  <2>1. e \in Commands \X Nat /\ e[1] \in Commands
    BY <1>0 DEF Typed
  <2> QED
    BY <1>0, <1>1, <2>1 DEF Claim, Claimable, LeaseOver, RunsOnce
<1>2. ~Abandon(w) /\ ~Restart(w)
  BY <1>0 DEF Abandon, Restart, Untroubled
<1>3. ~Crash(w)
  BY <1>0 DEF Crash
<1>4. ASSUME Observe(w) PROVE Publish(w, "NODE_OBSERVED") /\ UNCHANGED lost
  BY <1>0, <1>4 DEF Observe
<1>5. ASSUME PublishEnding(w)
      PROVE  /\ Publish(w, outcome[w])
             /\ worker' = [worker EXCEPT ![w] = "finish"]
             /\ index' = [index EXCEPT ![w] = index[w] + 1]
  BY <1>0, <1>5 DEF PublishEnding
<1>6. ASSUME Finish(w) PROVE Owned(w, entry[w][1])
  BY <1>0, <1>6 DEF Finish, WorkerKnows, Owned
<1> QED
  BY <1>1, <1>2, <1>3, <1>4, <1>5, <1>6 DEF WorkerStep

\* What a bridge may do in such a step.
LEMMA QuietBridge ==
  ASSUME Quiet, NEW b \in Bridges, BridgeStep(b)
  PROVE  \/ \E m \in events : Replay(b, m)
         \/ \E m \in events \ processed : /\ m.index = last[m.command] + 1
                                          /\ Project(b, m) \/ BeginRefund(b, m)
         \/ Refund(b) \/ CompleteRefund(b) \/ Drop(b)
<1>0. IInv /\ CleanInv /\ Untroubled
  BY DEF Quiet, CleanInv
<1>1. ASSUME NEW m \in events, Refuse(b, m) PROVE FALSE
  BY <1>0, <1>1, NothingInvalid DEF Refuse
<1>2. ~Reject(b)
  BY <1>0 DEF Reject, Untroubled
<1>3. ASSUME NEW m \in events, Project(b, m) \/ BeginRefund(b, m)
      PROVE  m \in events \ processed /\ m.index = last[m.command] + 1
  <2>1. m \notin processed /\ ~Early(m)
    BY <1>3 DEF Project, BeginRefund, Ready, Known
  <2> QED
    BY <1>0, <2>1, NotEarlyIsNext DEF Published
<1> QED
  BY <1>1, <1>2, <1>3 DEF BridgeStep

\* _complete_refund finds its event recorded, or is the one to record it.
LEMMA QuietRefund ==
  ASSUME Quiet, NEW b \in Bridges, CompleteRefund(b)
  PROVE  \/ /\ held[b] \in processed
            /\ AckEvent(held[b])
            /\ UNCHANGED <<caseVars, projection>>
         \/ /\ held[b] \in events \ processed
            /\ held[b].type = "FULL_REFUND"
            /\ status' \in {"RESOLVED", "ESCALATED"}
            /\ RecordProcessed(held[b])
            /\ AckEvent(held[b])
         \/ UNCHANGED <<caseVars, projection, events>>
<1> DEFINE m == held[b]
<1>1. m \in Published /\ m.type = "FULL_REFUND"
  BY DEF Quiet, CleanInv, Untroubled, IInv, BridgeKnows, CompleteRefund
<1>2. Collides(m) => m \in processed
  BY <1>1 DEF Collides, Quiet, CleanInv, Numbered, Published
<1>3. ~Collides(m) => m \in events \ processed
  BY <1>1 DEF Collides, SameId, Published
<1> QED
  BY <1>1, <1>2, <1>3 DEF CompleteRefund, Close, RefundEnd

LEMMA BridgePublishes ==
  ASSUME Quiet, NEW b \in Bridges, BridgeStep(b)
  PROVE  /\ Published' = Published /\ processed \subseteq processed'
         /\ UNCHANGED <<outboxVars, commands, terminated>>
<1>1. ASSUME NEW m \in events, Replay(b, m)
      PROVE  Published' = Published /\ processed \subseteq processed'
  BY <1>1 DEF Replay, Known, AckEvent, projection, Published
<1>2. ASSUME NEW m \in events, Project(b, m)
      PROVE  Published' = Published /\ processed \subseteq processed'
  BY <1>2 DEF Project, RecordProcessed, AckEvent, Published
<1>3. ASSUME CompleteRefund(b)
      PROVE  /\ Published' = Published /\ processed \subseteq processed'
             /\ UNCHANGED terminated
  <2>1. CASE held[b] \in processed /\ AckEvent(held[b]) /\ UNCHANGED projection
    BY <2>1 DEF AckEvent, projection, Published
  <2>2. CASE /\ held[b] \in events \ processed
             /\ RecordProcessed(held[b]) /\ AckEvent(held[b])
    BY <2>2 DEF AckEvent, RecordProcessed, Published
  <2>3. CASE UNCHANGED <<projection, events>>
    BY <2>3 DEF projection, Published
  <2> QED
    BY <1>3, <2>1, <2>2, <2>3, QuietRefund
<1>4. ASSUME \/ \E m \in events : BeginRefund(b, m)
             \/ Refund(b) \/ Drop(b)
      PROVE  Published' = Published /\ processed \subseteq processed'
  BY <1>4 DEF BeginRefund, Refund, Drop, projection, Published
<1>5. UNCHANGED terminated
  BY <1>3, QuietBridge
  DEF Replay, Project, RecordProcessed, BeginRefund, Refund, Drop, projection
<1>6. UNCHANGED <<outboxVars, commands>>
  BY QuietBridge
  DEF Replay, Project, BeginRefund, Refund, CompleteRefund, Drop
<1> QED
  BY <1>1, <1>2, <1>3, <1>4, <1>5, <1>6, QuietBridge

\* The event the worker publishes next.
NextEvent(w, type) ==
  [command |-> entry[w][1], index |-> index[w] + 1, run |-> run[w], type |-> type]

LEMMA WorkerPublishes ==
  ASSUME Quiet, NEW w \in Workers, WorkerStep(w)
  PROVE  \/ Published' = Published
         \/ /\ Observe(w) /\ worker[w] = "run"
            /\ Published' = Published \cup {NextEvent(w, "NODE_OBSERVED")}
         \/ /\ PublishEnding(w) /\ worker[w] = "publish"
            /\ worker' = [worker EXCEPT ![w] = "finish"]
            /\ Published' = Published \cup {NextEvent(w, outcome[w])}
<1>1. UNCHANGED processed
  BY NoBridgeMoves DEF projection
<1>2. CASE Observe(w) /\ Publish(w, "NODE_OBSERVED")
  BY <1>1, <1>2 DEF Observe, Publish, NextEvent, Published
<1>3. CASE /\ PublishEnding(w) /\ Publish(w, outcome[w])
           /\ worker' = [worker EXCEPT ![w] = "finish"]
  BY <1>1, <1>3 DEF PublishEnding, Publish, NextEvent, Published
<1>4. CASE \/ \E e \in commands : Claim(w, e) \/ AckTerminal(w, e)
           \/ Invoke(w) \/ Checkpoint(w) \/ EndRun(w) \/ Acknowledge(w) \/ Finish(w)
  BY <1>1, <1>4 DEF Claim, AckTerminal, Invoke, Checkpoint, EndRun, Acknowledge,
     Finish, Published
<1> QED
  BY <1>2, <1>3, <1>4, QuietWorker

\* Nothing that was published or projected is lost.
LEMMA NothingLost ==
  ASSUME Quiet
  PROVE  processed \subseteq processed' /\ Published \subseteq Published'
<1>1. CASE ApiStep
  BY <1>1 DEF ApiStep, Reply, Send, MarkPublished, projection, Published
<1>2. CASE UNCHANGED vars
  BY <1>2 DEF vars, Published
<1>3. ASSUME NEW w \in Workers, WorkerStep(w)
      PROVE  processed \subseteq processed' /\ Published \subseteq Published'
  BY <1>3, WorkerPublishes, NoBridgeMoves DEF projection
<1> QED
  BY <1>1, <1>2, <1>3, BridgePublishes, Steps DEF Quiet

LEMMA OverStays == ASSUME Quiet, NEW c, Over(c) PROVE Over(c)'
  BY NothingLost DEF Over

\* The outbox and the status are not a worker's.
LEMMA WorkerLeaves ==
  ASSUME NEW w \in Workers, WorkerStep(w)
  PROVE  UNCHANGED <<status, reply, marked, sent>>
  BY DEF WorkerStep, Claim, AckTerminal, Invoke, Observe, Checkpoint, EndRun,
     PublishEnding, Finish, Acknowledge, Abandon, Crash, Restart, caseVars, outboxVars

LEMMA RepliesStay ==
  ASSUME Quiet, NEW c \in Commands, reply[c] # None
  PROVE  reply'[c] = reply[c]
<1>1. ASSUME NEW d \in Commands, NEW k \in Kinds, Reply(d, k)
      PROVE  reply'[c] = reply[c]
  BY <1>1 DEF Reply, Quiet, IInv, Typed
<1>2. ASSUME NEW d \in Commands, Send(d) \/ MarkPublished(d)
      PROVE  reply'[c] = reply[c]
  BY <1>2 DEF Send, MarkPublished
<1>3. CASE ApiStep
  BY <1>1, <1>2, <1>3 DEF ApiStep
<1> QED
  BY <1>3, Steps, WorkerLeaves, BridgePublishes DEF Quiet, outboxVars, vars

-----------------------------------------------------------------------------
(* Without a failure CleanInv is kept, part by part. *)

\* No event is invalid, hence none is rejected, and no worker gives up.
LEMMA UntroubledKept == ASSUME Quiet PROVE Untroubled'
<1>0. IInv /\ Typed /\ Untroubled
  BY DEF Quiet, IInv, CleanInv
<1>1. terminated' = {}
  BY <1>0, Steps, NoBridgeMoves, BridgePublishes DEF Quiet, Untroubled, projection
<1>2. \A b \in Bridges :
        bridge'[b] # "idle" => bridge'[b] # "reject" /\ held'[b] \in Published'
  <2> DEFINE Fits == \A b \in Bridges :
        bridge'[b] # "idle" => bridge'[b] # "reject" /\ held'[b] \in Published'
  <2>1. CASE UNCHANGED bridgeVars
    BY <1>0, <2>1, NothingLost DEF bridgeVars, Untroubled
  <2>2. ASSUME NEW b \in Bridges, BridgeStep(b) PROVE Fits
    <3>1. CASE \E m \in events : Replay(b, m) \/ Project(b, m)
      BY <2>1, <3>1 DEF Replay, Project
    <3>2. ASSUME NEW m \in events, BeginRefund(b, m) PROVE Fits
      <4>1. bridge' = [bridge EXCEPT ![b] = "refund"] /\ held' = [held EXCEPT ![b] = m]
        BY <3>2 DEF BeginRefund, Take
      <4> QED
        BY <1>0, <4>1, NothingLost DEF Typed, Untroubled, Published
    <3>3. CASE Refund(b)
      <4>1. bridge' = [bridge EXCEPT ![b] = "complete"] /\ held' = held
            /\ bridge[b] = "refund"
        BY <3>3 DEF Refund
      <4> QED
        BY <1>0, <4>1, NothingLost DEF Typed, Untroubled
    <3>4. CASE CompleteRefund(b) \/ Drop(b)
      <4>1. bridge' = [bridge EXCEPT ![b] = "idle"] /\ held' = [held EXCEPT ![b] = None]
        BY <3>4 DEF CompleteRefund, Drop, Release, Take
      <4> QED
        BY <1>0, <4>1, NothingLost DEF Typed, Untroubled
    <3> QED
      BY <2>2, <3>1, <3>2, <3>3, <3>4, QuietBridge
  <2> QED
    BY <2>1, <2>2, Steps, NoBridgeMoves DEF Quiet
<1>3. \A w \in Workers : worker'[w] \notin {"abandon", "stopped"} /\ ~lost'[w]
  <2> DEFINE Fits == \A w \in Workers :
        worker'[w] \notin {"abandon", "stopped"} /\ ~lost'[w]
  <2>1. CASE UNCHANGED workerVars
    BY <1>0, <2>1 DEF workerVars, Untroubled
  <2>2. ASSUME NEW w \in Workers, WorkerStep(w) PROVE Fits
    <3>1. CASE (\E e \in commands : AckTerminal(w, e)) \/ Checkpoint(w)
      BY <2>1, <3>1 DEF AckTerminal, Checkpoint
    <3>2. CASE (\E e \in commands : Claim(w, e)) \/ Invoke(w)
      BY <1>0, <3>2 DEF Claim, Invoke, Typed, Untroubled
    <3>3. CASE Observe(w) /\ UNCHANGED lost
      BY <1>0, <3>3 DEF Observe, Untroubled
    <3>4. CASE EndRun(w)
      BY <1>0, <3>4 DEF EndRun, Typed, Untroubled
    <3>5. CASE PublishEnding(w) /\ worker' = [worker EXCEPT ![w] = "finish"]
      BY <1>0, <3>5 DEF PublishEnding, Typed, Untroubled
    <3>6. CASE Finish(w) /\ Owned(w, entry[w][1])
      BY <1>0, <3>6 DEF Finish, Typed, Untroubled
    <3>7. CASE Acknowledge(w)
      BY <1>0, <3>7 DEF Acknowledge, Forget, Typed, Untroubled
    <3> QED
      BY <2>2, <3>1, <3>2, <3>3, <3>4, <3>5, <3>6, <3>7, QuietWorker
  <2> QED
    BY <2>1, <2>2, Steps, NoWorkerMoves DEF Quiet
<1> QED
  BY <1>1, <1>2, <1>3 DEF Untroubled

\* A row is claimed when it is absent, and leaves RUNNING when its run is over.
LEMMA RunsOnceKept == ASSUME Quiet PROVE RunsOnce'
<1>0. IInv /\ CleanInv /\ Typed /\ RunsOnce /\ WorkerKnows /\ Untroubled
  BY DEF Quiet, IInv, CleanInv
<1>1. CASE UNCHANGED <<journalVars, workerVars>> /\ Published' = Published
  BY <1>0, <1>1 DEF journalVars, workerVars, RunsOnce, Executing, Holds
<1>2. ASSUME NEW w \in Workers, WorkerStep(w) PROVE RunsOnce'
  <2>1. ASSUME NEW c \in Commands, journal'[c] = "ABSENT" PROVE journal[c] = "ABSENT"
    BY <1>0, <1>2, <2>1, QuietWorker
    DEF Claim, AckTerminal, Invoke, Checkpoint, EndRun, Acknowledge, Observe,
        PublishEnding, Finish, Typed, journalVars
  <2>2. ASSUME NEW c \in Commands, journal[c] = "ABSENT", NEW m \in Published',
               m.command = c
        PROVE  FALSE
    <3>1. m \in Published \/ (AtWork(w) /\ m.command = entry[w][1])
      BY <1>2, <2>2, WorkerPublishes DEF NextEvent, AtWork
    <3> QED
      BY <1>0, <2>2, <3>1 DEF RunsOnce, WorkerKnows, AtWork
  <2>3. ASSUME NEW c \in Commands, journal'[c] = "ABSENT", NEW v \in Workers,
               worker'[v] # "idle"
        PROVE  entry'[v][1] # c
    <3>1. ASSUME NEW e \in commands, Claim(w, e), e[1] \in Commands
          PROVE  entry'[v][1] # c
      BY <1>0, <2>1, <2>3, <3>1 DEF Claim, Typed, RunsOnce
    <3>2. CASE Acknowledge(w)
      BY <1>0, <2>1, <2>3, <3>2 DEF Acknowledge, Forget, Typed, RunsOnce, journalVars
    <3>3. CASE \/ \E e \in commands : AckTerminal(w, e)
               \/ Invoke(w) \/ Checkpoint(w) \/ EndRun(w) \/ Observe(w)
               \/ PublishEnding(w) \/ Finish(w)
      <4>1. UNCHANGED entry /\ (worker'[v] # worker[v] => v = w /\ worker[w] # "idle")
            /\ (worker[v] = "idle" => worker'[v] = "idle")
        BY <1>0, <3>3 DEF AckTerminal, Invoke, Checkpoint, EndRun, Observe,
           PublishEnding, Finish, Typed, workerVars
      <4> QED
        BY <1>0, <2>1, <2>3, <4>1 DEF RunsOnce
    <3> QED
      BY <1>2, <3>1, <3>2, <3>3, QuietWorker
  <2>4. ASSUME NEW c \in Commands, journal'[c] = "RUNNING"
        PROVE  owner'[c] \in Workers /\ Executing(owner[c], c)'
    <3>1. ASSUME NEW e \in commands, Claim(w, e), e \in Commands \X Nat
          PROVE  owner'[c] \in Workers /\ Executing(owner[c], c)'
      <4>1. /\ journal' = [journal EXCEPT ![e[1]] = "RUNNING"]
            /\ owner' = [owner EXCEPT ![e[1]] = w]
            /\ worker' = [worker EXCEPT ![w] = "invoke"]
            /\ entry' = [entry EXCEPT ![w] = e]
            /\ worker[w] = "idle" /\ e # None /\ e[1] \in Commands
        BY <3>1, NoneAssumption DEF Claim, ReadCommand
      <4>2. CASE c = e[1]
        BY <1>0, <4>1, <4>2 DEF Typed, Executing, Holds
      <4>3. CASE c # e[1]
        BY <1>0, <2>4, <4>1, <4>3 DEF Typed, RunsOnce, Executing, Holds
      <4> QED
        BY <4>2, <4>3
    <3>2. CASE Finish(w) /\ Owned(w, entry[w][1])
      <4>1. /\ journal' = [journal EXCEPT ![entry[w][1]] =
                             IF outcome[w] = "RUN_FAILED" THEN "FAILED" ELSE "COMPLETED"]
            /\ owner' = [owner EXCEPT ![entry[w][1]] = None]
            /\ worker' = [worker EXCEPT ![w] = "ack"]
            /\ UNCHANGED entry
        BY <3>2 DEF Finish
      <4>2. c # entry[w][1] /\ journal[c] = "RUNNING" /\ owner'[c] = owner[c]
        BY <1>0, <2>4, <4>1 DEF Typed
      <4> QED
        BY <1>0, <4>1, <4>2 DEF Typed, RunsOnce, Executing, Holds
    <3>3. CASE Acknowledge(w)
      <4>1. /\ worker[w] = "ack" /\ UNCHANGED <<journal, owner>>
            /\ worker' = [worker EXCEPT ![w] = "idle"]
            /\ entry' = [entry EXCEPT ![w] = None]
        BY <3>3 DEF Acknowledge, Forget, journalVars
      <4> QED
        BY <1>0, <2>4, <4>1 DEF Typed, RunsOnce, Executing, Holds
    <3>4. CASE \/ \E e \in commands : AckTerminal(w, e)
               \/ Invoke(w) \/ Checkpoint(w) \/ EndRun(w) \/ Observe(w)
               \/ PublishEnding(w) /\ worker' = [worker EXCEPT ![w] = "finish"]
      <4>1. UNCHANGED <<journal, owner, entry>>
        BY <3>4 DEF AckTerminal, Invoke, Checkpoint, EndRun, Observe, PublishEnding,
           journalVars, workerVars
      <4>2. \A v \in Workers : worker[v] \in {"invoke", "run", "publish", "finish"} =>
                               worker'[v] \in {"invoke", "run", "publish", "finish"}
        BY <1>0, <3>4 DEF AckTerminal, Invoke, Checkpoint, EndRun, Observe,
           PublishEnding, workerVars, Typed, Untroubled
      <4> QED
        BY <1>0, <2>4, <4>1, <4>2 DEF RunsOnce, Executing, Holds
    <3> QED
      BY <1>2, <3>1, <3>2, <3>3, <3>4, QuietWorker
  <2> QED
    BY <2>1, <2>2, <2>3, <2>4 DEF RunsOnce
<1>3. CASE ApiStep \/ UNCHANGED vars
  <2>1. UNCHANGED <<events, processed>>
    BY <1>3 DEF ApiStep, Reply, Send, MarkPublished, projection, vars
  <2> QED
    BY <1>1, <1>3, <2>1, NoWorkerMoves DEF Published
<1> QED
  BY <1>1, <1>2, <1>3, Steps, NoWorkerMoves, BridgePublishes DEF Quiet

\* How the step of a worker moves what Numbered looks at.
LEMMA WorkerNumbers ==
  ASSUME Quiet, NEW w \in Workers, WorkerStep(w),
         NEW v \in Workers, NEW c \in Commands, Executing(v, c)'
  PROVE  \/ /\ v = w /\ journal[c] = "ABSENT"
            /\ Published' = Published
         \/ /\ Executing(v, c) /\ index'[v] \in {index[v], index[v] + 1}
            /\ index'[v] = index[v] => Published' = Published \/ v # w
            /\ worker'[v] # "finish" => worker[v] # "finish"
            /\ v # w => index'[v] = index[v]
<1>0. Typed /\ Untroubled /\ WorkerKnows
  BY DEF Quiet, IInv, CleanInv
<1>1. ASSUME NEW e \in commands, Claim(w, e),
             e \in Commands \X Nat, journal[e[1]] = "ABSENT"
      PROVE  \/ v = w /\ journal[c] = "ABSENT" /\ Published' = Published
             \/ /\ v # w /\ Executing(v, c) /\ index'[v] = index[v]
                /\ worker'[v] = worker[v]
  <2>1. /\ worker' = [worker EXCEPT ![w] = "invoke"] /\ UNCHANGED index
        /\ entry' = [entry EXCEPT ![w] = e] /\ Published' = Published
    BY <1>1 DEF Claim, projection, Published
  <2>2. CASE v = w
    BY <1>0, <1>1, <2>1, <2>2 DEF Typed, Executing, Holds
  <2>3. CASE v # w
    BY <1>0, <2>1, <2>3 DEF Typed, Executing, Holds
  <2> QED
    BY <2>1, <2>2, <2>3
<1>2. CASE \/ \E e \in commands : AckTerminal(w, e)
           \/ Invoke(w) \/ Checkpoint(w) \/ EndRun(w)
           \/ Finish(w) /\ Owned(w, entry[w][1])
  <2>1. UNCHANGED <<entry, index, events, processed>>
    BY <1>2 DEF AckTerminal, Invoke, Checkpoint, EndRun, Finish, workerVars, projection
  <2>2. /\ worker[v] \in {"invoke", "run", "publish", "finish"}
        /\ worker'[v] # "finish" => worker[v] # "finish"
    BY <1>0, <1>2
    DEF AckTerminal, Invoke, Checkpoint, EndRun, Finish, workerVars, Typed, Executing
  <2> QED
    BY <1>0, <2>1, <2>2 DEF Typed, Executing, Holds, Published
<1>3. CASE Acknowledge(w)
  <2>1. /\ worker' = [worker EXCEPT ![w] = "idle"]
        /\ entry' = [entry EXCEPT ![w] = None]
        /\ index' = [index EXCEPT ![w] = 0]
        /\ Published' = Published
    BY <1>3 DEF Acknowledge, Forget, projection, Published
  <2> QED
    BY <1>0, <2>1 DEF Typed, Executing, Holds
<1>4. CASE \/ Observe(w)
           \/ PublishEnding(w) /\ worker' = [worker EXCEPT ![w] = "finish"]
              /\ index' = [index EXCEPT ![w] = index[w] + 1]
  <2>1. /\ UNCHANGED entry /\ index' = [index EXCEPT ![w] = @ + 1]
        /\ worker[w] \in {"run", "publish"}
        /\ worker' = worker \/ worker' = [worker EXCEPT ![w] = "finish"]
    BY <1>4 DEF Observe, PublishEnding
  <2>2. index[v] \in Nat /\ index'[v] = IF v = w THEN index[v] + 1 ELSE index[v]
    BY <1>0, <2>1 DEF Typed
  <2>3. /\ Executing(v, c)
        /\ worker'[v] # "finish" => worker[v] # "finish"
    BY <1>0, <2>1 DEF Typed, Executing, Holds
  <2> QED
    BY <2>2, <2>3
<1> QED
  BY <1>1, <1>2, <1>3, <1>4, QuietWorker

\* A run numbers its events one after the other, and the last one ends it.
LEMMA NumberedKept == ASSUME Quiet PROVE Numbered'
<1>0. IInv /\ CleanInv /\ Typed /\ Numbered /\ RunsOnce
  BY DEF Quiet, IInv, CleanInv
<1>1. CASE UNCHANGED <<journalVars, workerVars>> /\ Published' = Published
  BY <1>0, <1>1 DEF workerVars, Numbered, Executing, Holds
<1>2. ASSUME NEW w \in Workers, WorkerStep(w) PROVE Numbered'
  <2>1. ASSUME NEW m \in Published', m \notin Published
        PROVE  /\ m.command = entry[w][1] /\ m.index = index[w] + 1
               /\ m.command \in Commands /\ Executing(w, m.command)
               /\ worker[w] \in {"run", "publish"} /\ index[w] \in Nat
               /\ Published' = Published \cup {m}
               /\ m.type # "NODE_OBSERVED" =>
                    worker' = [worker EXCEPT ![w] = "finish"]
    <3>1. AtWork(w) /\ worker[w] \in {"run", "publish"}
          /\ \E type : /\ m = NextEvent(w, type) /\ Published' = Published \cup {m}
                       /\ \/ type = "NODE_OBSERVED"
                          \/ worker' = [worker EXCEPT ![w] = "finish"]
      BY <1>2, <2>1, WorkerPublishes DEF AtWork
    <3>2. m.command = entry[w][1] /\ m.index = index[w] + 1
      BY <3>1 DEF NextEvent
    <3>3. m.type # "NODE_OBSERVED" => worker' = [worker EXCEPT ![w] = "finish"]
      BY <3>1 DEF NextEvent
    <3>4. index[w] \in Nat
      BY <1>0 DEF Typed
    <3> QED
      BY <1>0, <3>1, <3>2, <3>3, <3>4, AtWorkIsLatest
  \* What was published for that command before is numbered lower.
  <2>2. ASSUME NEW m \in Published', m \notin Published,
               NEW n \in Published, n.command = m.command
        PROVE  /\ n.index \in Nat /\ n.index < m.index /\ n.type = "NODE_OBSERVED"
    <3>1. n.index \in Nat /\ n.index <= index[w] /\ n.type = "NODE_OBSERVED"
      BY <1>0, <2>1, <2>2, EventHasReply DEF Numbered
    <3> QED
      BY <2>1, <2>2, <3>1
  <2>3. ASSUME NEW m \in Published', NEW n \in Published', SameId(m, n) PROVE m = n
    <3>1. \A k \in Published : k.index \in Nat
      BY <1>0, EventHasReply
    <3> QED
      BY <1>0, <2>1, <2>2, <2>3, <3>1 DEF SameId, Numbered
  <2>4. ASSUME NEW m \in Published', NEW n \in Published', m.command = n.command,
               m.type # "NODE_OBSERVED"
        PROVE  n.index <= m.index
    <3>1. CASE m \in Published /\ n \in Published
      BY <1>0, <2>4, <3>1 DEF Numbered
    <3>2. CASE m \notin Published /\ n \in Published
      <4>1. m.index \in Nat /\ n.index \in Nat /\ n.index < m.index
        BY <2>1, <2>2, <2>4, <3>2
      <4> QED
        BY <4>1
    <3>3. CASE m \in Published /\ n \notin Published
      BY <2>2, <2>4, <3>3
    <3>4. CASE m \notin Published /\ n \notin Published
      <4>1. m = n /\ m.index \in Nat
        BY <2>1, <3>4
      <4> QED
        BY <4>1
    <3> QED
      BY <3>1, <3>2, <3>3, <3>4
  <2>5. ASSUME NEW v \in Workers, NEW m \in Published', Executing(v, m.command)'
        PROVE  /\ m.index <= index'[v]
               /\ worker'[v] # "finish" => m.type = "NODE_OBSERVED"
    <3> DEFINE c == m.command
    <3>0. c \in Commands /\ index[v] \in Nat
      BY <1>0, <2>1, EventHasReply DEF Typed
    <3>1. CASE m \in Published
      <4>1. m.index \in Nat /\ journal[c] # "ABSENT"
        BY <1>0, <3>0, <3>1, EventHasReply DEF RunsOnce
      <4>2. /\ Executing(v, c) /\ index'[v] \in {index[v], index[v] + 1}
            /\ worker'[v] # "finish" => worker[v] # "finish"
        BY <1>2, <2>5, <3>0, <4>1, WorkerNumbers
      <4>3. m.index <= index[v] /\ (worker[v] # "finish" => m.type = "NODE_OBSERVED")
        BY <1>0, <3>1, <4>2 DEF Numbered
      <4> QED
        BY <3>0, <4>1, <4>2, <4>3
    <3>2. CASE m \notin Published
      <4>1. Executing(w, c) /\ Published' # Published /\ m.index = index[w] + 1
        BY <2>1, <3>2
      <4>2. /\ Executing(v, c) /\ index'[v] \in {index[v], index[v] + 1}
            /\ index'[v] = index[v] => v # w
        BY <1>2, <2>5, <3>0, <4>1, WorkerNumbers
      <4>3. v = w
        BY <1>0, <3>0, <4>1, <4>2, OneExecutes
      <4>4. worker'[v] # "finish" => m.type = "NODE_OBSERVED"
        BY <1>0, <2>1, <3>2, <4>3 DEF Typed
      <4> QED
        BY <3>0, <4>1, <4>2, <4>3, <4>4
    <3> QED
      BY <3>1, <3>2
  <2> QED
    BY <2>3, <2>4, <2>5 DEF Numbered, SameId
<1>3. CASE ApiStep \/ UNCHANGED vars
  <2>1. UNCHANGED <<events, processed>>
    BY <1>3 DEF ApiStep, Reply, Send, MarkPublished, projection, vars
  <2> QED
    BY <1>1, <1>3, <2>1, NoWorkerMoves DEF Published
<1> QED
  BY <1>1, <1>2, <1>3, Steps, NoWorkerMoves, BridgePublishes DEF Quiet

\* A step of the API gives one command a reply at most.
LEMMA ApiReplies ==
  ASSUME ApiStep
  PROVE  \/ \E c \in Commands, k \in Kinds : Reply(c, k)
         \/ UNCHANGED <<status, reply>>
  BY DEF ApiStep, Send, MarkPublished, caseVars

\* A reply is accepted when every command before it is over, and stays.
LEMMA InTurnKept == ASSUME Quiet PROVE InTurn'
<1>0. IInv /\ CleanInv /\ Typed /\ InTurn /\ StatusFits
  BY DEF Quiet, IInv, CleanInv
<1>1. \A c \in Commands : reply[c] # None => reply'[c] # None
  BY RepliesStay
<1>2. \A c \in Commands : journal'[c] # "ABSENT" => reply'[c] # None
  <2>1. CASE UNCHANGED journalVars
    BY <1>0, <1>1, <2>1 DEF journalVars, InTurn
  <2>2. ASSUME NEW w \in Workers, WorkerStep(w), NEW c \in Commands,
               journal'[c] # "ABSENT"
        PROVE  reply[c] # None
    <3>1. ASSUME NEW e \in commands, Claim(w, e) PROVE reply[c] # None
      BY <1>0, <2>2, <3>1 DEF Claim, Typed, InTurn
    <3>2. CASE Finish(w) /\ Owned(w, entry[w][1])
      BY <1>0, <2>2, <3>2 DEF Finish, Owned, Typed, InTurn
    <3>3. CASE \/ \E e \in commands : AckTerminal(w, e)
               \/ Invoke(w) \/ Checkpoint(w) \/ EndRun(w) \/ Acknowledge(w)
               \/ Observe(w) \/ PublishEnding(w)
      BY <1>0, <2>2, <3>3 DEF AckTerminal, Invoke, Checkpoint, EndRun, Acknowledge,
         Observe, PublishEnding, journalVars, InTurn
    <3> QED
      BY <2>2, <3>1, <3>2, <3>3, QuietWorker
  <2> QED
    BY <1>1, <2>1, <2>2, Steps, NoWorkerMoves DEF Quiet
<1>3. (\A e \in commands' : reply'[e[1]] # None)
      /\ (\A c \in Commands : sent'[c] > 0 => reply'[c] # None)
  <2>1. \A e \in commands : e[1] \in Commands
    BY <1>0 DEF Typed
  <2>2. ASSUME NEW c \in Commands, Send(c)
        PROVE  /\ reply[c] # None
               /\ \A e \in commands' : e \in commands \/ e[1] = c
               /\ \A d \in Commands : d = c \/ sent'[d] = sent[d]
    BY <1>0, <2>2 DEF Send, Typed
  <2>3. ASSUME ~ \E c \in Commands : Send(c)
        PROVE  commands' \subseteq commands /\ UNCHANGED sent
    <3>1. CASE ApiStep
      BY <2>3, <3>1 DEF ApiStep, Reply, MarkPublished, outboxVars
    <3>2. ASSUME NEW w \in Workers, WorkerStep(w)
          PROVE  commands' \subseteq commands /\ UNCHANGED sent
      <4>1. commands' \subseteq commands
        BY <3>2 DEF WorkerStep, Claim, AckTerminal, Invoke, Observe, Checkpoint, EndRun,
           PublishEnding, Finish, Acknowledge, Abandon, Crash, Restart
      <4> QED
        BY <3>2, <4>1, WorkerLeaves
    <3> QED
      BY <3>1, <3>2, Steps, BridgePublishes DEF Quiet, outboxVars, vars
  <2>4. \A c \in Commands : sent[c] > 0 => reply[c] # None
    BY <1>0 DEF InTurn
  <2>5. \A e \in commands : reply[e[1]] # None
    BY <1>0 DEF InTurn
  <2>6. CASE \E c \in Commands : Send(c)
    <3>1. PICK c \in Commands : Send(c)
      BY <2>6
    <3> QED
      BY <1>1, <2>1, <2>2, <2>4, <2>5, <3>1
  <2>7. CASE ~ \E c \in Commands : Send(c)
    BY <1>1, <2>1, <2>3, <2>4, <2>5, <2>7
  <2> QED
    BY <2>6, <2>7
<1>4. ASSUME NEW c \in Commands, NEW d \in Commands, d < c, reply'[c] # None
      PROVE  Over(d)'
  <2>1. CASE reply[c] # None
    BY <1>0, <1>4, <2>1, OverStays DEF InTurn
  <2>2. CASE reply[c] = None
    <3>1. PICK a \in Commands, k \in Kinds : Reply(a, k)
      BY <1>4, <2>2, ApiReplies, Steps, WorkerLeaves, BridgePublishes
      DEF Quiet, outboxVars, vars
    <3>2. a = c /\ status \notin Undecided
      BY <1>0, <1>4, <2>2, <3>1, StatusesAre DEF Reply, Typed
    <3>3. reply[d] # None
      <4>1. d \in 1..(c - 1)
        BY <1>4, PipelineAssumption DEF Commands
      <4> QED
        BY <3>1, <3>2, <4>1 DEF Reply
    <3>4. Over(d)
      BY <1>0, <3>2, <3>3 DEF StatusFits
    <3> QED
      BY <3>4, OverStays
  <2> QED
    BY <2>1, <2>2
<1> QED
  BY <1>2, <1>3, <1>4 DEF InTurn

\* An event that ends a run is projected when its command is the latest: with
\* it all commands that have a reply are over.
LEMMA EndingEndsAll ==
  ASSUME Quiet, NEW m \in Published \ processed, m.type # "NODE_OBSERVED",
         m \in processed', NEW d \in Commands, reply[d] # None
  PROVE  Over(d)'
<1> DEFINE c == m.command
<1>0. IInv /\ CleanInv
  BY DEF Quiet
<1>1. c \in Commands /\ reply[c] # None /\ Latest(c)
  BY <1>0, PendingIsLatest
<1>2. Over(c)'
  BY DEF Over
<1>3. c \in Nat /\ d \in Nat
  BY <1>1, PipelineAssumption DEF Commands
<1>4. ~(d > c)
  BY <1>1 DEF Latest
<1>5. d = c \/ d < c
  BY <1>3, <1>4
<1>6. CASE d < c
  <2>1. Over(d)
    BY <1>0, <1>1, <1>6 DEF CleanInv, InTurn
  <2> QED
    BY <2>1, OverStays
<1> QED
  BY <1>2, <1>5, <1>6

\* The status changes with the event that ends a run, and with the reply.
LEMMA StatusFitsKept == ASSUME Quiet PROVE StatusFits'
<1>0. IInv /\ CleanInv /\ Typed /\ StatusFits
  BY DEF Quiet, IInv, CleanInv
<1> DEFINE Due(m) == m.type = "FULL_REFUND" /\ m.index = last[m.command] + 1
<1>1. ASSUME UNCHANGED <<status, reply, last>>,
             \A m \in events \ processed : Due(m) => m \in events' \ processed'
      PROVE  StatusFits'
  <2>1. ASSUME status' \notin Undecided, NEW c \in Commands, reply'[c] # None
        PROVE  Over(c)'
    BY <1>0, <1>1, <2>1, OverStays DEF StatusFits
  <2>2. ASSUME status' = "EXECUTING"
        PROVE  \E m \in events' \ processed' : /\ m.type = "FULL_REFUND"
                                               /\ m.index = last'[m.command] + 1
    BY <1>0, <1>1, <2>2 DEF StatusFits
  <2> QED
    BY <2>1, <2>2 DEF StatusFits
<1>2. CASE ApiStep
  <2>1. ASSUME NEW c \in Commands, NEW k \in Kinds, Reply(c, k) PROVE StatusFits'
    BY <2>1 DEF Reply, StatusFits, Undecided
  <2>2. UNCHANGED <<events, processed, last>>
    BY <1>2 DEF ApiStep, Reply, Send, MarkPublished, projection
  <2> QED
    BY <1>1, <1>2, <2>1, <2>2, ApiReplies
<1>3. ASSUME NEW w \in Workers, WorkerStep(w) PROVE StatusFits'
  <2>1. UNCHANGED <<status, reply, last, processed>>
    BY <1>3, WorkerLeaves, NoBridgeMoves DEF projection
  <2>2. events \subseteq events'
    BY <1>3 DEF WorkerStep, Claim, AckTerminal, Invoke, Observe, Checkpoint, EndRun,
       PublishEnding, Finish, Acknowledge, Abandon, Crash, Restart, Publish
  <2> QED
    BY <1>1, <2>1, <2>2
<1>4. ASSUME NEW b \in Bridges, BridgeStep(b) PROVE StatusFits'
  <2>0. UNCHANGED reply
    BY <1>4, BridgePublishes DEF outboxVars
  \* The event that ends a run is projected.
  <2>1. ASSUME NEW m \in events \ processed, m.type # "NODE_OBSERVED",
               m \in processed', status' # "EXECUTING"
        PROVE  StatusFits'
    BY <2>0, <2>1, EndingEndsAll DEF StatusFits, Published
  <2>2. ASSUME NEW m \in events, Replay(b, m) PROVE StatusFits'
    BY <1>1, <2>0, <2>2 DEF Replay, Known, AckEvent, caseVars, projection
  <2>3. ASSUME NEW m \in events \ processed, Project(b, m),
               m.index = last[m.command] + 1
        PROVE  StatusFits'
    <3>1. CASE m.type # "NODE_OBSERVED"
      BY <2>1, <2>3, <3>1, StatusesAre DEF Project, Apply, Close, RecordProcessed, Undecided
    <3>2. CASE m.type = "NODE_OBSERVED"
      <4>1. UNCHANGED status
        BY <2>3, <3>2, StatusesAre DEF Project, Apply, Close, caseVars
      <4>2. status \in Undecided
        BY <1>0, PendingIsLatest DEF Published
      <4>3. status # "EXECUTING"
        BY <1>0, <2>3, <3>2, NextIsUnique DEF StatusFits, Published
      <4> QED
        BY <4>1, <4>2, <4>3 DEF StatusFits
    <3> QED
      BY <3>1, <3>2
  <2>4. ASSUME NEW m \in events \ processed, BeginRefund(b, m),
               m.index = last[m.command] + 1
        PROVE  StatusFits'
    BY <2>4 DEF BeginRefund, projection, StatusFits, Undecided
  <2>5. CASE Refund(b) \/ Drop(b)
    BY <1>1, <2>0, <2>5 DEF Refund, Drop, caseVars, projection
  <2>6. CASE CompleteRefund(b)
    <3>1. CASE /\ held[b] \in processed
               /\ AckEvent(held[b])
               /\ UNCHANGED <<caseVars, projection>>
      BY <1>1, <2>0, <3>1 DEF AckEvent, caseVars, projection
    <3>2. CASE /\ held[b] \in events \ processed
               /\ held[b].type = "FULL_REFUND"
               /\ status' \in {"RESOLVED", "ESCALATED"}
               /\ RecordProcessed(held[b])
      BY <2>1, <3>2 DEF RecordProcessed
    <3>3. CASE UNCHANGED <<caseVars, projection, events>>
      BY <1>1, <2>0, <3>3 DEF caseVars, projection
    <3> QED
      BY <2>6, <3>1, <3>2, <3>3, QuietRefund
  <2> QED
    BY <1>4, <2>2, <2>3, <2>4, <2>5, <2>6, QuietBridge
<1>5. CASE UNCHANGED vars
  BY <1>1, <1>5 DEF vars
<1> QED
  BY <1>2, <1>3, <1>4, <1>5, Steps DEF Quiet

\* The thread is moved by the worker that executes the latest command, and the
\* case waits for the reply to the last event of that command.
LEMMA ThreadFitsKept == ASSUME Quiet PROVE ThreadFits'
<1>0. IInv /\ CleanInv /\ Typed /\ ThreadFits /\ Untroubled
  BY DEF Quiet, IInv, CleanInv
<1>1. ASSUME NEW c \in Commands, Latest(c)' PROVE Latest(c)
  BY <1>1, RepliesStay DEF Latest
<1>2. ASSUME NEW m \in Published, m.type \in Kinds, Latest(m.command)',
             UNCHANGED thread
      PROVE  thread' = m.type
  BY <1>0, <1>1, <1>2, EventHasReply DEF ThreadFits
<1>3. CASE UNCHANGED <<workerVars, thread, status>> /\ Published' = Published
  <2>1. \A w \in Workers :
          worker'[w] = "publish" /\ outcome'[w] \in Kinds => thread' = outcome'[w]
    BY <1>0, <1>3 DEF workerVars, ThreadFits
  <2>2. \A k \in Kinds : status' = Awaiting[k] => thread' = k
    BY <1>0, <1>3 DEF ThreadFits
  <2> QED
    BY <1>2, <1>3, <2>1, <2>2 DEF ThreadFits
<1>4. ASSUME NEW w \in Workers, WorkerStep(w) PROVE ThreadFits'
  <2>1. UNCHANGED status
    BY <1>4, WorkerLeaves
  <2>2. CASE ~AtWork(w)
    <3>1. UNCHANGED thread /\ Published' = Published
      <4>1. Published' = Published
        BY <1>4, <2>2, WorkerPublishes DEF AtWork
      <4>2. UNCHANGED thread
        BY <1>4, <2>2, QuietWorker
        DEF Claim, AckTerminal, Invoke, Checkpoint, EndRun, Acknowledge, Observe,
            PublishEnding, Finish, AtWork
      <4> QED
        BY <4>1, <4>2
    <3>2. \A v \in Workers : worker'[v] = "publish" =>
                               worker[v] = "publish" /\ outcome'[v] = outcome[v]
      BY <1>0, <1>4, <2>2, QuietWorker
      DEF Claim, AckTerminal, Invoke, Checkpoint, EndRun, Acknowledge, Observe,
          PublishEnding, Finish, AtWork, Forget, workerVars, Typed
    <3>3. \A v \in Workers :
            worker'[v] = "publish" /\ outcome'[v] \in Kinds => thread' = outcome'[v]
      BY <1>0, <3>1, <3>2 DEF ThreadFits
    <3>4. \A k \in Kinds : status' = Awaiting[k] => thread' = k
      BY <1>0, <2>1, <3>1 DEF ThreadFits
    <3> QED
      BY <1>2, <3>1, <3>3, <3>4 DEF ThreadFits
  <2>3. CASE AtWork(w)
    <3> DEFINE c == entry[w][1]
    <3>1. /\ c \in Commands /\ Executing(w, c) /\ reply[c] # None /\ Latest(c)
          /\ status \in Undecided /\ worker[w] # "finish"
      BY <1>0, <2>3, AtWorkIsLatest DEF AtWork
    <3>2. \A k \in Kinds : status' # Awaiting[k]
      BY <2>1, <3>1, StatusesAre
    \* Nothing that was published asks for a reply to the latest command.
    <3>3. ASSUME NEW m \in Published, Latest(m.command)' PROVE m.type \notin Kinds
      <4>1. m.command = c
        BY <1>0, <1>1, <3>1, <3>3, EventHasReply, OneLatest
      <4>2. m.type = "NODE_OBSERVED"
        BY <1>0, <3>1, <4>1 DEF CleanInv, Numbered
      <4> QED
        BY <4>2, StatusesAre
    <3>4. ASSUME NEW m \in Published', m \notin Published, m.type \in Kinds
          PROVE  thread' = m.type
      <4>1. /\ PublishEnding(w) /\ worker[w] = "publish"
            /\ m = NextEvent(w, outcome[w])
        BY <1>4, <3>4, WorkerPublishes, StatusesAre DEF NextEvent
      <4> QED
        BY <1>0, <3>4, <4>1 DEF PublishEnding, NextEvent, ThreadFits
    <3>5. ASSUME NEW v \in Workers, worker'[v] = "publish", outcome'[v] \in Kinds
          PROVE  thread' = outcome'[v]
      <4>1. CASE v # w
        <5>1. worker[v] = "publish"
          BY <1>0, <1>4, <3>5, <4>1, QuietWorker
          DEF Claim, AckTerminal, Invoke, Checkpoint, EndRun, Acknowledge, Observe,
              PublishEnding, Finish, Forget, workerVars, Typed
        <5> QED
          BY <1>0, <2>3, <4>1, <5>1, OneAtWork DEF AtWork
      <4>2. CASE v = w
        <5>1. CASE EndRun(w)
          <6>1. PICK o \in Endings \cup {"RUN_FAILED"} :
                  /\ outcome' = [outcome EXCEPT ![w] = o]
                  /\ thread' = CASE o \in Kinds -> o
                                 [] o = "RUN_FAILED" -> "mid"
                                 [] OTHER -> "ended"
            BY <5>1 DEF EndRun
          <6>2. o \in Kinds
            BY <1>0, <3>5, <4>2, <6>1 DEF Typed
          <6>3. thread' = o
            BY <6>1, <6>2, StatusesAre
          <6> QED
            BY <1>0, <4>2, <6>1, <6>3 DEF Typed
        <5>2. CASE Invoke(w)
          BY <1>0, <3>5, <4>2, <5>2, StatusesAre DEF Invoke, Typed
        <5>3. CASE ~EndRun(w) /\ ~Invoke(w)
          <6>1. worker[w] = "publish" /\ UNCHANGED <<thread, outcome>>
            BY <1>0, <1>4, <2>3, <3>5, <4>2, <5>3, QuietWorker
            DEF Claim, AckTerminal, Checkpoint, Acknowledge, Observe, PublishEnding,
                Finish, Forget, ReadCommand, workerVars, Typed, AtWork
          <6> QED
            BY <1>0, <3>5, <4>2, <6>1 DEF ThreadFits
        <5> QED
          BY <5>1, <5>2, <5>3
      <4> QED
        BY <4>1, <4>2
    <3> QED
      BY <3>2, <3>3, <3>4, <3>5 DEF ThreadFits
  <2> QED
    BY <2>2, <2>3
<1>5. ASSUME UNCHANGED <<workerVars, thread>>, Published' = Published,
             \A k \in Kinds : status' # Awaiting[k]
      PROVE  ThreadFits'
  BY <1>0, <1>2, <1>5 DEF workerVars, ThreadFits
<1>6. CASE ApiStep
  <2>1. UNCHANGED <<workerVars, thread>>
    BY <1>6, NoWorkerMoves
  <2>2. Published' = Published
    BY <1>6 DEF ApiStep, Reply, Send, MarkPublished, projection, Published
  <2>3. status' = status \/ status' = "OBSERVING"
    BY <1>6, ApiReplies DEF Reply
  <2> QED
    BY <1>3, <1>5, <2>1, <2>2, <2>3, StatusesAre DEF Undecided
<1>7. ASSUME NEW b \in Bridges, BridgeStep(b) PROVE ThreadFits'
  <2>1. UNCHANGED <<workerVars, thread>> /\ Published' = Published
    BY <1>7, NoWorkerMoves, BridgePublishes
  <2>2. ASSUME NEW m \in events \ processed, Project(b, m), m.type \in Kinds
        PROVE  ThreadFits'
    <3>1. status' = Awaiting[m.type]
      BY <2>2, StatusesAre DEF Project, Apply
    <3>2. thread = m.type
      BY <1>0, <2>2, PendingIsLatest DEF ThreadFits, Published
    <3>3. \A k \in Kinds : status' = Awaiting[k] => thread' = k
      BY <2>1, <2>2, <3>1, <3>2, StatusesAre
    <3> QED
      BY <1>0, <1>2, <2>1, <3>3 DEF workerVars, ThreadFits
  <2>3. ASSUME NEW m \in events, Project(b, m), m.type \notin Kinds
        PROVE  status' \in {status, "RESOLVED", "ESCALATED"}
    BY <2>3 DEF Project, Apply, Close, caseVars
  <2>4. ASSUME ~ \E m \in events : Project(b, m)
        PROVE  status' \in {status, "EXECUTING", "RESOLVED", "ESCALATED"}
    BY <1>7, <2>4, QuietBridge, QuietRefund
    DEF Replay, BeginRefund, Refund, Drop, caseVars
  <2>5. CASE status' \in {status, "EXECUTING", "RESOLVED", "ESCALATED"}
    BY <1>3, <1>5, <2>1, <2>5, StatusesAre DEF Undecided, Closed
  <2> QED
    BY <1>7, <2>2, <2>3, <2>4, <2>5, QuietBridge DEF Project, Ready, Known
<1>8. CASE UNCHANGED vars
  BY <1>3, <1>8 DEF vars, workerVars, Published
<1> QED
  BY <1>4, <1>6, <1>7, <1>8, Steps DEF Quiet

-----------------------------------------------------------------------------
(* The invariant and what follows from it. *)

LEMMA InitIInv == Init => IInv
<1> SUFFICES ASSUME Init PROVE IInv
  OBVIOUS
<1> USE DEF Init
<1>1. 1 \in Commands /\ Commands \subseteq Nat
  BY PipelineAssumption DEF Commands
<1>2. Typed
  BY <1>1, StatusesAre DEF Typed, Stages
<1>3. WorkerKnows /\ BridgeKnows /\ TerminatedCloses
  BY DEF WorkerKnows, BridgeKnows, TerminatedCloses
<1>4. DoneOnce
  BY DEF DoneOnce, Closed
<1>5. ProjectedInOrder
  <2>1. 1..0 = {}
    OBVIOUS
  <2> QED
    BY <2>1 DEF ProjectedInOrder
<1>6. Untroubled /\ RunsOnce /\ Numbered
  BY DEF Untroubled, RunsOnce, Numbered, Published
<1>7. InTurn
  <2>1. \A c \in Commands : reply[c] # None => c = 1
    OBVIOUS
  <2>2. \A d \in Commands : ~(d < 1)
    BY DEF Commands
  <2> QED
    BY <1>1, <2>1, <2>2 DEF InTurn
<1>8. StatusFits
  BY DEF StatusFits, Undecided
<1>9. ThreadFits
  BY StatusesAre DEF ThreadFits, Published, Undecided
<1> QED
  BY <1>2, <1>3, <1>4, <1>5, <1>6, <1>7, <1>8, <1>9 DEF IInv, CleanInv

LEMMA StepIInv == IInv /\ [Next]_vars => IInv'
<1> SUFFICES ASSUME IInv, [Next]_vars PROVE IInv'
  OBVIOUS
<1>1. ASSUME faults' = 0 PROVE CleanInv'
  BY <1>1, QuietStep, UntroubledKept, RunsOnceKept, NumberedKept, InTurnKept,
     StatusFitsKept, ThreadFitsKept DEF CleanInv
<1> QED
  BY <1>1, TypedKept, WorkersKept, BridgesKept, TerminatedKept, DoneKept, OrderKept
  DEF IInv

\* The pieces above hold in every state of the pipeline.
THEOREM Invariance == Spec => []IInv
  BY InitIInv, StepIInv, PTL DEF Spec

\* A case ends once: whichever bridges, refunds, projections and rejections race
\* for it, there is one "done" event, with the status the case has.
THEOREM EndsOnce == Spec => []DoneOnce
<1>1. IInv => DoneOnce
  BY DEF IInv
<1> QED
  BY <1>1, Invariance, PTL

\* The events projected for a command are numbered without a gap and without a
\* repetition, though runs repeat numbers and refunds record theirs later.
THEOREM ProjectsInOrder == Spec => []ProjectedInOrder
<1>1. IInv => ProjectedInOrder
  BY DEF IInv
<1> QED
  BY <1>1, Invariance, PTL

\* As long as runs end within the lease no two workers execute one command,
\* whoever crashes: the worker that executes it owns its journal row.
THEOREM ExecutesAlone == Spec => []ExecutedAlone
<1>1. IInv => ExecutedAlone
  BY OneExecutes DEF ExecutedAlone
<1> QED
  BY <1>1, Invariance, PTL

\* As long as no worker crashes and no publication fails, redelivered, reordered
\* and repeated entries get no event rejected.
THEOREM RedeliversHarmlessly == Spec => []HarmlessWithoutFault
<1>1. IInv => HarmlessWithoutFault
  BY DEF IInv, CleanInv, Untroubled, HarmlessWithoutFault, RedeliveryIsHarmless
<1> QED
  BY <1>1, Invariance, PTL

\* ... and while a case waits for a reply, the thread of the agent is interrupted
\* for exactly that kind of reply.
THEOREM AwaitsTheInterrupt == Spec => []AwaitedInterruptIsActive
<1>1. IInv => AwaitedInterruptIsActive
  BY DEF IInv, CleanInv, ThreadFits, AwaitedInterruptIsActive
<1> QED
  BY <1>1, Invariance, PTL

\* When a command's projection is terminated nothing more is projected for it:
\* a projection is terminated with its case only (TerminatedCloses), and a refund
\* that is completed needs a case it can move.
THEOREM TerminatedStaysFrozen == Spec => TerminatedIsFrozen
<1> DEFINE Frozen == \A c \in terminated :
      last'[c] = last[c] /\ \A m \in processed' \ processed : m.command # c
<1>1. ASSUME IInv, [Next]_vars PROVE Frozen
  <2>0. Typed /\ BridgeKnows /\ TerminatedCloses
    BY <1>1 DEF IInv
  <2>1. CASE UNCHANGED projection
    BY <2>1 DEF projection
  <2>2. ASSUME NEW m \in Event, RecordProcessed(m), m.command \notin terminated
        PROVE  Frozen
    BY <2>0, <2>2 DEF RecordProcessed, Typed
  <2>3. ASSUME NEW b \in Bridges, NEW m \in events, Project(b, m) PROVE Frozen
    BY <2>0, <2>2, <2>3 DEF Project, Ready, Terminated, Typed
  <2>4. ASSUME NEW b \in Bridges, CompleteRefund(b) PROVE Frozen
    <3>1. CASE terminated = {}
      BY <3>1
    <3>2. CASE terminated # {}
      <4>1. ~CanMove(status, RefundEnd)
        BY <2>0, <3>2, ClosedDoesNotMove DEF TerminatedCloses
      <4> QED
        BY <2>1, <2>4, <4>1 DEF CompleteRefund
    <3> QED
      BY <3>1, <3>2
  <2>5. ASSUME NEW b \in Bridges, Reject(b) PROVE Frozen
    BY <2>5 DEF Reject
  <2> QED
    BY <1>1, <2>1, <2>3, <2>4, <2>5, CaseMoves DEF Reply, BeginRefund
<1>2. ASSUME IInv, [Next]_vars
      PROVE  [Frozen]_vars
  BY <1>1, <1>2
<1> QED
  BY <1>2, Invariance, PTL DEF Spec, TerminatedIsFrozen
=============================================================================
