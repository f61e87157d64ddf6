--------------------------- MODULE AgentPipeline ----------------------------
(***************************************************************************)
(* One case on its way through the two services: commands from the API's   *)
(* transactional outbox over a Redis stream to the agent workers           *)
(* (apps/agent_service: worker.py, journal.py, broker.py), a run of the    *)
(* agent graph on the case's thread (packages/agent_runtime: runtime.py),  *)
(* and the events of the run over a second stream back to the bridge tasks *)
(* of the API replicas (apps/api: agent_bridge.py), which project them     *)
(* onto the case and carry out a refund.                                   *)
(*                                                                         *)
(* Streams deliver at least once and, with several consumers, pending      *)
(* entries that another consumer takes over, and retries, in any order:    *)
(* a stream is the set of its entries that are not acknowledged yet.       *)
(* The case is pinned to policy schema v1; a v2 refund leaves this path    *)
(* when its resolution is projected.                                       *)
(* Definitions marked (fault) are slips the properties below must catch.   *)
(***************************************************************************)
EXTENDS Naturals, Sequences, CaseStatus

CONSTANTS
  Workers,       \* agent worker processes (journal owners)
  Bridges,       \* event consumers, one per API replica
  Kinds,         \* interrupt kinds the graph may raise
  MaxCommands,   \* bound: commands of the case (1 START, then RESUMEs)
  MaxSends,      \* bound: stream entries per command
  MaxNotes,      \* bound: node observations per run
  MaxFaults,     \* bound: worker crashes and failed event publications
  MaxDrops,      \* bound: failures of bridge tasks and of the refund executor
  MaxRuns,       \* bound: runs of one command
  None

ASSUME PipelineAssumption ==
  /\ Kinds \subseteq InterruptKinds
  /\ MaxCommands \in Nat \ {0}
  /\ MaxSends \in Nat \ {0}
  /\ {MaxNotes, MaxFaults, MaxDrops, MaxRuns} \subseteq Nat

VARIABLES
  status,        \* cases.status
  done,          \* "done" events of the case: final status, and its cause
  reply,         \* per command: START, the interrupt kind it answers, or None
  marked,        \* outbox rows with published_at set
  sent,          \* number of entries XADDed for each command
  commands,      \* unacknowledged entries <<command, copy>>
  journal,       \* agent_command_journal.state
  owner,         \* agent_command_journal.claimed_by
  thread,        \* checkpoint: none, mid (no active interrupt), ended, a kind
  runs,          \* number of runs of each command so far
  worker,        \* what each worker does next
  entry,         \* the command entry it holds
  run,           \* number of its run, which tells its events' timestamps
  index,         \* event_index of the last event of the run
  lost,          \* did the publication of an observation fail?
  outcome,       \* how the run ended
  events,        \* unacknowledged entries of the event stream
  processed,     \* processed_agent_events
  last,          \* cursor: last_event_index (0 also when there is no row)
  terminated,    \* commands whose cursor has terminated_at set
  bridge,        \* what each bridge task does next
  held,          \* the event it holds
  refund,        \* the final answer of the refund executor
  faults,        \* worker crashes and failed publications so far
  drops          \* events a bridge failed to acknowledge so far

caseVars == <<status, done>>
outboxVars == <<reply, marked, sent>>
journalVars == <<journal, owner, runs>>
workerVars == <<worker, entry, run, index, lost, outcome>>
projection == <<processed, last, terminated>>
bridgeVars == <<bridge, held>>
vars == <<status, done, reply, marked, sent, commands, journal, owner, thread,
          runs, worker, entry, run, index, lost, outcome, events, processed,
          last, terminated, bridge, held, refund, faults, drops>>

Commands == 1..MaxCommands

\* None stands for an absent value and is none of those it is told apart from.
ASSUME NoneAssumption ==
  /\ None \notin Kinds \cup {"START"}
  /\ None \notin Workers
  /\ None \notin Commands \X Nat

\* How a run ends: AgentRunResult.
Endings == Kinds \cup {"RESOLVED", "FULL_REFUND", "ESCALATED"}

\* create_case: the case, its first turn and the START command commit together.
Init ==
  /\ status = "OBSERVING"
  /\ done = <<>>
  /\ reply = [c \in Commands |-> IF c = 1 THEN "START" ELSE None]
  /\ marked = {}
  /\ sent = [c \in Commands |-> 0]
  /\ commands = {}
  /\ journal = [c \in Commands |-> "ABSENT"]
  /\ owner = [c \in Commands |-> None]
  /\ thread = "none"
  /\ runs = [c \in Commands |-> 0]
  /\ worker = [w \in Workers |-> "idle"]
  /\ entry = [w \in Workers |-> None]
  /\ run = [w \in Workers |-> 0]
  /\ index = [w \in Workers |-> 0]
  /\ lost = [w \in Workers |-> FALSE]
  /\ outcome = [w \in Workers |-> None]
  /\ events = {}
  /\ processed = {}
  /\ last = [c \in Commands |-> 0]
  /\ terminated = {}
  /\ bridge = [b \in Bridges |-> "idle"]
  /\ held = [b \in Bridges |-> None]
  /\ refund = None
  /\ faults = 0
  /\ drops = 0

-----------------------------------------------------------------------------
(* The API: replies and the outbox dispatchers. *)

\* send_message, complete_human_review, confirm_policy: the reply to the
\* interrupt the case waits for moves it back to OBSERVING and puts the RESUME
\* command into the outbox, in one transaction.
Reply(c, k) ==
  /\ status = Awaiting[k]
  /\ reply[c] = None
  /\ \A d \in 1..(c - 1) : reply[d] # None
  /\ status' = "OBSERVING"
  /\ reply' = [reply EXCEPT ![c] = k]
  /\ UNCHANGED <<done, marked, sent, commands, journalVars, thread, workerVars,
                 events, projection, bridgeVars, refund, faults, drops>>

\* dispatch_outbox_once up to its XADD. A dispatcher that dies, loses its lease
\* or cannot commit leaves the row unmarked, and it is sent once more.
Send(c) ==
  /\ reply[c] # None
  /\ c \notin marked
  /\ sent[c] < MaxSends
  /\ sent' = [sent EXCEPT ![c] = @ + 1]
  /\ commands' = commands \cup {<<c, sent[c] + 1>>}
  /\ UNCHANGED <<caseVars, reply, marked, journalVars, thread, workerVars,
                 events, projection, bridgeVars, refund, faults, drops>>

\* _record_publish_success.
MarkPublished(c) ==
  /\ sent[c] > 0
  /\ c \notin marked
  /\ marked' = marked \cup {c}
  /\ UNCHANGED <<caseVars, reply, sent, commands, journalVars, thread, workerVars,
                 events, projection, bridgeVars, refund, faults, drops>>

-----------------------------------------------------------------------------
(* The agent worker: run_once. *)

Holds(w, c) == entry[w] # None /\ entry[w][1] = c

Executing(w, c) == Holds(w, c) /\ worker[w] \in {"invoke", "run", "publish", "finish"}

\* (fault) claim takes a RUNNING row over without looking at its lease.
LeaseIgnored(c) == TRUE

\* claimed_until has passed, 900 s after the claim. Nobody renews it: that its
\* owner has stopped executing the command by then is an assumption.
LeaseOver(c) == ~\E w \in Workers : owner[c] = w /\ Executing(w, c)

\* (fault) claim runs a command again although its row is terminal.
ClaimableTerminal(c) ==
  journal[c] # "RUNNING" \/ LeaseOver(c)

\* (fault) claim never takes a RUNNING row over.
ClaimableFresh(c) == journal[c] = "ABSENT"

\* PostgresCommandJournal.claim returns CLAIMED.
Claimable(c) ==
  journal[c] = "ABSENT" \/ (journal[c] = "RUNNING" /\ LeaseOver(c))

\* read_command: an entry that nobody acknowledged, new or reclaimed.
ReadCommand(w, e) == worker[w] = "idle" /\ e \in commands

\* claim returns CLAIMED. A BUSY entry stays pending, as if not read.
Claim(w, e) ==
  LET c == e[1] IN
  /\ ReadCommand(w, e)
  /\ Claimable(c)
  /\ runs[c] < MaxRuns
  /\ journal' = [journal EXCEPT ![c] = "RUNNING"]
  /\ owner' = [owner EXCEPT ![c] = w]
  /\ runs' = [runs EXCEPT ![c] = @ + 1]
  /\ worker' = [worker EXCEPT ![w] = "invoke"]
  /\ entry' = [entry EXCEPT ![w] = e]
  /\ run' = [run EXCEPT ![w] = runs[c] + 1]
  /\ UNCHANGED <<caseVars, outboxVars, commands, thread, index, lost, outcome,
                 events, projection, bridgeVars, refund, faults, drops>>

\* claim returns TERMINAL: the entry is acknowledged and nothing runs.
AckTerminal(w, e) ==
  /\ ReadCommand(w, e)
  /\ journal[e[1]] \in {"COMPLETED", "FAILED"}
  /\ ~Claimable(e[1])
  /\ commands' = commands \ {e}
  /\ UNCHANGED <<caseVars, outboxVars, journalVars, thread, workerVars, events,
                 projection, bridgeVars, refund, faults, drops>>

\* astart needs a fresh thread, aresume an active interrupt of the reply's kind.
Accepts(c) ==
  IF reply[c] = "START" THEN thread = "none" ELSE thread = reply[c]

Invoke(w) ==
  /\ worker[w] = "invoke"
  /\ \/ /\ Accepts(entry[w][1])
        /\ worker' = [worker EXCEPT ![w] = "run"]
        /\ UNCHANGED outcome
     \/ /\ ~Accepts(entry[w][1])
        /\ worker' = [worker EXCEPT ![w] = "publish"]
        /\ outcome' = [outcome EXCEPT ![w] = "RUN_FAILED"]
  /\ UNCHANGED <<caseVars, outboxVars, commands, journalVars, thread, entry, run,
                 index, lost, events, projection, bridgeVars, refund, faults, drops>>

Publish(w, type) ==
  events' = events \cup {[command |-> entry[w][1], index |-> index[w] + 1,
                          run |-> run[w], type |-> type]}

\* observe: a node of the graph is entered, left or fails. A publication that
\* fails uses up its index and is remembered.
Observe(w) ==
  /\ worker[w] = "run"
  /\ index[w] < MaxNotes
  /\ index' = [index EXCEPT ![w] = @ + 1]
  /\ \/ /\ Publish(w, "NODE_OBSERVED")
        /\ UNCHANGED <<lost, faults>>
     \/ /\ faults < MaxFaults
        /\ faults' = faults + 1
        /\ lost' = [lost EXCEPT ![w] = TRUE]
        /\ UNCHANGED events
  /\ UNCHANGED <<caseVars, outboxVars, commands, journalVars, thread, worker,
                 entry, run, outcome, projection, bridgeVars, refund, drops>>

\* The graph's checkpointer stores the first superstep of the run, which uses
\* up the interrupt that was active.
Checkpoint(w) ==
  /\ worker[w] = "run"
  /\ thread' = "mid"
  /\ UNCHANGED <<caseVars, outboxVars, commands, journalVars, workerVars, events,
                 projection, bridgeVars, refund, faults, drops>>

\* The run ends: at an interrupt, with a decision, or with an exception that
\* leaves the thread between two nodes. One with a lost observation raises.
EndRun(w) ==
  /\ worker[w] = "run"
  /\ \E o \in Endings \cup {"RUN_FAILED"} :
       /\ outcome' = [outcome EXCEPT ![w] = o]
       /\ thread' = CASE o \in Kinds -> o
                      [] o = "RUN_FAILED" -> "mid"
                      [] OTHER -> "ended"
  /\ worker' = [worker EXCEPT ![w] = IF lost[w] THEN "abandon" ELSE "publish"]
  /\ UNCHANGED <<caseVars, outboxVars, commands, journalVars, entry, run, index,
                 lost, events, projection, bridgeVars, refund, faults, drops>>

\* The terminal event of the run; a failure to publish it raises.
PublishEnding(w) ==
  /\ worker[w] = "publish"
  /\ \/ /\ Publish(w, outcome[w])
        /\ index' = [index EXCEPT ![w] = @ + 1]
        /\ worker' = [worker EXCEPT ![w] = "finish"]
        /\ UNCHANGED faults
     \/ /\ faults < MaxFaults
        /\ faults' = faults + 1
        /\ worker' = [worker EXCEPT ![w] = "abandon"]
        /\ UNCHANGED <<events, index>>
  /\ UNCHANGED <<caseVars, outboxVars, commands, journalVars, thread, entry, run,
                 lost, outcome, projection, bridgeVars, refund, drops>>

Owned(w, c) == journal[c] = "RUNNING" /\ owner[c] = w

\* journal.complete or journal.fail; a row that another worker took raises.
Finish(w) ==
  LET c == entry[w][1] IN
  /\ worker[w] = "finish"
  /\ \/ /\ Owned(w, c)
        /\ journal' = [journal EXCEPT ![c] = IF outcome[w] = "RUN_FAILED"
                                             THEN "FAILED" ELSE "COMPLETED"]
        /\ owner' = [owner EXCEPT ![c] = None]
        /\ worker' = [worker EXCEPT ![w] = "ack"]
     \/ /\ ~Owned(w, c)
        /\ worker' = [worker EXCEPT ![w] = "abandon"]
        /\ UNCHANGED <<journal, owner>>
  /\ UNCHANGED <<caseVars, outboxVars, commands, runs, thread, entry, run, index,
                 lost, outcome, events, projection, bridgeVars, refund, faults, drops>>

\* run_once returns, and with it everything local to _execute is gone.
Forget(w, next) ==
  /\ worker' = [worker EXCEPT ![w] = next]
  /\ entry' = [entry EXCEPT ![w] = None]
  /\ run' = [run EXCEPT ![w] = 0]
  /\ index' = [index EXCEPT ![w] = 0]
  /\ lost' = [lost EXCEPT ![w] = FALSE]
  /\ outcome' = [outcome EXCEPT ![w] = None]

Acknowledge(w) ==
  /\ worker[w] = "ack"
  /\ commands' = commands \ {entry[w]}
  /\ Forget(w, "idle")
  /\ UNCHANGED <<caseVars, outboxVars, journalVars, thread, events, projection,
                 bridgeVars, refund, faults, drops>>

\* The handler of run_once: give the claim back and raise, which ends the loop
\* of run_forever.
Abandon(w) ==
  LET c == entry[w][1] IN
  /\ worker[w] = "abandon"
  /\ \/ /\ Owned(w, c)
        /\ journal' = [journal EXCEPT ![c] = "ABSENT"]
        /\ owner' = [owner EXCEPT ![c] = None]
     \/ /\ ~Owned(w, c)
        /\ UNCHANGED <<journal, owner>>
  /\ Forget(w, "stopped")
  /\ UNCHANGED <<caseVars, outboxVars, commands, runs, thread, events, projection,
                 bridgeVars, refund, faults, drops>>

\* The process dies: its claim and its entry stay behind.
Crash(w) ==
  /\ worker[w] \notin {"idle", "stopped"}
  /\ faults < MaxFaults
  /\ faults' = faults + 1
  /\ Forget(w, "stopped")
  /\ UNCHANGED <<caseVars, outboxVars, commands, journalVars, thread, events,
                 projection, bridgeVars, refund, drops>>

\* A worker that is not ready (/health/ready) is replaced.
Restart(w) ==
  /\ worker[w] = "stopped"
  /\ worker' = [worker EXCEPT ![w] = "idle"]
  /\ UNCHANGED <<caseVars, outboxVars, commands, journalVars, thread, entry, run,
                 index, lost, outcome, events, projection, bridgeVars, refund, faults, drops>>

-----------------------------------------------------------------------------
(* The bridge: consume_event_once. *)

SameId(m, n) == m.command = n.command /\ m.index = n.index

\* Every status change the event asks for is one the case can make.
Applies(m) ==
  CASE m.type = "NODE_OBSERVED" -> TRUE
    [] m.type \in Kinds -> CanMove(status, Awaiting[m.type])
    [] m.type = "RESOLVED" -> CanMove(status, "EXECUTING")
    [] m.type = "FULL_REFUND" -> status \in {"OBSERVING", "EXECUTING"}
    [] OTHER -> CanMove(status, "ESCALATED")

\* Events of two runs of a command differ in occurred_at, hence in their hashes,
\* where their event ids agree.
Collides(m) == \E n \in processed : SameId(m, n)

Terminated(m) == m.command \in terminated

\* (fault) an event ahead of its turn is taken at once.
NeverEarly(m) == FALSE

Early(m) == m.index > last[m.command] + 1

Late(m) == m.index < last[m.command] + 1

\* project() returns False for an event it knows, ...
Known(m) == m \in processed

\* ... raises InvalidAgentEventError (and AgentEventGapError for an event that
\* is merely early, which stays pending), ...
Invalid(m) ==
  /\ ~Known(m)
  /\ \/ Collides(m)
     \/ Terminated(m)
     \/ ~Early(m) /\ (Late(m) \/ ~Applies(m))

\* ... or applies the event.
Ready(m) ==
  ~Known(m) /\ ~Collides(m) /\ ~Terminated(m) /\ ~Early(m) /\ ~Late(m) /\ Applies(m)

\* The entry is acknowledged, or the bridge dies first and it is redelivered.
AckEvent(m) ==
  \/ /\ events' = events \ {m}
     /\ UNCHANGED drops
  \/ /\ drops < MaxDrops
     /\ drops' = drops + 1
     /\ UNCHANGED events

RecordProcessed(m) ==
  /\ processed' = processed \cup {m}
  /\ last' = [last EXCEPT ![m.command] = m.index]
  /\ UNCHANGED terminated

\* _transition to a final status, and _done.
Close(final, cause) ==
  /\ status' = final
  /\ done' = Append(done, [status |-> final, by |-> cause])

\* _apply, but for the refund of a resolution.
Apply(m) ==
  \/ /\ m.type = "NODE_OBSERVED"
     /\ UNCHANGED caseVars
  \/ /\ m.type \in Kinds
     /\ status' = Awaiting[m.type]
     /\ UNCHANGED done
  \/ m.type = "RESOLVED" /\ Close("RESOLVED", "resolution")
  \/ m.type = "ESCALATED" /\ Close("ESCALATED", "escalation")
  \/ m.type = "RUN_FAILED" /\ Close("ESCALATED", "failure")

Take(b, m, next) ==
  /\ bridge' = [bridge EXCEPT ![b] = next]
  /\ held' = [held EXCEPT ![b] = m]

Release(b) == Take(b, None, "idle")

\* project() commits nothing more: a replay is acknowledged.
Replay(b, m) ==
  /\ bridge[b] = "idle"
  /\ m \in events
  /\ Known(m)
  /\ AckEvent(m)
  /\ UNCHANGED <<caseVars, outboxVars, commands, journalVars, thread, workerVars,
                 projection, bridgeVars, refund, faults>>

\* project() with an event it can apply in one transaction.
Project(b, m) ==
  /\ bridge[b] = "idle"
  /\ m \in events
  /\ Ready(m)
  /\ Apply(m)
  /\ RecordProcessed(m)
  /\ AckEvent(m)
  /\ UNCHANGED <<outboxVars, commands, journalVars, thread, workerVars,
                 bridgeVars, refund, faults>>

\* project() with a refund: EXECUTING is committed, the event not recorded.
BeginRefund(b, m) ==
  /\ bridge[b] = "idle"
  /\ m \in events
  /\ Ready(m)
  /\ m.type = "FULL_REFUND"
  /\ status' = "EXECUTING"
  /\ Take(b, m, "refund")
  /\ UNCHANGED <<done, outboxVars, commands, journalVars, thread, workerVars,
                 events, projection, refund, faults, drops>>

\* The executor answers as RefundPromise has it: the first answer stands. Calls
\* that fail are covered by Drop.
Refund(b) ==
  /\ bridge[b] = "refund"
  /\ refund' \in IF refund = None THEN {"SUCCEEDED", "REJECTED"} ELSE {refund}
  /\ bridge' = [bridge EXCEPT ![b] = "complete"]
  /\ UNCHANGED <<caseVars, outboxVars, commands, journalVars, thread, workerVars,
                 events, projection, held, faults, drops>>

RefundEnd == IF refund = "SUCCEEDED" THEN "RESOLVED" ELSE "ESCALATED"

\* _complete_refund. An event that is recorded by now, by whichever bridge, is
\* done with; where the order of events or the case's status has moved on it
\* raises and nothing changes.
CompleteRefund(b) ==
  LET m == held[b] IN
  /\ bridge[b] = "complete"
  /\ \/ /\ Collides(m)
        /\ AckEvent(m)
        /\ UNCHANGED <<caseVars, projection>>
     \/ /\ ~Collides(m)
        /\ last[m.command] + 1 = m.index
        /\ CanMove(status, RefundEnd)
        /\ Close(RefundEnd, IF refund = "SUCCEEDED" THEN "refund"
                                                    ELSE "refused refund")
        /\ RecordProcessed(m)
        /\ AckEvent(m)
     \/ /\ ~Collides(m)
        /\ last[m.command] + 1 # m.index \/ ~CanMove(status, RefundEnd)
        /\ UNCHANGED <<caseVars, projection, events, drops>>
  /\ Release(b)
  /\ UNCHANGED <<outboxVars, commands, journalVars, thread, workerVars, refund, faults>>

\* project() raises InvalidAgentEventError; reject() is a second transaction.
Refuse(b, m) ==
  /\ bridge[b] = "idle"
  /\ m \in events
  /\ Invalid(m)
  /\ Take(b, m, "reject")
  /\ UNCHANGED <<caseVars, outboxVars, commands, journalVars, thread, workerVars,
                 events, projection, refund, faults, drops>>

\* (fault) reject() escalates whatever status the case has.
EscalateAlways == Close("ESCALATED", "rejected event")

\* (fault) reject() leaves a case whose refund is under way as it is.
EscalateUnlessExecuting ==
  IF status \in Closed \cup {"EXECUTING"} THEN UNCHANGED caseVars
                                          ELSE Close("ESCALATED", "rejected event")

\* reject() leaves a case that is closed already as it is.
Escalate ==
  IF status \in Closed THEN UNCHANGED caseVars
                       ELSE Close("ESCALATED", "rejected event")

\* reject(): the command's projection ends and an open case is escalated. A
\* second rejection of an entry, which its rejected_agent_events row skips,
\* would find both already so.
Reject(b) ==
  LET m == held[b] IN
  /\ bridge[b] = "reject"
  /\ terminated' = terminated \cup {m.command}
  /\ Escalate
  /\ AckEvent(m)
  /\ Release(b)
  /\ UNCHANGED <<outboxVars, commands, journalVars, thread, workerVars, processed,
                 last, refund, faults>>

\* The bridge dies, its transaction fails, or the executor is unavailable: the
\* event stays pending.
Drop(b) ==
  /\ bridge[b] # "idle"
  /\ drops < MaxDrops
  /\ drops' = drops + 1
  /\ Release(b)
  /\ UNCHANGED <<caseVars, outboxVars, commands, journalVars, thread, workerVars,
                 events, projection, refund, faults>>

-----------------------------------------------------------------------------
Next ==
  \/ \E c \in Commands : \/ \E k \in Kinds : Reply(c, k)
                         \/ Send(c)
                         \/ MarkPublished(c)
  \/ \E w \in Workers : \/ \E e \in commands : Claim(w, e) \/ AckTerminal(w, e)
                        \/ Invoke(w)
                        \/ Observe(w)
                        \/ Checkpoint(w)
                        \/ EndRun(w)
                        \/ PublishEnding(w)
                        \/ Finish(w)
                        \/ Acknowledge(w)
                        \/ Abandon(w)
                        \/ Crash(w)
                        \/ Restart(w)
  \/ \E b \in Bridges : \/ \E m \in events : \/ Replay(b, m)
                                             \/ Project(b, m)
                                             \/ BeginRefund(b, m)
                                             \/ Refuse(b, m)
                        \/ Refund(b)
                        \/ CompleteRefund(b)
                        \/ Reject(b)
                        \/ Drop(b)

Spec == Init /\ [][Next]_vars

\* Every task goes on with what it has begun and comes back to what is pending:
\* dispatchers poll the outbox, entries that stay unacknowledged are reclaimed
\* and leases run out, a stopped worker is replaced, and the executor answers
\* but for MaxDrops times.
Works(w) ==
  \/ Invoke(w) \/ EndRun(w) \/ PublishEnding(w) \/ Finish(w)
  \/ Acknowledge(w) \/ Abandon(w) \/ Restart(w)
Reads == \E w \in Workers, e \in commands : Claim(w, e) \/ AckTerminal(w, e)
Serves(b) == Refund(b) \/ CompleteRefund(b) \/ Reject(b)
Handles ==
  \E b \in Bridges, m \in events :
    Replay(b, m) \/ Project(b, m) \/ BeginRefund(b, m) \/ Refuse(b, m)
Fairness ==
  /\ \A c \in Commands : WF_vars(Send(c)) /\ WF_vars(MarkPublished(c))
  /\ \A w \in Workers : WF_vars(Works(w))
  /\ \A b \in Bridges : WF_vars(Serves(b))
  /\ WF_vars(Reads)
  /\ WF_vars(Handles)

FairSpec == Spec /\ Fairness

-----------------------------------------------------------------------------
(* Safety, whatever crashes. *)

\* A case ends once: it has one "done" event exactly when it is closed, with
\* the status it has. Two bridges and their refunds, projections and rejections
\* race for it, each in transactions of its own (_done is called at four places).
DoneOnce ==
  /\ status \in Closed <=> done # <<>>
  /\ done # <<>> => Len(done) = 1 /\ done[1].status = status

\* The events projected for a command are numbered 1, 2, ... without a gap and
\* without two of one number, though runs repeat numbers, entries are handled
\* in any order, and a refund records its event in a second transaction.
ProjectedInOrder ==
  \A c \in Commands :
    LET seen == {m \in processed : m.command = c} IN
    /\ {m.index : m \in seen} = 1..last[c]
    /\ \A m, n \in seen : m.index = n.index => m = n

\* Once a command's projection is terminated no event of it is projected any
\* more, not even by a refund another bridge has begun before: _complete_refund
\* does not look at terminated_at.
TerminatedIsFrozen ==
  [][\A c \in terminated :
       last'[c] = last[c] /\ \A m \in processed' \ processed : m.command # c]_vars

-----------------------------------------------------------------------------
(* Safety of the journal. *)

\* docs/spec/06 CT-37: a command in execution is not run by a second worker,
\* whoever crashes and whatever is redelivered, as long as runs end within the
\* lease of 900 s.
ExecutedAlone ==
  \A c \in Commands, w, v \in Workers : Executing(w, c) /\ Executing(v, c) => w = v

-----------------------------------------------------------------------------
(* Safety as long as no worker crashes and no publication fails: duplicates, *)
(* reordering, failing bridges and an unavailable executor do no harm.       *)

\* README 4.1: commands and events may be redelivered. No event of the agent is
\* rejected for that, so no case is escalated by the transport.
RedeliveryIsHarmless == terminated = {}
HarmlessWithoutFault == faults = 0 => RedeliveryIsHarmless

\* While the case waits for a reply of some kind, the thread in the agent's
\* database is interrupted for exactly that: the reply will find it.
AwaitedInterruptIsActive ==
  faults = 0 => \A k \in Kinds : status = Awaiting[k] => thread = k

-----------------------------------------------------------------------------
(* Liveness. *)

\* A case that is with the agent does not stay there: some reply is awaited or
\* the case is closed in the end, also after a crash at any point.
CaseMovesOn ==
  status \in {"OBSERVING", "EXECUTING"} ~> status \notin {"OBSERVING", "EXECUTING"}
=============================================================================
