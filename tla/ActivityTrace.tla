---------------------------- MODULE ActivityTrace -----------------------------
(***************************************************************************)
(* The activity trace and its narration: spans of the agent emit events    *)
(* (agent_runtime/activity.py, contracts/activity_observer.py) into a      *)
(* bounded queue that a task publishes (agent_service/activity_workers.py),*)
(* the API stores them and queues a narration job for each node summary    *)
(* (apps/api: activities.py, activity_bridge.py), and narrators of the     *)
(* agent service answer with text that comes back as an event.             *)
(*                                                                         *)
(* A stream is the set of its unacknowledged entries. A narrator's own     *)
(* model calls emit further events of no consequence, which are left out.  *)
(* Definitions marked (fault) are slips that properties must catch.        *)
(***************************************************************************)
EXTENDS Naturals, Sequences, FiniteSets

CONSTANTS
  Summaries,       \* node summaries of one case
  Lifecycles,      \* its other events
  Capacity,        \* of the agent's queue
  Bridges,         \* activity bridges of the API replicas
  Slots,           \* tasks of the narrators
  MaxTraceFaults   \* bound: replies lost, tasks that fail, locks held too long

ASSUME TraceAssumption ==
  /\ Summaries \cap Lifecycles = {}
  /\ Capacity \in Nat \ {0}
  /\ MaxTraceFaults \in Nat

VARIABLES
  emitted,       \* events that spans have emitted
  queue,         \* ActivityPublisher.queue
  activities,    \* entries of the activity stream
  trace,         \* case_activities in the order of seq
  dispatched,    \* rows of activity_narration_outbox: "none", "pending" or "sent"
  result,        \* their result_event_id: the text stored, 0 if none
  todo,          \* rows a bridge has read and not yet sent
  unmarked,      \* rows it has sent and not yet marked
  jobs,          \* entries of the narration stream
  cache,         \* activity-narration-result: the text saved for a job, 0 if none
  lock,          \* activity-narration-result lock of a job: locked or not
  slot,          \* the job of a task, and its text once there is one
  texts,         \* texts that models have returned
  traceFaults

agentQueue == <<emitted, queue>>
storeVars == <<trace, dispatched, result>>
bridgeVars == <<todo, unmarked>>
narratorVars == <<cache, lock, slot, texts>>
traceVars == <<agentQueue, activities, storeVars, bridgeVars, jobs, narratorVars, traceFaults>>

AtRest == [at |-> "idle", job |-> {}, text |-> 0]

\* An event: the one emitted, or the narration of a summary, whose id is the job's.
Emission(e) == [of |-> e, text |-> 0]
Narration(s, text) == [of |-> s, text |-> text]
IsNarration(m) == m.text # 0
SameId(m, n) == m.of = n.of /\ (IsNarration(m) <=> IsNarration(n))

TraceInit ==
  /\ emitted = {}
  /\ queue = <<>>
  /\ activities = {}
  /\ trace = <<>>
  /\ dispatched = [s \in Summaries |-> "none"]
  /\ result = [s \in Summaries |-> 0]
  /\ todo = [b \in Bridges |-> {}]
  /\ unmarked = [b \in Bridges |-> {}]
  /\ jobs = {}
  /\ cache = [s \in Summaries |-> 0]
  /\ lock = [s \in Summaries |-> FALSE]
  /\ slot = [n \in Slots |-> AtRest]
  /\ texts = 0
  /\ traceFaults = 0

Slip == traceFaults < MaxTraceFaults /\ traceFaults' = traceFaults + 1
NoSlip == UNCHANGED traceFaults

-----------------------------------------------------------------------------
(* The agent. *)

\* span and submit: a full queue drops the event.
Emit(e) ==
  /\ e \in (Summaries \cup Lifecycles) \ emitted
  /\ emitted' = emitted \cup {e}
  /\ queue' = IF Len(queue) < Capacity THEN Append(queue, e) ELSE queue
  /\ UNCHANGED <<activities, storeVars, bridgeVars, jobs, narratorVars, traceFaults>>

\* run_forever: XADD, repeated with the same event when its reply is lost.
PublishEvent ==
  /\ queue # <<>>
  /\ activities' = activities \cup {Emission(Head(queue))}
  /\ \/ queue' = Tail(queue) /\ NoSlip
     \/ UNCHANGED queue /\ Slip
  /\ UNCHANGED <<emitted, storeVars, bridgeVars, jobs, narratorVars>>

\* The agent service restarts: what is in the queue is lost.
QueueIsLost ==
  /\ queue # <<>>
  /\ queue' = <<>>
  /\ Slip
  /\ UNCHANGED <<emitted, activities, storeVars, bridgeVars, jobs, narratorVars>>

-----------------------------------------------------------------------------
(* The API. *)

\* (fault) events are recognised by their content.
AcceptedByContent(m) ==
  /\ \A i \in DOMAIN trace : trace[i] # m
  /\ IsNarration(m) => dispatched[m.of] # "none"

\* append: an event that is known is returned or, with other content, refused; a
\* narration needs its source, and the first one stands.
Accepted(m) ==
  /\ \A i \in DOMAIN trace : ~SameId(trace[i], m)
  /\ IsNarration(m) => dispatched[m.of] # "none" /\ result[m.of] = 0

\* Under the lock of the case: the next seq, with the job of a summary or the
\* result of a narration.
AppendEvent(m) ==
  /\ trace' = Append(trace, m)
  /\ result' = IF IsNarration(m) THEN [result EXCEPT ![m.of] = m.text] ELSE result
  /\ dispatched' = IF ~IsNarration(m) /\ m.of \in Summaries
                   THEN [dispatched EXCEPT ![m.of] = "pending"] ELSE dispatched

\* consume_once, in the task that also dispatches. The bridge may die or lose the
\* database before it acknowledges.
Consume(b, m) ==
  /\ m \in activities
  /\ todo[b] = {} /\ unmarked[b] = {}
  /\ IF Accepted(m) THEN AppendEvent(m) ELSE UNCHANGED storeVars
  /\ \/ activities' = activities \ {m} /\ NoSlip
     \/ UNCHANGED activities /\ Slip
  /\ UNCHANGED <<agentQueue, bridgeVars, jobs, narratorVars>>

\* dispatch_once: the rows are read, then each is sent and marked.
ReadPending(b) ==
  /\ todo[b] = {} /\ unmarked[b] = {}
  /\ \E s \in Summaries : dispatched[s] = "pending"
  /\ todo' = [todo EXCEPT ![b] = {s \in Summaries : dispatched[s] = "pending"}]
  /\ UNCHANGED <<agentQueue, activities, storeVars, unmarked, jobs, narratorVars, traceFaults>>

SendJob(b, s) ==
  /\ s \in todo[b]
  /\ unmarked[b] = {}
  /\ jobs' = jobs \cup {s}
  /\ todo' = [todo EXCEPT ![b] = @ \ {s}]
  /\ unmarked' = [unmarked EXCEPT ![b] = {s}]
  /\ UNCHANGED <<agentQueue, activities, storeVars, narratorVars, traceFaults>>

MarkSent(b) ==
  /\ unmarked[b] # {}
  /\ dispatched' = [s \in Summaries |-> IF s \in unmarked[b] THEN "sent" ELSE dispatched[s]]
  /\ unmarked' = [unmarked EXCEPT ![b] = {}]
  /\ UNCHANGED <<agentQueue, activities, trace, result, todo, jobs, narratorVars, traceFaults>>

\* run_forever starts over.
BridgeFails(b) ==
  /\ todo[b] # {} \/ unmarked[b] # {}
  /\ todo' = [todo EXCEPT ![b] = {}]
  /\ unmarked' = [unmarked EXCEPT ![b] = {}]
  /\ Slip
  /\ UNCHANGED <<agentQueue, activities, storeVars, jobs, narratorVars>>

-----------------------------------------------------------------------------
(* Narrators. *)

\* run_once for an entry that is new or reclaimed: a saved result is published
\* once more, else the lock decides; where it is held the entry stays.
TakeJob(n, s) ==
  /\ slot[n] = AtRest
  /\ s \in jobs
  /\ \/ /\ cache[s] # 0
        /\ activities' = activities \cup {Narration(s, cache[s])}
        /\ jobs' = jobs \ {s}
        /\ UNCHANGED <<lock, slot>>
     \/ /\ cache[s] = 0
        /\ ~lock[s]
        /\ lock' = [lock EXCEPT ![s] = TRUE]
        /\ slot' = [slot EXCEPT ![n] = [AtRest EXCEPT !.at = "model", !.job = {s}]]
        /\ UNCHANGED <<activities, jobs>>
  /\ UNCHANGED <<agentQueue, storeVars, bridgeVars, cache, texts, traceFaults>>

\* The model's text or, after a failure or the timeout, that there is none.
Generate(n) ==
  /\ slot[n].at = "model"
  /\ texts' = texts + 1
  /\ slot' = [slot EXCEPT ![n].at = "publish", ![n].text = texts']
  /\ UNCHANGED <<agentQueue, activities, storeVars, bridgeVars, jobs, cache, lock, traceFaults>>

\* _publish_result: one Redis transaction.
PublishResult(n) ==
  /\ slot[n].at = "publish"
  /\ cache' = [s \in Summaries |-> IF s \in slot[n].job THEN slot[n].text ELSE cache[s]]
  /\ activities' = activities \cup {Narration(s, slot[n].text) : s \in slot[n].job}
  /\ jobs' = jobs \ slot[n].job
  /\ slot' = [slot EXCEPT ![n] = AtRest]
  /\ UNCHANGED <<agentQueue, storeVars, bridgeVars, lock, texts, traceFaults>>

\* The task fails or is lost: its entry stays, and so does its lock.
SlotFails(n) ==
  /\ slot[n] # AtRest
  /\ slot' = [slot EXCEPT ![n] = AtRest]
  /\ Slip
  /\ UNCHANGED <<agentQueue, activities, storeVars, bridgeVars, jobs, cache, lock, texts>>

\* Held by a task that is at work.
InUse(s) == \E n \in Slots : s \in slot[n].job

\* (fault) locks are kept for ever.
LockIsKept(s) == lock[s] /\ FALSE /\ UNCHANGED traceVars

\* Redis drops the lock after its time, which is the idle time of the entry too and
\* far more than the model's timeout. To hold it longer is a fault.
LockExpires(s) ==
  /\ lock[s]
  /\ lock' = [lock EXCEPT ![s] = FALSE]
  /\ IF InUse(s) THEN Slip ELSE NoSlip
  /\ UNCHANGED <<agentQueue, activities, storeVars, bridgeVars, jobs, cache, slot, texts>>

-----------------------------------------------------------------------------
Dispatches(b) == ReadPending(b) \/ MarkSent(b) \/ \E s \in Summaries : SendJob(b, s)
Consumes == \E b \in Bridges, m \in activities : Consume(b, m)
Narrates(n) == Generate(n) \/ PublishResult(n) \/ \E s \in Summaries : TakeJob(n, s)

TraceNext ==
  \/ \E e \in Summaries \cup Lifecycles : Emit(e)
  \/ PublishEvent \/ QueueIsLost
  \/ Consumes
  \/ \E b \in Bridges : Dispatches(b) \/ BridgeFails(b)
  \/ \E n \in Slots : Narrates(n) \/ SlotFails(n)
  \/ \E s \in Summaries : LockExpires(s)

TraceSpec == TraceInit /\ [][TraceNext]_traceVars

\* The tasks of bridges and narrators loop, come back to entries that stay
\* unacknowledged, and locks run out. The agent's queue is promised nothing.
TraceFairness ==
  /\ WF_traceVars(Consumes)
  /\ \A b \in Bridges : WF_traceVars(Dispatches(b))
  /\ \A n \in Slots : WF_traceVars(Narrates(n))
  /\ \A s \in Summaries : WF_traceVars(LockExpires(s) /\ NoSlip)

TraceFairSpec == TraceSpec /\ TraceFairness

-----------------------------------------------------------------------------
\* The trace has every event once, and each summary has at most one narration, after
\* it, which its row knows: however often events, jobs and results are sent again,
\* and though a narrator that outlasts its lock generates another text for the job.
NarratedOnce ==
  /\ \A i, j \in DOMAIN trace : SameId(trace[i], trace[j]) => i = j
  /\ \A j \in DOMAIN trace : IsNarration(trace[j]) =>
       /\ result[trace[j].of] = trace[j].text
       /\ \E i \in 1..(j - 1) : trace[i] = Emission(trace[j].of)

\* Every summary that is stored is narrated, or said to have no narration, in the
\* end, whichever bridge or narrator fails.
SummaryIsNarrated ==
  \A s \in Summaries : dispatched[s] # "none" ~> result[s] # 0
=============================================================================
