---------------------------- MODULE MemoryPipeline ----------------------------
(***************************************************************************)
(* How a resolved case becomes an operational memory: the agent's RESOLVED *)
(* event and, for a v2 refund, the API's announcement that the refund was  *)
(* applied are joined to one job (memory_enqueue_worker.py,                *)
(* memory_completion.py); memory workers distill it, submit the candidate  *)
(* to OperationalMemory and publish one event about the job                *)
(* (memory_worker.py, memory_replay.py, journal.py).                       *)
(*                                                                         *)
(* Every stream redelivers what has not been acknowledged, a journal row   *)
(* leases a job to a worker, and the replay store keeps the first result   *)
(* and the first event of a job. A resolution names its case, its handoff, *)
(* its job and the memory that comes of it. Definitions marked (fault) are *)
(* slips that properties must catch.                                       *)
(***************************************************************************)
EXTENDS OperationalMemory

CONSTANTS
  Resolutions,
  Workers,     \* memory workers
  MaxFaults    \* bound: crashes, raised exceptions, lost or late second halves

ASSUME PipelineAssumption ==
  /\ MemoryIds = Resolutions
  /\ MaxFaults \in Nat
  /\ {"SKIP", "FAILED"} \cap (Contents \cup {None}) = {}
  /\ Workers \cap {"COMPLETED", "FAILED", None} = {}

VARIABLES
  joined,      \* resolutions of v2 cases with a full refund
  prepared,    \* resolutions whose checkpoint holds a memory_distillation_input
  applied,     \* API: rows of the completion outbox
  announced,   \* API: the rows marked as published
  sent,        \* number of entries published so far
  unacked,     \* entries of the streams that have not been acknowledged
  correction,  \* memory_completion_joins.correction_job
  paid,        \* memory_completion_joins.applied_event
  queued,      \* memory_completion_joins.published
  journal,     \* agent_command_journal: owner, "COMPLETED", "FAILED" or None
  replay,      \* memory_job_results: result and terminal_event
  work,        \* the job each worker executes, and how far it is
  events,      \* entries of the stream of memory events
  faults

inputVars == <<joined, prepared, applied, announced>>
streamVars == <<sent, unacked>>
joinVars == <<correction, paid, queued>>
workVars == <<journal, replay, work, events>>
vars == <<storeVars, inputVars, streamVars, joinVars, workVars, faults>>

Streams == {"completion", "agent", "job"}
Entries == [stream : Streams, resolution : Resolutions, copy : 1..(MaxFaults + 1)]

Results == Contents \cup {"SKIP"}

Init ==
  /\ StoreInit
  /\ joined \in SUBSET Resolutions /\ prepared \in SUBSET Resolutions
  /\ applied = {} /\ announced = {}
  /\ sent = [s \in Streams |-> [r \in Resolutions |-> 0]]
  /\ unacked = {}
  /\ correction = {} /\ paid = {} /\ queued = {}
  /\ journal = [r \in Resolutions |-> None]
  /\ replay = [r \in Resolutions |-> [result |-> None, event |-> None]]
  /\ work = [w \in Workers |-> None]
  /\ events = {}
  /\ faults = 0

-----------------------------------------------------------------------------
Fault == faults < MaxFaults /\ faults' = faults + 1
NoFault == UNCHANGED faults

\* XADD.
Publish(stream, r) ==
  LET n == sent[stream][r] + 1 IN
  /\ sent' = [sent EXCEPT ![stream][r] = n]
  /\ unacked' = unacked \cup {[stream |-> stream, resolution |-> r, copy |-> n]}

\* XACK; it does not come when the consumer dies before.
Acknowledge(e) ==
  \/ unacked' = unacked \ {e} /\ NoFault
  \/ UNCHANGED unacked /\ Fault

-----------------------------------------------------------------------------
(* What the pipeline starts from. *)

\* The agent publishes RESOLVED, and once more after a crash.
Resolve(r) ==
  /\ IF sent["agent"][r] = 0 THEN NoFault ELSE Fault
  /\ Publish("agent", r)
  /\ UNCHANGED <<storeVars, inputVars, joinVars, workVars>>

\* The API applies the refund: complete() adds the outbox row.
PayRefund(r) ==
  /\ r \in joined \ applied
  /\ sent["agent"][r] > 0
  /\ applied' = applied \cup {r}
  /\ UNCHANGED <<storeVars, joined, prepared, announced, streamVars, joinVars, workVars, faults>>

\* dispatch_completion_once: publish, then mark. A dispatcher that fails in
\* between, or another one that has read the row too, publishes again.
DispatchCompletion(r) ==
  /\ r \in applied \ announced
  /\ Publish("completion", r)
  /\ \/ announced' = announced \cup {r} /\ NoFault
     \/ UNCHANGED announced /\ Fault
  /\ UNCHANGED <<storeVars, joined, prepared, applied, joinVars, workVars>>

-----------------------------------------------------------------------------
(* MemoryEnqueueWorker.run_once. Any number of them run: each step is one     *)
(* transaction or publication with the acknowledgement that follows it.       *)

\* MemoryCompletionStore.applied.
ReadCompletion(e) ==
  /\ e \in unacked /\ e.stream = "completion"
  /\ paid' = paid \cup {e.resolution}
  /\ Acknowledge(e)
  /\ UNCHANGED <<storeVars, inputVars, sent, correction, queued, workVars>>

\* MemoryCompletionStore.correction, for a resolution that waits for its refund.
RecordCorrection(e) ==
  /\ e \in unacked /\ e.stream = "agent"
  /\ e.resolution \in joined \cap prepared
  /\ correction' = correction \cup {e.resolution}
  /\ Acknowledge(e)
  /\ UNCHANGED <<storeVars, inputVars, sent, paid, queued, workVars>>

\* Every other resolution is a job at once.
FanOut(e) ==
  /\ e \in unacked /\ e.stream = "agent"
  /\ e.resolution \in prepared \ joined
  /\ LET n == sent["job"][e.resolution] + 1
         job == [stream |-> "job", resolution |-> e.resolution, copy |-> n] IN
     /\ sent' = [sent EXCEPT !["job"][e.resolution] = n]
     /\ \/ unacked' = (unacked \ {e}) \cup {job} /\ NoFault
        \/ unacked' = unacked \cup {job} /\ Fault
  /\ UNCHANGED <<storeVars, inputVars, joinVars, workVars>>

\* The checkpoint holds no input, or not that of this resolution: nothing can be
\* learned.
SkipEvent(e) ==
  /\ e \in unacked /\ e.stream = "agent"
  /\ e.resolution \notin prepared
  /\ Acknowledge(e)
  /\ UNCHANGED <<storeVars, inputVars, sent, joinVars, workVars>>

\* (fault) the job does not wait for the payment.
CorrectedAlone(r) == r \in correction \ queued

\* next_job: both halves are there.
JoinIsReady(r) == r \in (correction \cap paid) \ queued

\* publish_memory_job, then published(); as with every publication, the mark may
\* come too late for a second worker.
QueueJob(r) ==
  /\ JoinIsReady(r)
  /\ Publish("job", r)
  /\ \/ queued' = queued \cup {r} /\ NoFault
     \/ UNCHANGED queued /\ Fault
  /\ UNCHANGED <<storeVars, inputVars, correction, paid, workVars>>

-----------------------------------------------------------------------------
(* MemoryWorker.run_once. *)

Busy(w) == work[w] # None
Job(w) == work[w].entry.resolution
Executing(w, r) == Busy(w) /\ Job(w) = r
At(w, stage) == Busy(w) /\ work[w].stage = stage

Become(w, stage, held) ==
  work' = [work EXCEPT ![w].stage = stage, ![w].held = held]

Leave(w) == work' = [work EXCEPT ![w] = None]

\* A job that has ended is acknowledged.
SkipJob(w, e) ==
  /\ ~Busy(w)
  /\ e \in unacked /\ e.stream = "job"
  /\ journal[e.resolution] \in {"COMPLETED", "FAILED"}
  /\ Acknowledge(e)
  /\ UNCHANGED <<storeVars, inputVars, sent, joinVars, workVars>>

\* (fault) a lease is never taken over.
LeaseFree(r) == journal[r] = None

\* The row is free, or its lease is over: nobody works under it any more, or,
\* as a fault, somebody still does.
LeaseOver(r) == ~\E w \in Workers : journal[r] = w /\ Executing(w, r)

ClaimJob(w, e) ==
  /\ ~Busy(w)
  /\ e \in unacked /\ e.stream = "job"
  /\ journal[e.resolution] \notin {"COMPLETED", "FAILED"}
  /\ IF LeaseOver(e.resolution) THEN NoFault ELSE Fault
  /\ journal' = [journal EXCEPT ![e.resolution] = w]
  /\ work' = [work EXCEPT ![w] = [entry |-> e, stage |-> "load", held |-> None]]
  /\ UNCHANGED <<storeVars, inputVars, streamVars, joinVars, replay, events>>

\* What an earlier attempt has saved decides where this one begins.
Load(w) ==
  /\ At(w, "load")
  /\ LET saved == replay[Job(w)] IN
     CASE saved.event # None -> Become(w, "publish", saved.event)
       [] saved.event = None /\ saved.result # None -> Become(w, "submit", saved.result)
       [] OTHER -> Become(w, "distill", None)
  /\ UNCHANGED <<storeVars, inputVars, streamVars, joinVars, journal, replay, events, faults>>

\* The model: another attempt may get another result, or fail.
Distill(w) ==
  /\ At(w, "distill")
  /\ \/ \E result \in Results : Become(w, "save", result)
     \/ Become(w, "record", "FAILED")
  /\ UNCHANGED <<storeVars, inputVars, streamVars, joinVars, journal, replay, events, faults>>

\* (fault) the last writer wins.
LastWriter(saved, new) == new

\* _save: the first writer wins, and everybody goes on with what is stored.
FirstWriter(saved, new) == IF saved = None THEN new ELSE saved

SaveResult(w) ==
  /\ At(w, "save")
  /\ LET result == FirstWriter(replay[Job(w)].result, work[w].held) IN
     /\ replay' = [replay EXCEPT ![Job(w)].result = result]
     /\ Become(w, "submit", result)
  /\ UNCHANGED <<storeVars, inputVars, streamVars, joinVars, journal, events, faults>>

\* A memory stored with other content is refused for good.
Submit(w) ==
  /\ At(w, "submit")
  /\ \/ /\ work[w].held = "SKIP" \/ Conflicts(Job(w), work[w].held)
        /\ Become(w, "record", IF work[w].held = "SKIP" THEN "SKIP" ELSE "FAILED")
        /\ UNCHANGED storeVars
     \/ /\ work[w].held \in Contents
        /\ SubmitCandidate(Job(w), work[w].held)
        /\ Become(w, "record", work[w].held)
  /\ UNCHANGED <<inputVars, streamVars, joinVars, journal, replay, events, faults>>

\* The answer to the submission is lost: a transport error is retried (Raise),
\* any other one fails the job although the candidate may have been stored.
SubmissionIsLost(w) ==
  /\ At(w, "submit") /\ work[w].held \in Contents
  /\ Fault
  /\ SubmitCandidate(Job(w), work[w].held) \/ UNCHANGED storeVars
  /\ Become(w, "record", "FAILED") \/ UNCHANGED work
  /\ UNCHANGED <<inputVars, streamVars, joinVars, journal, replay, events>>

\* save_event.
RecordEvent(w) ==
  /\ At(w, "record")
  /\ LET outcome == FirstWriter(replay[Job(w)].event, work[w].held) IN
     /\ replay' = [replay EXCEPT ![Job(w)].event = outcome]
     /\ Become(w, "publish", outcome)
  /\ UNCHANGED <<storeVars, inputVars, streamVars, joinVars, journal, events, faults>>

PublishEvent(w) ==
  /\ At(w, "publish")
  /\ events' = events \cup {[resolution |-> Job(w), outcome |-> work[w].held]}
  /\ Become(w, "finish", work[w].held)
  /\ UNCHANGED <<storeVars, inputVars, streamVars, joinVars, journal, replay, faults>>

\* journal.complete or fail, and the acknowledgement. A worker that lost its
\* lease raises, which ends its process.
Finish(w) ==
  /\ At(w, "finish")
  /\ \/ /\ journal[Job(w)] = w
        /\ journal' = [journal EXCEPT ![Job(w)] =
             IF work[w].held = "FAILED" THEN "FAILED" ELSE "COMPLETED"]
        /\ Acknowledge(work[w].entry)
     \/ /\ journal[Job(w)] # w
        /\ UNCHANGED <<journal, unacked, faults>>
  /\ Leave(w)
  /\ UNCHANGED <<storeVars, inputVars, sent, joinVars, replay, events>>

\* journal.abandon.
Release(w) ==
  journal' = IF journal[Job(w)] = w THEN [journal EXCEPT ![Job(w)] = None] ELSE journal

\* A store or a stream fails: the worker gives the job up and goes on, or, if the
\* error cannot be transient, ends and is started again.
Raise(w) ==
  /\ Busy(w) /\ Fault
  /\ Release(w) /\ Leave(w)
  /\ UNCHANGED <<storeVars, inputVars, streamVars, joinVars, replay, events>>

\* The process dies: its row stays until the lease is over.
Die(w) ==
  /\ Busy(w) /\ Fault
  /\ Leave(w)
  /\ UNCHANGED <<storeVars, inputVars, streamVars, joinVars, journal, replay, events>>

-----------------------------------------------------------------------------
Step(w) == \/ Load(w) \/ Distill(w) \/ SaveResult(w) \/ Submit(w)
           \/ RecordEvent(w) \/ PublishEvent(w) \/ Finish(w)

Take(e) == \/ ReadCompletion(e) \/ RecordCorrection(e) \/ FanOut(e) \/ SkipEvent(e)

Next ==
  \/ \E r \in Resolutions : \/ Resolve(r) \/ PayRefund(r)
                            \/ DispatchCompletion(r) \/ QueueJob(r)
  \/ \E e \in unacked : Take(e) \/ \E w \in Workers : SkipJob(w, e) \/ ClaimJob(w, e)
  \/ \E w \in Workers : Step(w) \/ SubmissionIsLost(w) \/ Raise(w) \/ Die(w)
  \/ StoreNext /\ UNCHANGED <<inputVars, streamVars, joinVars, workVars, faults>>

Spec == Init /\ [][Next]_vars

\* The dispatcher and the workers loop for ever and are started again when they
\* end; entries that are idle for 60 s are read again.
Fairness ==
  /\ \A r \in Resolutions : /\ WF_vars(DispatchCompletion(r))
                            /\ WF_vars(QueueJob(r))
  /\ \A e \in Entries : /\ WF_vars(Take(e))
                        /\ WF_vars(\E w \in Workers : LeaseOver(e.resolution) /\ ClaimJob(w, e))
  /\ \A w \in Workers : WF_vars(Step(w))

FairSpec == Spec /\ Fairness

-----------------------------------------------------------------------------
(* Safety. *)

\* docs/spec/04: redelivery and restarts keep the existing result and event. All
\* events about a job are the same, however many workers executed it under one
\* lease after the other or at the same time; one that reports a candidate is
\* about the candidate that is stored, and nothing is stored for a skipped case.
OneOutcome ==
  \A m \in events :
    /\ \A n \in events : n.resolution = m.resolution => n = m
    /\ m.outcome \in Contents => /\ memory[m.resolution] # None
                                 /\ memory[m.resolution].content = m.outcome
    /\ m.outcome = "SKIP" => memory[m.resolution] = None

\* docs/spec/04: what an agent is given as experience is approved at that moment,
\* though governance and maintenance act while the query is being embedded; its
\* vector is of the model the query is; it says what its case's first
\* distillation said; and a v2 refund it stems from has been paid.
ServedIsEarned ==
  [][\A q \in Queriers, m \in MemoryIds : m \in hits'[q] \ hits[q] =>
       /\ InStatus(m, "APPROVED") /\ memory[m].model = Model
       /\ memory[m].content = replay[m].result
       /\ m \in joined => m \in applied]_vars

-----------------------------------------------------------------------------
(* Liveness. *)

\* A resolved case, paid for if it is a v2 refund, is distilled in the end, after
\* whatever faults.
CaseIsLearned ==
  \A r \in Resolutions :
    r \in prepared /\ sent["agent"][r] > 0 /\ (r \in joined => r \in applied)
      ~> \E m \in events : m.resolution = r
=============================================================================
