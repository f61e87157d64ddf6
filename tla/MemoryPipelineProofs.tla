------------------------ MODULE MemoryPipelineProofs ------------------------
(***************************************************************************)
(* Theorems about MemoryPipeline, for any resolutions, workers, queries,   *)
(* memory contents and number of faults.                                   *)
(*                                                                         *)
(* The replay store never forgets the first result and the first event of  *)
(* a job (ReplayIsTrue): every worker on a job, also one that has lost its *)
(* lease, submits and publishes what is stored there (WorkIsTrue), and a   *)
(* memory says what the result of its job says (MemoryIsTrue). No lease is *)
(* needed for that. That a refund was paid is passed on from the outbox of *)
(* the API through streams, join and job to the memory (PaidFirst).        *)
(***************************************************************************)
EXTENDS MemoryPipeline, TLAPS

Stages == {"load", "distill", "save", "submit", "record", "publish", "finish"}
Outcomes == Results \cup {"FAILED"}
Published == [stream : Streams, resolution : Resolutions, copy : Nat]
Works == [entry : Published, stage : Stages, held : Outcomes \cup {None}]
Replays == [result : Results \cup {None}, event : Outcomes \cup {None}]

Typed ==
  /\ memory \in [MemoryIds -> Records \cup {None}]
  /\ joined \subseteq Resolutions /\ applied \subseteq Resolutions
  /\ paid \subseteq Resolutions
  /\ sent \in [Streams -> [Resolutions -> Nat]]
  /\ unacked \subseteq Published
  /\ replay \in [Resolutions -> Replays]
  /\ work \in [Workers -> Works \cup {None}]
  /\ events \subseteq [resolution : Resolutions, outcome : Outcomes]

\* A memory says what its job has saved.
MemoryIsTrue ==
  \A m \in MemoryIds : memory[m] # None => memory[m].content = replay[m].result

\* The saved event is that of the saved result, or a failure.
ReplayIsTrue ==
  \A r \in Resolutions : LET saved == replay[r] IN
    /\ saved.event \in Contents =>
         saved.result = saved.event /\ memory[r] # None
    /\ saved.event = "SKIP" => saved.result = "SKIP"

\* What a worker holds, at each of its steps.
WorkOf(w) == Busy(w) =>
  LET saved == replay[Job(w)] held == work[w].held IN
  /\ work[w].stage = "save" => held \in Results
  /\ work[w].stage = "submit" => held \in Results /\ held = saved.result
  /\ work[w].stage = "record" =>
       /\ held \in Outcomes
       /\ held # "FAILED" => held = saved.result
       /\ held \in Contents => memory[Job(w)] # None
  /\ work[w].stage \in {"publish", "finish"} =>
       held \in Outcomes /\ held = saved.event

WorkIsTrue == \A w \in Workers : WorkOf(w)

EventsAreTrue == \A m \in events : m.outcome = replay[m.resolution].event

\* A refund to wait for has been applied.
Earned(r) == r \in joined => r \in applied

PaidFirst ==
  /\ paid \subseteq applied
  /\ \A e \in unacked : /\ e.stream = "completion" => e.resolution \in applied
                        /\ e.stream = "job" => Earned(e.resolution)
  /\ \A w \in Workers : Busy(w) => Earned(Job(w))
  /\ \A m \in MemoryIds : memory[m] # None => Earned(m)

IInv ==
  /\ Typed
  /\ MemoryIsTrue
  /\ ReplayIsTrue
  /\ WorkIsTrue
  /\ EventsAreTrue
  /\ PaidFirst

-----------------------------------------------------------------------------
(* What the steps leave alone. *)

\* Steps of one worker that executes a job.
WorkerStep(w) == Step(w) \/ SubmissionIsLost(w) \/ Raise(w) \/ Die(w)

\* Steps before a worker: publications, joins and acknowledgements.
FlowStep ==
  \/ \E r \in Resolutions : \/ Resolve(r) \/ PayRefund(r)
                            \/ DispatchCompletion(r) \/ QueueJob(r)
  \/ \E e \in unacked : Take(e) \/ \E w \in Workers : SkipJob(w, e)

LEMMA Steps ==
  ASSUME [Next]_vars
  PROVE  \/ FlowStep
         \/ \E e \in unacked, w \in Workers : ClaimJob(w, e)
         \/ \E w \in Workers : WorkerStep(w)
         \/ StoreNext /\ UNCHANGED <<inputVars, streamVars, joinVars, workVars>>
         \/ UNCHANGED vars
  BY DEF Next, FlowStep, WorkerStep

LEMMA FlowLeaves ==
  ASSUME FlowStep
  PROVE  UNCHANGED <<storeVars, joined, workVars>>
  BY DEF FlowStep, Resolve, PayRefund, DispatchCompletion, QueueJob, Take,
     ReadCompletion, RecordCorrection, FanOut, SkipEvent, SkipJob, inputVars, joinVars

LEMMA ClaimLeaves ==
  ASSUME NEW e \in unacked, NEW w \in Workers, ClaimJob(w, e)
  PROVE  /\ UNCHANGED <<storeVars, inputVars, streamVars, joinVars, replay, events>>
         /\ work' = [work EXCEPT ![w] = [entry |-> e, stage |-> "load", held |-> None]]
         /\ e.stream = "job"
  BY DEF ClaimJob

LEMMA WorkerLeaves ==
  ASSUME NEW w \in Workers, WorkerStep(w)
  PROVE  /\ Busy(w) /\ UNCHANGED <<matching, hits, inputVars, joinVars, sent>>
         /\ unacked' \subseteq unacked
  BY DEF WorkerStep, Step, Load, Distill, SaveResult, Submit, SubmissionIsLost,
     RecordEvent, PublishEvent, Finish, Raise, Die, At, storeVars, SubmitCandidate,
     Acknowledge, streamVars

\* A memory keeps its content, whatever governance and maintenance do.
LEMMA StoreKeepsContent ==
  ASSUME Typed, StoreNext
  PROVE  /\ memory' \in [MemoryIds -> Records \cup {None}]
         /\ \A m \in MemoryIds : /\ memory'[m] # None <=> memory[m] # None
                                 /\ memory[m] # None =>
                                      memory'[m].content = memory[m].content
<1> DEFINE Kept(m) == /\ memory'[m] # None <=> memory[m] # None
                      /\ memory[m] # None => memory'[m].content = memory[m].content
<1>1. ASSUME NEW m \in MemoryIds, NEW status \in {"APPROVED", "RETIRED"}, memory[m] # None,
             memory' = [memory EXCEPT ![m].status = status]
      PROVE  memory' \in [MemoryIds -> Records \cup {None}] /\ \A n \in MemoryIds : Kept(n)
  <2>1. memory[m] \in Records
    BY <1>1 DEF Typed
  <2>2. [memory[m] EXCEPT !.status = status] \in Records
    BY <2>1 DEF Records
  <2>3. [memory[m] EXCEPT !.status = status] # None
        /\ [memory[m] EXCEPT !.status = status].content = memory[m].content
    BY <2>1, <2>2, MemoryAssumption DEF Records
  <2>4. memory' = [memory EXCEPT ![m] = [memory[m] EXCEPT !.status = status]]
    BY <1>1
  <2> QED
    BY <1>1, <2>2, <2>3, <2>4 DEF Typed
<1>2. ASSUME NEW m \in MemoryIds, NEW model \in Models, Backfill(m, model)
      PROVE  memory' \in [MemoryIds -> Records \cup {None}] /\ \A n \in MemoryIds : Kept(n)
  <2>1. memory[m] \in Records
    BY <1>2 DEF Typed, Backfill
  <2>2. [memory[m] EXCEPT !.model = model] \in Records
    BY <2>1 DEF Records
  <2>3. [memory[m] EXCEPT !.model = model] # None
        /\ [memory[m] EXCEPT !.model = model].content = memory[m].content
    BY <2>1, <2>2, MemoryAssumption DEF Records
  <2>4. memory' = [memory EXCEPT ![m] = [memory[m] EXCEPT !.model = model]]
        /\ memory[m] # None
    BY <1>2 DEF Backfill
  <2> QED
    BY <2>2, <2>3, <2>4 DEF Typed
<1>3. ASSUME NEW q \in Queriers, BeginQuery(q) \/ FailQuery(q) \/ AnswerQuery(q)
      PROVE  memory' = memory
  BY <1>3 DEF BeginQuery, FailQuery, AnswerQuery
<1> QED
  BY <1>1, <1>2, <1>3 DEF StoreNext, Approve, Retire, InStatus, Typed

\* A candidate that is accepted is stored with that content, if it was not before.
LEMMA SubmitStores ==
  ASSUME Typed, NEW m \in MemoryIds, NEW content \in Contents,
         SubmitCandidate(m, content)
  PROVE  /\ memory' \in [MemoryIds -> Records \cup {None}]
         /\ memory'[m] # None /\ memory'[m].content = content
         /\ \A n \in MemoryIds : memory[n] # None => memory'[n] = memory[n]
         /\ \A n \in MemoryIds \ {m} : memory'[n] = memory[n]
<1>1. Candidate(content) \in Records /\ Candidate(content).content = content
  BY MemoryAssumption DEF Candidate, Records
<1>2. Candidate(content) # None
  BY <1>1, MemoryAssumption
<1>3. CASE memory[m] = None
  BY <1>1, <1>2, <1>3 DEF SubmitCandidate, Typed
<1>4. CASE memory[m] # None
  BY <1>4 DEF SubmitCandidate, Conflicts, Typed
<1> QED
  BY <1>3, <1>4

-----------------------------------------------------------------------------
(* The types. *)

LEMMA PublishKeeps ==
  ASSUME Typed, NEW stream \in Streams, NEW r \in Resolutions, Publish(stream, r)
  PROVE  /\ sent' \in [Streams -> [Resolutions -> Nat]]
         /\ unacked' \subseteq Published
         /\ \A e \in unacked' \ unacked : e.stream = stream /\ e.resolution = r
<1> DEFINE n == sent[stream][r] + 1
           e == [stream |-> stream, resolution |-> r, copy |-> n]
<1>1. n \in Nat /\ e \in Published
  BY DEF Typed, Published
<1>2. sent' = [sent EXCEPT ![stream] = [sent[stream] EXCEPT ![r] = n]]
      /\ unacked' = unacked \cup {e}
  BY DEF Publish
<1> QED
  BY <1>1, <1>2 DEF Typed

LEMMA FlowTyped ==
  ASSUME Typed, FlowStep
  PROVE  /\ applied' \subseteq Resolutions /\ paid' \subseteq Resolutions
         /\ sent' \in [Streams -> [Resolutions -> Nat]]
         /\ unacked' \subseteq Published
<1> DEFINE Fine == /\ applied' \subseteq Resolutions /\ paid' \subseteq Resolutions
                   /\ sent' \in [Streams -> [Resolutions -> Nat]]
                   /\ unacked' \subseteq Published
<1>0. {"agent", "completion", "job"} \subseteq Streams
  BY DEF Streams
<1>1. ASSUME NEW r \in Resolutions, Resolve(r) \/ DispatchCompletion(r) \/ QueueJob(r)
      PROVE  Fine
  BY <1>0, <1>1, PublishKeeps
  DEF Resolve, DispatchCompletion, QueueJob, inputVars, joinVars, Typed
<1>2. ASSUME NEW r \in Resolutions, PayRefund(r) PROVE Fine
  BY <1>2 DEF PayRefund, streamVars, joinVars, Typed
<1>3. ASSUME NEW e \in unacked,
             \/ ReadCompletion(e) \/ RecordCorrection(e) \/ SkipEvent(e)
             \/ \E w \in Workers : SkipJob(w, e)
      PROVE  Fine
  <2>1. e.resolution \in Resolutions
    BY DEF Typed, Published
  <2> QED
    BY <1>3, <2>1 DEF ReadCompletion, RecordCorrection, SkipEvent, SkipJob, Acknowledge,
       inputVars, joinVars, Typed
<1>4. ASSUME NEW e \in unacked, FanOut(e) PROVE Fine
  <2> DEFINE r == e.resolution
             n == sent["job"][r] + 1
             job == [stream |-> "job", resolution |-> r, copy |-> n]
  <2>1. r \in Resolutions /\ n \in Nat
    BY <1>0 DEF Typed, Published
  <2>2. job \in Published
    BY <1>0, <2>1 DEF Published
  <2>3. /\ sent' = [sent EXCEPT !["job"] = [sent["job"] EXCEPT ![r] = n]]
        /\ unacked' \subseteq unacked \cup {job}
        /\ UNCHANGED <<inputVars, joinVars>>
    BY <1>4 DEF FanOut
  <2> QED
    BY <1>0, <2>1, <2>2, <2>3 DEF Typed, inputVars, joinVars
<1> QED
  BY <1>1, <1>2, <1>3, <1>4 DEF FlowStep, Take

LEMMA BecomeTyped ==
  ASSUME Typed, NEW w \in Workers, Busy(w), NEW stage \in Stages,
         NEW held \in Outcomes \cup {None}, Become(w, stage, held)
  PROVE  /\ work' \in [Workers -> Works \cup {None}]
         /\ work'[w].entry = work[w].entry
         /\ work'[w].stage = stage /\ work'[w].held = held
         /\ \A v \in Workers \ {w} : work'[v] = work[v]
<1>1. work[w] \in Works
  BY DEF Typed, Busy
<1> DEFINE new == [work[w] EXCEPT !.stage = stage, !.held = held]
<1>2. /\ new \in Works /\ new.entry = work[w].entry
      /\ new.stage = stage /\ new.held = held
  BY <1>1 DEF Works
<1>3. work' = [work EXCEPT ![w] = new]
  BY DEF Become
<1> QED
  BY <1>2, <1>3 DEF Typed

\* A job is about a resolution, whose memory has its id.
LEMMA JobTyped ==
  ASSUME Typed, NEW w \in Workers, Busy(w)
  PROVE  /\ work[w] \in Works /\ Job(w) \in Resolutions /\ Job(w) \in MemoryIds
         /\ replay[Job(w)] \in Replays
<1>1. work[w] \in Works
  BY DEF Typed, Busy
<1>2. Job(w) \in Resolutions
  BY <1>1 DEF Works, Published, Job
<1> QED
  BY <1>1, <1>2, PipelineAssumption DEF Typed

-----------------------------------------------------------------------------
(* A worker and its job. *)

\* Nothing that is saved is changed.
Grows ==
  \A r \in Resolutions :
    /\ replay[r].result # None => replay'[r].result = replay[r].result
    /\ replay[r].event # None => replay'[r].event = replay[r].event
    /\ memory[r] # None => memory'[r] # None /\ memory'[r].content = memory[r].content

LEMMA ResultsAre ==
  /\ None \notin Outcomes /\ Results \subseteq Outcomes /\ "FAILED" \notin Results
  /\ "SKIP" \notin Contents /\ "SKIP" \in Results /\ Contents \subseteq Results
  /\ Outcomes = Contents \cup {"SKIP", "FAILED"}
  BY PipelineAssumption, MemoryAssumption DEF Outcomes, Results

\* What the other workers hold stays true.
LEMMA OthersKept ==
  ASSUME IInv, Grows, NEW v \in Workers, work'[v] = work[v]
  PROVE  WorkOf(v)'
<1> SUFFICES ASSUME Busy(v)' PROVE WorkOf(v)'
  BY DEF WorkOf
<1>1. Busy(v) /\ Job(v)' = Job(v) /\ Job(v) \in Resolutions /\ WorkOf(v)
  BY JobTyped DEF Busy, Job, IInv, WorkIsTrue
<1> QED
  BY <1>1, ResultsAre DEF Grows, WorkOf

\* The job is given up, finished, or goes on in the same way.
LEMMA LeaveKeeps ==
  ASSUME IInv, NEW w \in Workers, Leave(w), UNCHANGED <<memory, replay, events>>
  PROVE  /\ work' \in [Workers -> Works \cup {None}]
         /\ \A v \in Workers : WorkOf(v)'
<1>1. work' \in [Workers -> Works \cup {None}] /\ work'[w] = None
      /\ \A v \in Workers \ {w} : work'[v] = work[v]
  BY DEF IInv, Typed, Leave
<1>2. Grows
  BY DEF Grows
<1>3. WorkOf(w)'
  BY <1>1 DEF WorkOf, Busy
<1> QED
  BY <1>1, <1>2, <1>3, OthersKept

LEMMA BecomeKeeps ==
  ASSUME IInv, NEW w \in Workers, Busy(w), Grows,
         NEW stage \in Stages, NEW held \in Outcomes \cup {None},
         Become(w, stage, held),
         LET saved == replay'[Job(w)] IN
         /\ stage = "save" => held \in Results
         /\ stage = "submit" => held \in Results /\ held = saved.result
         /\ stage = "record" =>
              /\ held \in Outcomes
              /\ held # "FAILED" => held = saved.result
              /\ held \in Contents => memory'[Job(w)] # None
         /\ stage \in {"publish", "finish"} =>
              held \in Outcomes /\ held = saved.event
  PROVE  /\ work' \in [Workers -> Works \cup {None}]
         /\ \A v \in Workers : WorkOf(v)'
<1>1. /\ work' \in [Workers -> Works \cup {None}]
      /\ work'[w].entry = work[w].entry
      /\ work'[w].stage = stage /\ work'[w].held = held
      /\ \A v \in Workers \ {w} : work'[v] = work[v]
  BY BecomeTyped DEF IInv
<1>2. WorkOf(w)'
  BY <1>1 DEF WorkOf, Job
<1> QED
  BY <1>1, <1>2, OthersKept

\* The first result or event of a job is saved.
LEMMA SaveKeeps ==
  ASSUME IInv, NEW r \in Resolutions,
         \/ \E result \in Results : /\ replay[r].result \in {None, result}
                                   /\ replay' = [replay EXCEPT ![r].result = result]
         \/ \E event \in Outcomes : /\ replay[r].event \in {None, event}
                                   /\ replay' = [replay EXCEPT ![r].event = event]
  PROVE  /\ replay' \in [Resolutions -> Replays]
         /\ \A s \in Resolutions :
              /\ replay[s].result # None => replay'[s].result = replay[s].result
              /\ replay[s].event # None => replay'[s].event = replay[s].event
         /\ \A s \in Resolutions \ {r} : replay'[s] = replay[s]
<1>0. replay[r] \in Replays /\ replay \in [Resolutions -> Replays]
  BY DEF IInv, Typed
<1>1. ASSUME NEW result \in Results, replay[r].result \in {None, result},
             replay' = [replay EXCEPT ![r].result = result]
      PROVE  /\ replay'[r] \in Replays /\ replay'[r].event = replay[r].event
             /\ replay[r].result # None => replay'[r].result = replay[r].result
             /\ replay' = [replay EXCEPT ![r] = replay'[r]]
  BY <1>0, <1>1 DEF Replays
<1>2. ASSUME NEW event \in Outcomes, replay[r].event \in {None, event},
             replay' = [replay EXCEPT ![r].event = event]
      PROVE  /\ replay'[r] \in Replays /\ replay'[r].result = replay[r].result
             /\ replay[r].event # None => replay'[r].event = replay[r].event
             /\ replay' = [replay EXCEPT ![r] = replay'[r]]
  BY <1>0, <1>2 DEF Replays
<1> QED
  BY <1>0, <1>1, <1>2

\* All but PaidFirst, in the order in which WorkerStep has its steps.
Core == Typed /\ MemoryIsTrue /\ ReplayIsTrue /\ WorkIsTrue /\ EventsAreTrue

\* A step that stores and saves nothing.
LEMMA NothingSaved ==
  ASSUME IInv, NEW w \in Workers, WorkerStep(w), UNCHANGED <<memory, replay, events>>,
         work' \in [Workers -> Works \cup {None}], \A v \in Workers : WorkOf(v)'
  PROVE  Core'
<1>1. UNCHANGED <<joined, applied, paid, sent>> /\ unacked' \subseteq unacked
  BY WorkerLeaves DEF inputVars, joinVars
<1> QED
  BY <1>1 DEF IInv, Core, Typed, MemoryIsTrue, ReplayIsTrue, WorkIsTrue, EventsAreTrue

\* A candidate is submitted by a worker that holds the result of its job.
LEMMA SubmitKeeps ==
  ASSUME IInv, NEW w \in Workers, At(w, "submit"), work[w].held \in Contents,
         SubmitCandidate(Job(w), work[w].held), UNCHANGED <<replay>>
  PROVE  /\ Grows
         /\ memory' \in [MemoryIds -> Records \cup {None}] /\ memory'[Job(w)] # None
         /\ MemoryIsTrue' /\ ReplayIsTrue'
<1>1. Job(w) \in MemoryIds /\ Busy(w)
  BY JobTyped DEF At, IInv
<1>2. work[w].held = replay[Job(w)].result
  BY DEF IInv, WorkIsTrue, WorkOf, At
<1>3. /\ memory' \in [MemoryIds -> Records \cup {None}]
      /\ memory'[Job(w)] # None /\ memory'[Job(w)].content = work[w].held
      /\ \A n \in MemoryIds : memory[n] # None => memory'[n] = memory[n]
      /\ \A n \in MemoryIds \ {Job(w)} : memory'[n] = memory[n]
  BY <1>1, SubmitStores DEF IInv
<1>4. Grows
  BY <1>3, PipelineAssumption DEF Grows
<1>5. MemoryIsTrue'
  BY <1>2, <1>3 DEF IInv, MemoryIsTrue
<1>6. ReplayIsTrue'
  BY <1>4 DEF IInv, ReplayIsTrue, Grows
<1> QED
  BY <1>3, <1>4, <1>5, <1>6

LEMMA WorkerKeeps == ASSUME IInv, NEW w \in Workers, WorkerStep(w) PROVE Core'
<1> DEFINE r == Job(w)
           saved == replay[r]
           held == work[w].held
<1>0. /\ Busy(w) /\ UNCHANGED <<joined, applied, paid, sent>>
      /\ unacked' \subseteq unacked
      /\ work[w] \in Works /\ r \in Resolutions /\ r \in MemoryIds
      /\ saved \in Replays /\ WorkOf(w)
  BY WorkerLeaves, JobTyped DEF IInv, WorkIsTrue, inputVars, joinVars
<1>1. CASE Leave(w) /\ UNCHANGED <<memory, replay, events>>
  BY <1>1, LeaveKeeps, NothingSaved
<1>2. ASSUME UNCHANGED <<memory, replay, events>>,
             NEW stage \in Stages, NEW new \in Outcomes \cup {None},
             Become(w, stage, new),
             /\ stage = "save" => new \in Results
             /\ stage = "submit" => new \in Results /\ new = saved.result
             /\ stage = "record" => new = "FAILED" \/ (new = "SKIP" /\ new = saved.result)
             /\ stage = "publish" => new \in Outcomes /\ new = saved.event
             /\ stage # "finish"
      PROVE  Core'
  <2>1. Grows
    BY <1>2 DEF Grows
  <2> HIDE DEF r
  <2> QED
    BY <1>0, <1>2, <2>1, BecomeKeeps, NothingSaved, ResultsAre DEF r
<1>3. ASSUME UNCHANGED <<memory, replay, events>>, Become(w, "record", "FAILED")
       PROVE  Core'
  <2>1. "record" \in Stages /\ "FAILED" \in Outcomes \cup {None}
    BY ResultsAre DEF Stages
  <2>2. Grows
    BY <1>3 DEF Grows
  <2>3. "FAILED" \notin Contents
    BY PipelineAssumption
  <2>4. work' \in [Workers -> Works \cup {None}] /\ \A v \in Workers : WorkOf(v)'
    BY <1>0, <1>3, <2>1, <2>2, <2>3, BecomeKeeps, ResultsAre
  <2> QED
    BY <1>0, <1>3, <2>4, NothingSaved
<1>4. CASE Load(w)
  <2>1. CASE saved.event # None
    BY <1>0, <1>2, <1>4, <2>1 DEF Load, Stages, storeVars, Replays
  <2>2. CASE saved.event = None /\ saved.result # None
    BY <1>0, <1>2, <1>4, <2>2, ResultsAre DEF Load, Stages, storeVars, Replays
  <2>3. CASE saved.event = None /\ saved.result = None
    BY <1>0, <1>2, <1>4, <2>3 DEF Load, Stages, storeVars
  <2> QED
    BY <2>1, <2>2, <2>3
<1>5. CASE Distill(w)
  <2>1. UNCHANGED <<memory, replay, events>>
    BY <1>5 DEF Distill, storeVars
  <2>2. ASSUME NEW result \in Results, Become(w, "save", result) PROVE Core'
    <3>1. "save" \in Stages /\ result \in Outcomes \cup {None}
      BY ResultsAre DEF Stages
    <3> QED
      BY <1>2, <2>1, <2>2, <3>1
  <2>3. CASE Become(w, "record", "FAILED")
    BY <1>3, <2>1, <2>3
  <2> QED
    BY <1>5, <2>2, <2>3 DEF Distill
<1>6. CASE SaveResult(w)
  <2> DEFINE new == FirstWriter(saved.result, held)
  <2>1. /\ new \in Results /\ saved.result \in {None, new} /\ new # None
        /\ replay' = [replay EXCEPT ![r].result = new]
        /\ Become(w, "submit", new) /\ UNCHANGED <<memory, events>>
    BY <1>0, <1>6, ResultsAre DEF SaveResult, FirstWriter, WorkOf, At, Replays, storeVars
  <2> HIDE DEF new
  <2>2. /\ replay' \in [Resolutions -> Replays]
        /\ \A s \in Resolutions :
             /\ replay[s].result # None => replay'[s].result = replay[s].result
             /\ replay[s].event # None => replay'[s].event = replay[s].event
        /\ \A s \in Resolutions \ {r} : replay'[s] = replay[s]
    BY <1>0, <2>1, SaveKeeps
  <2>3. replay'[r].result = new /\ replay'[r].event = saved.event
    BY <1>0, <2>1 DEF IInv, Typed, Replays
  <2>4. Grows
    BY <2>1, <2>2 DEF Grows
  <2>5. work' \in [Workers -> Works \cup {None}] /\ WorkIsTrue'
    BY <1>0, <2>1, <2>3, <2>4, BecomeKeeps, ResultsAre DEF Stages, WorkIsTrue
  <2>6. MemoryIsTrue'
    BY <2>1, <2>2, MemoryAssumption, PipelineAssumption DEF IInv, MemoryIsTrue, Typed, Records
  <2>7. ReplayIsTrue'
    BY <2>1, <2>2, <2>3, ResultsAre DEF IInv, ReplayIsTrue
  <2>8. EventsAreTrue'
    <3>1. \A m \in events : m.resolution \in Resolutions
      BY DEF IInv, Typed
    <3>2. \A s \in Resolutions : replay'[s].event = replay[s].event
      BY <2>2, <2>3
    <3> QED
      BY <2>1, <3>1, <3>2 DEF IInv, EventsAreTrue
  <2>9. Typed'
    BY <1>0, <2>1, <2>2, <2>5 DEF IInv, Typed
  <2> QED
    BY <2>5, <2>6, <2>7, <2>8, <2>9 DEF Core
<1>7. ASSUME At(w, "submit"), held \in Contents, SubmitCandidate(r, held),
             NEW new \in {held, "FAILED"},
             Become(w, "record", new) \/ UNCHANGED work,
             UNCHANGED <<replay, events>>
      PROVE  Core'
  <2>1. /\ Grows
        /\ memory' \in [MemoryIds -> Records \cup {None}] /\ memory'[r] # None
        /\ MemoryIsTrue' /\ ReplayIsTrue'
    BY <1>7, SubmitKeeps
  <2>2. held = saved.result
    BY <1>0, <1>7 DEF WorkOf, At
  <2>3. work' \in [Workers -> Works \cup {None}] /\ WorkIsTrue'
    <3>1. CASE Become(w, "record", new)
      <4>1. new \in Outcomes
        BY <1>7, ResultsAre
      <4> QED
        BY <1>0, <1>7, <2>1, <2>2, <3>1, <4>1, BecomeKeeps DEF Stages, WorkIsTrue
    <3>2. CASE UNCHANGED work
      BY <2>1, <3>2, OthersKept DEF IInv, Typed, WorkIsTrue
    <3> QED
      BY <1>7, <3>1, <3>2
  <2>4. EventsAreTrue' /\ Typed'
    BY <1>0, <1>7, <2>1, <2>3 DEF IInv, EventsAreTrue, Typed
  <2> QED
    BY <2>1, <2>3, <2>4 DEF Core
<1>8. CASE Submit(w)
  <2>1. held \in Results /\ held = saved.result
    BY <1>0, <1>8 DEF WorkOf, Submit, At
  <2>2. CASE /\ held = "SKIP" \/ Conflicts(r, held)
             /\ Become(w, "record", IF held = "SKIP" THEN "SKIP" ELSE "FAILED")
             /\ UNCHANGED storeVars
    <3>1. UNCHANGED <<memory, replay, events>>
      BY <1>8, <2>2 DEF Submit, storeVars
    <3>2. CASE held = "SKIP" /\ Become(w, "record", "SKIP")
      <4>1. "record" \in Stages /\ "SKIP" \in Outcomes \cup {None}
        BY ResultsAre DEF Stages
      <4> QED
        BY <1>2, <2>1, <3>1, <3>2, <4>1
    <3>3. CASE Become(w, "record", "FAILED")
      BY <1>3, <3>1, <3>3
    <3> QED
      BY <2>2, <3>2, <3>3
  <2>3. CASE held \in Contents /\ SubmitCandidate(r, held) /\ Become(w, "record", held)
    BY <1>7, <1>8, <2>3 DEF Submit
  <2> QED
    BY <1>8, <2>2, <2>3 DEF Submit
<1>9. CASE SubmissionIsLost(w)
  <2>1. CASE SubmitCandidate(r, held)
    BY <1>7, <1>9, <2>1 DEF SubmissionIsLost
  <2>2. CASE UNCHANGED storeVars
    <3>1. CASE Become(w, "record", "FAILED")
      BY <1>3, <1>9, <2>2, <3>1 DEF SubmissionIsLost, storeVars
    <3>2. CASE UNCHANGED work
      <4>1. Grows /\ UNCHANGED <<memory, replay, events>>
        BY <1>9, <2>2 DEF Grows, SubmissionIsLost, storeVars
      <4> QED
        BY <3>2, <4>1, OthersKept, NothingSaved DEF IInv, Typed
    <3> QED
      BY <1>9, <3>1, <3>2 DEF SubmissionIsLost
  <2> QED
    BY <1>9, <2>1, <2>2 DEF SubmissionIsLost
<1>10. CASE RecordEvent(w)
  <2> DEFINE new == FirstWriter(saved.event, held)
  <2>1. /\ new \in Outcomes /\ saved.event \in {None, new} /\ new # None
        /\ replay' = [replay EXCEPT ![r].event = new]
        /\ Become(w, "publish", new) /\ UNCHANGED <<memory, events>>
        /\ new \in {saved.event, held}
    BY <1>0, <1>10, ResultsAre DEF RecordEvent, FirstWriter, WorkOf, At, Replays, storeVars
  <2> HIDE DEF new
  <2>2. /\ replay' \in [Resolutions -> Replays]
        /\ \A s \in Resolutions :
             /\ replay[s].result # None => replay'[s].result = replay[s].result
             /\ replay[s].event # None => replay'[s].event = replay[s].event
        /\ \A s \in Resolutions \ {r} : replay'[s] = replay[s]
    BY <1>0, <2>1, SaveKeeps
  <2>3. replay'[r].event = new /\ replay'[r].result = saved.result
    BY <1>0, <2>1 DEF IInv, Typed, Replays
  <2>4. Grows
    BY <2>1, <2>2 DEF Grows
  <2>5. work' \in [Workers -> Works \cup {None}] /\ WorkIsTrue'
    BY <1>0, <2>1, <2>3, <2>4, BecomeKeeps, ResultsAre DEF Stages, WorkIsTrue
  <2>6. MemoryIsTrue'
    BY <2>1, <2>2, <2>3, PipelineAssumption DEF IInv, MemoryIsTrue
  <2>7. ReplayIsTrue'
    <3>1. /\ new \in Contents => saved.result = new /\ memory[r] # None
          /\ new = "SKIP" => saved.result = new
      <4>1. CASE new = saved.event
        BY <1>0, <4>1 DEF IInv, ReplayIsTrue
      <4>2. CASE new = held
        BY <1>0, <1>10, <4>2, ResultsAre DEF WorkOf, RecordEvent, At
      <4> QED
        BY <2>1, <4>1, <4>2
    <3> QED
      BY <2>1, <2>2, <2>3, <3>1 DEF IInv, ReplayIsTrue
  <2>8. EventsAreTrue'
    <3>1. \A m \in events : m.resolution \in Resolutions /\ m.outcome # None
      BY ResultsAre DEF IInv, Typed
    <3> QED
      BY <2>1, <2>2, <3>1 DEF IInv, EventsAreTrue
  <2>9. Typed'
    BY <1>0, <2>1, <2>2, <2>5 DEF IInv, Typed
  <2> QED
    BY <2>5, <2>6, <2>7, <2>8, <2>9 DEF Core
<1>11. CASE PublishEvent(w)
  <2>1. held \in Outcomes /\ held = saved.event
    BY <1>0, <1>11 DEF WorkOf, PublishEvent, At
  <2>2. /\ events' = events \cup {[resolution |-> r, outcome |-> held]}
        /\ Become(w, "finish", held) /\ UNCHANGED <<memory, replay>>
    BY <1>11 DEF PublishEvent, storeVars
  <2>3. Grows
    BY <2>2 DEF Grows
  <2>4. work' \in [Workers -> Works \cup {None}] /\ WorkIsTrue'
    BY <1>0, <2>1, <2>2, <2>3, BecomeKeeps DEF Stages, WorkIsTrue
  <2>5. EventsAreTrue' /\ MemoryIsTrue' /\ ReplayIsTrue'
    BY <2>1, <2>2 DEF IInv, EventsAreTrue, MemoryIsTrue, ReplayIsTrue
  <2>6. Typed'
    BY <1>0, <2>1, <2>2, <2>4 DEF IInv, Typed
  <2> QED
    BY <2>4, <2>5, <2>6 DEF Core
<1>12. CASE Finish(w) \/ Raise(w) \/ Die(w)
  BY <1>1, <1>12 DEF Finish, Raise, Die, storeVars
<1> QED
  BY <1>4, <1>5, <1>6, <1>8, <1>9, <1>10, <1>11, <1>12 DEF WorkerStep, Step

-----------------------------------------------------------------------------
(* The other steps. *)

\* Steps that touch neither what is saved nor the jobs of workers.
LEMMA CoreRests ==
  ASSUME IInv, UNCHANGED <<storeVars, joined, replay, work, events>>,
         applied' \subseteq Resolutions, paid' \subseteq Resolutions,
         sent' \in [Streams -> [Resolutions -> Nat]], unacked' \subseteq Published
  PROVE  Core'
<1>1. Typed' /\ MemoryIsTrue' /\ ReplayIsTrue' /\ EventsAreTrue'
  BY DEF IInv, Typed, MemoryIsTrue, ReplayIsTrue, EventsAreTrue, storeVars
<1>2. Grows
  BY DEF Grows, storeVars
<1> QED
  BY <1>1, <1>2, OthersKept DEF Core, WorkIsTrue

LEMMA ClaimKeeps ==
  ASSUME IInv, NEW e \in unacked, NEW w \in Workers, ClaimJob(w, e)
  PROVE  Core' /\ PaidFirst'
<1>1. /\ UNCHANGED <<memory, joined, applied, paid, sent, unacked, replay, events>>
      /\ work' = [work EXCEPT ![w] = [entry |-> e, stage |-> "load", held |-> None]]
      /\ e.stream = "job"
  BY ClaimLeaves DEF storeVars, inputVars, streamVars, joinVars
<1> DEFINE new == [entry |-> e, stage |-> "load", held |-> None]
<1>2. new \in Works /\ new.stage = "load" /\ new.entry = e /\ e \in Published
  BY DEF Works, Stages, IInv, Typed
<1>3. work' \in [Workers -> Works \cup {None}] /\ work'[w] = new
      /\ \A v \in Workers \ {w} : work'[v] = work[v]
  BY <1>1, <1>2 DEF IInv, Typed
<1>4. Grows
  BY <1>1 DEF Grows
<1>5. WorkOf(w)'
  BY <1>2, <1>3 DEF WorkOf
<1>6. WorkIsTrue'
  BY <1>3, <1>4, <1>5, OthersKept DEF WorkIsTrue
<1>7. Typed' /\ MemoryIsTrue' /\ ReplayIsTrue' /\ EventsAreTrue'
  BY <1>1, <1>3 DEF IInv, Typed, MemoryIsTrue, ReplayIsTrue, EventsAreTrue
<1>8. Earned(e.resolution)
  BY <1>1 DEF IInv, PaidFirst
<1>9. PaidFirst'
  BY <1>1, <1>2, <1>3, <1>8 DEF IInv, PaidFirst, Busy, Job, Earned
<1> QED
  BY <1>6, <1>7, <1>9 DEF Core

LEMMA StoreKeeps ==
  ASSUME IInv, StoreNext, UNCHANGED <<inputVars, streamVars, joinVars, workVars>>
  PROVE  Core' /\ PaidFirst'
<1>1. UNCHANGED <<joined, applied, paid, sent, unacked, replay, work, events>>
  BY DEF inputVars, streamVars, joinVars, workVars
<1>2. /\ memory' \in [MemoryIds -> Records \cup {None}]
      /\ \A m \in MemoryIds : /\ memory'[m] # None <=> memory[m] # None
                              /\ memory[m] # None =>
                                   memory'[m].content = memory[m].content
  BY StoreKeepsContent DEF IInv
<1>3. Typed' /\ EventsAreTrue'
  BY <1>1, <1>2 DEF IInv, Typed, EventsAreTrue
<1>4. MemoryIsTrue'
  BY <1>1, <1>2 DEF IInv, MemoryIsTrue
<1>5. ReplayIsTrue'
  BY <1>1, <1>2, PipelineAssumption DEF IInv, ReplayIsTrue
<1>6. Grows
  BY <1>1, <1>2, PipelineAssumption DEF Grows
<1>7. WorkIsTrue'
  BY <1>1, <1>6, OthersKept DEF WorkIsTrue
<1>8. PaidFirst'
  BY <1>1, <1>2 DEF IInv, PaidFirst, Busy, Job, Earned
<1> QED
  BY <1>3, <1>4, <1>5, <1>7, <1>8 DEF Core

\* A refund that is announced was applied, a job is queued for what is paid or
\* need not be, and a worker has its job from the stream.
LEMMA PaidFirstKept == ASSUME IInv, [Next]_vars PROVE PaidFirst'
<1>0. Typed /\ PaidFirst
  BY DEF IInv
<1>1. ASSUME NEW r \in Resolutions, PayRefund(r) PROVE PaidFirst'
  BY <1>0, <1>1 DEF PayRefund, storeVars, streamVars, joinVars, workVars, PaidFirst,
     Busy, Job, Earned
<1>2. ASSUME UNCHANGED <<memory, work, joined, applied>>, paid' \subseteq applied,
             \A e \in unacked' \ unacked :
               /\ e.stream = "completion" => e.resolution \in applied
               /\ e.stream = "job" => Earned(e.resolution)
      PROVE  PaidFirst'
  BY <1>0, <1>2 DEF PaidFirst, Busy, Job, Earned
<1>3. CASE FlowStep
  <2>1. UNCHANGED <<memory, work, joined>>
    BY <1>3, FlowLeaves DEF storeVars, workVars
  <2>2. ASSUME NEW r \in Resolutions, Resolve(r) \/ DispatchCompletion(r) \/ QueueJob(r)
        PROVE  PaidFirst'
    <3>1. UNCHANGED <<applied, paid>>
      BY <2>2 DEF Resolve, DispatchCompletion, QueueJob, inputVars, joinVars
    <3>2. ASSUME NEW e \in unacked' \ unacked
          PROVE  /\ e.stream = "completion" => e.resolution \in applied
                 /\ e.stream = "job" => Earned(e.resolution)
      <4>1. CASE Resolve(r)
        <5>1. e.stream = "agent"
          BY <1>0, <4>1, PublishKeeps DEF Resolve, Streams
        <5> QED
          BY <5>1
      <4>2. CASE DispatchCompletion(r)
        <5>1. e.stream = "completion" /\ e.resolution = r /\ r \in applied
          BY <1>0, <4>2, PublishKeeps DEF DispatchCompletion, Streams
        <5> QED
          BY <5>1
      <4>3. CASE QueueJob(r)
        <5>1. e.stream = "job" /\ e.resolution = r /\ r \in paid
          BY <1>0, <4>3, PublishKeeps DEF QueueJob, JoinIsReady, Streams
        <5> QED
          BY <1>0, <5>1 DEF PaidFirst, Earned
      <4> QED
        BY <2>2, <4>1, <4>2, <4>3
    <3> QED
      BY <1>0, <1>2, <2>1, <3>1, <3>2 DEF PaidFirst
  <2>3. ASSUME NEW e \in unacked, ReadCompletion(e) PROVE PaidFirst'
    <3>1. UNCHANGED applied /\ unacked' \subseteq unacked
          /\ paid' = paid \cup {e.resolution} /\ e.resolution \in applied
      BY <1>0, <2>3 DEF ReadCompletion, Acknowledge, inputVars, PaidFirst
    <3> QED
      BY <1>0, <1>2, <2>1, <3>1 DEF PaidFirst
  <2>4. ASSUME NEW e \in unacked,
               \/ RecordCorrection(e) \/ SkipEvent(e)
               \/ \E w \in Workers : SkipJob(w, e)
        PROVE  PaidFirst'
    <3>1. UNCHANGED <<applied, paid>> /\ unacked' \subseteq unacked
      BY <2>4 DEF RecordCorrection, SkipEvent, SkipJob, Acknowledge, inputVars, joinVars
    <3> QED
      BY <1>0, <1>2, <2>1, <3>1 DEF PaidFirst
  <2>5. ASSUME NEW e \in unacked, FanOut(e) PROVE PaidFirst'
    <3>1. UNCHANGED <<applied, paid>>
      BY <2>5 DEF FanOut, inputVars, joinVars
    <3>2. \A f \in unacked' \ unacked : f.stream = "job" /\ f.resolution = e.resolution
      BY <2>5 DEF FanOut
    <3>3. e.resolution \notin joined
      BY <2>5 DEF FanOut
    <3> QED
      BY <1>0, <1>2, <2>1, <3>1, <3>2, <3>3 DEF PaidFirst, Earned
  <2> QED
    BY <1>1, <1>3, <2>2, <2>3, <2>4, <2>5 DEF FlowStep, Take
<1>4. ASSUME NEW w \in Workers, WorkerStep(w) PROVE PaidFirst'
  <2>1. UNCHANGED <<joined, applied, paid>> /\ unacked' \subseteq unacked /\ Busy(w)
    BY <1>4, WorkerLeaves DEF inputVars, joinVars
  <2>2. \A v \in Workers : Busy(v)' => Busy(v) /\ Job(v)' = Job(v)
    <3>1. ASSUME NEW stage, NEW held, Become(w, stage, held)
          PROVE  \A v \in Workers : Busy(v)' => Busy(v) /\ Job(v)' = Job(v)
      <4>1. work[w] \in Works
        BY <1>0, <2>1, JobTyped
      <4> QED
        BY <1>0, <2>1, <3>1, <4>1 DEF Become, Typed, Busy, Job, Works
    <3>2. CASE Leave(w) \/ UNCHANGED work
      BY <1>0, <3>2 DEF Leave, Typed, Busy, Job
    <3> QED
      BY <1>4, <3>1, <3>2 DEF WorkerStep, Step, Load, Distill, SaveResult, Submit,
         SubmissionIsLost, RecordEvent, PublishEvent, Finish, Raise, Die
  <2>3. \A m \in MemoryIds : memory'[m] # None => memory[m] # None \/ m = Job(w)
    <3>1. ASSUME NEW content, SubmitCandidate(Job(w), content)
          PROVE  \A m \in MemoryIds : memory'[m] # None => memory[m] # None \/ m = Job(w)
      BY <1>0, <3>1 DEF SubmitCandidate, Typed
    <3>2. memory' = memory \/ SubmitCandidate(Job(w), work[w].held)
      BY <1>4 DEF WorkerStep, Step, Load, Distill, SaveResult, Submit, SubmissionIsLost,
         RecordEvent, PublishEvent, Finish, Raise, Die, storeVars
    <3> QED
      BY <3>1, <3>2
  <2> QED
    BY <1>0, <2>1, <2>2, <2>3 DEF PaidFirst, Earned
<1>5. CASE UNCHANGED vars
  BY <1>0, <1>5 DEF vars, storeVars, inputVars, streamVars, joinVars, workVars,
     PaidFirst, Busy, Job, Earned
<1> QED
  BY <1>3, <1>4, <1>5, ClaimKeeps, StoreKeeps, Steps

-----------------------------------------------------------------------------
(* The invariant and what follows from it. *)

LEMMA InitIInv == Init => IInv
<1> SUFFICES ASSUME Init PROVE IInv
  OBVIOUS
<1> USE DEF Init, StoreInit
<1>1. Typed
  BY DEF Typed, Replays
<1>2. MemoryIsTrue /\ WorkIsTrue /\ EventsAreTrue /\ PaidFirst
  BY DEF MemoryIsTrue, WorkIsTrue, WorkOf, EventsAreTrue, PaidFirst, Busy
<1>3. ReplayIsTrue
  BY MemoryAssumption, PipelineAssumption DEF ReplayIsTrue
<1> QED
  BY <1>1, <1>2, <1>3 DEF IInv

LEMMA StepIInv == IInv /\ [Next]_vars => IInv'
<1> SUFFICES ASSUME IInv, [Next]_vars PROVE IInv'
  OBVIOUS
<1>1. CASE FlowStep
  <2>1. UNCHANGED <<storeVars, joined, replay, work, events>>
    BY <1>1, FlowLeaves DEF workVars
  <2> QED
    BY <1>1, <2>1, FlowTyped, CoreRests, PaidFirstKept DEF IInv, Core
<1>2. CASE UNCHANGED vars
  <2>1. UNCHANGED <<storeVars, joined, applied, paid, sent, unacked, replay, work, events>>
    BY <1>2 DEF vars, inputVars, streamVars, joinVars, workVars
  <2> QED
    BY <2>1, CoreRests, PaidFirstKept DEF IInv, Core, Typed
<1> QED
  BY <1>1, <1>2, Steps, ClaimKeeps, StoreKeeps, WorkerKeeps, PaidFirstKept DEF IInv, Core

\* The pieces above hold in every state of the memory pipeline.
THEOREM Invariance == Spec => []IInv
  BY InitIInv, StepIInv, PTL DEF Spec

\* All events about a job are one, whoever executed it how often and under
\* whatever leases; it reports the candidate that is stored, or that none is.
THEOREM TellsOneOutcome == Spec => []OneOutcome
<1>1. ASSUME IInv PROVE OneOutcome
  <2> SUFFICES ASSUME NEW m \in events
               PROVE  /\ \A n \in events : n.resolution = m.resolution => n = m
                      /\ m.outcome \in Contents =>
                           /\ memory[m.resolution] # None
                           /\ memory[m.resolution].content = m.outcome
                      /\ m.outcome = "SKIP" => memory[m.resolution] = None
    BY DEF OneOutcome
  <2> USE <1>1
  <2>1. /\ m.resolution \in Resolutions /\ m.resolution \in MemoryIds
        /\ replay[m.resolution].event = m.outcome
    BY PipelineAssumption DEF IInv, Typed, EventsAreTrue
  <2>2. \A n \in events : n.resolution = m.resolution => n = m
    BY <2>1 DEF IInv, Typed, EventsAreTrue
  <2>3. m.outcome \in Contents => /\ memory[m.resolution] # None
                                  /\ memory[m.resolution].content = m.outcome
    BY <2>1 DEF IInv, ReplayIsTrue, MemoryIsTrue
  <2>4. m.outcome = "SKIP" => memory[m.resolution] = None
    <3> SUFFICES ASSUME m.outcome = "SKIP", memory[m.resolution] # None PROVE FALSE
      OBVIOUS
    <3>1. memory[m.resolution].content = "SKIP"
      BY <2>1 DEF IInv, ReplayIsTrue, MemoryIsTrue
    <3>2. memory[m.resolution].content \in Contents
      BY <2>1 DEF IInv, Typed, Records
    <3> QED
      BY <3>1, <3>2, PipelineAssumption
  <2> QED
    BY <2>2, <2>3, <2>4
<1> QED
  BY <1>1, Invariance, PTL

\* What a query returns is approved and comparable when it is returned, says what
\* its case's first distillation said, and stems from a refund that was paid if it
\* stems from one.
THEOREM ServesTheEarned == Spec => ServedIsEarned
<1> DEFINE Good == \A q \in Queriers, m \in MemoryIds : m \in hits'[q] \ hits[q] =>
      /\ InStatus(m, "APPROVED") /\ memory[m].model = Model
      /\ memory[m].content = replay[m].result
      /\ m \in joined => m \in applied
<1>1. ASSUME IInv, [Next]_vars PROVE Good
  <2>1. CASE UNCHANGED hits
    BY <2>1
  <2>2. ASSUME NEW p \in Queriers, AnswerQuery(p) PROVE Good
    <3> SUFFICES ASSUME NEW q \in Queriers, NEW m \in MemoryIds, m \in hits'[q] \ hits[q]
                 PROVE  /\ InStatus(m, "APPROVED") /\ memory[m].model = Model
                        /\ memory[m].content = replay[m].result
                        /\ m \in joined => m \in applied
      OBVIOUS
    <3>1. m \in ReadAgain(p)
      BY <2>2 DEF AnswerQuery
    <3>2. InStatus(m, "APPROVED") /\ memory[m].model = Model
      BY <3>1 DEF ReadAgain, Comparable
    <3> QED
      BY <1>1, <3>2 DEF InStatus, IInv, MemoryIsTrue, PaidFirst, Earned
  <2>3. ASSUME StoreNext, ~ \E p \in Queriers : AnswerQuery(p) PROVE UNCHANGED hits
    BY <2>3 DEF StoreNext, Approve, Retire, Backfill, BeginQuery, FailQuery
  <2> QED
    BY <1>1, <2>1, <2>2, <2>3, Steps, FlowLeaves, ClaimLeaves, WorkerLeaves
    DEF storeVars, vars
<1>2. ASSUME IInv, [Next]_vars PROVE [Good]_vars
  BY <1>1, <1>2
<1> QED
  BY <1>2, Invariance, PTL DEF Spec, ServedIsEarned
=============================================================================
