# Return Atlas in TLA+

Models, checks and proofs of Return Atlas: how a case travels between the Case
API and the agent service, what the agent graph may conclude, how a refund is
carried out exactly once, how a return is fulfilled before money moves, what is
remembered of a case, and what its user sees. Paths below are relative to the
repository; "bridge" is `apps/api/src/return_agent/agent_bridge.py`.

    tlc -workers 2 -config MCRefundLedger.cfg MCRefundLedger   # one run
    tlapm RefundLedgerProofs.tla                               # the proofs

## 1. The system

### Components

| Component | Code | State it keeps | Operations |
| --- | --- | --- | --- |
| Case API | `apps/api/.../app.py`, `policy_routes.py`, `attachments.py` | none of its own; works on the case store | `create_case`, `send_message`, `complete_human_review`, `confirm_policy`, `confirm_return`, uploads, trusted return events |
| Case store | `store.py`, `db/case.py` | status, conversation, events with sequence numbers | `transition` (table `ALLOWED_TRANSITIONS`), `append_turn`, `append_event` |
| Command outbox and dispatcher | `agent_commands.py`, bridge | one row per command: published, lease, token, attempts | write with the case's transaction; claim, `XADD`, record success or failure |
| Stream broker | `apps/agent_service/.../broker.py`, Redis | pending entries of consumer groups | read, reclaim, acknowledge |
| Agent worker and journal | `worker.py`, `journal.py` | one row per command: `RUNNING`, `COMPLETED`, `FAILED`, owner, lease | claim, execute, publish, complete or fail, abandon |
| Agent runtime | `packages/agent_runtime/.../runtime.py` | checkpoint per thread, active interrupt | `astart`, `aresume` |
| Agent graph | `graph.py`, `policy.py`, `assembly.py` | the state of one case: evidence, decision, reviews, budgets | 18 nodes and their routes |
| Event projector | bridge | processed events, one cursor per command, rejected events | `project`, `_complete_refund`, `reject` |
| Refund ledger | `capabilities/refund.py` | execution rows, item reservations, refunded items, completion outbox | `execute` and its transactions |
| Fulfillment | `capabilities/fulfillment.py` | authorization, consent, arrival, inspection, receipts, lease | register, confirm, accept event, `run_once` |
| Human review | `capabilities/human_review.py` | review requests and results | submit, complete, fetch |
| Policy store | `capabilities/policy.py`, `safety.py` | documents, bundles by version, verifications | ingest, retrieve, verify |
| User risk | `capabilities/user_risk.py` | history of a buyer, snapshots | `prepare_snapshot`, registration of refunds |
| Memory pipeline | `memory_*.py` of the agent service | completion join, jobs, replay store | join, enqueue, distil, submit |
| Operational memory | `capabilities/operational_memory.py`, `memory_cli.py` | memories with status and vectors | submit, approve, retire, query, backfill |
| Activity trace | `activity*.py` on both sides | queue, trace, narration outbox, locks and saved results | emit, append, dispatch, narrate |
| Event streams | `sse.py`, `activities.py` | none; a cursor per connection | replay after a number, follow, end |
| Web client | `apps/web` | what a page has read | read, page, follow, reconnect |

### How they interact

    API transaction --outbox--> dispatcher --stream--> worker --journal--> graph run
         ^                                                                    |
         |                                                              event stream
      reply <-- case status <-- projector (bridge) <--------------------------+
        ^           |              |  v1 refund               v2 refund       |
        |        SSE, pages        +--> RefundLedger <-- fulfillment worker   |
       browser <----+                         |    ^     <-- consent, events  |
                                              |    payment provider           |
                              completion outbox --> join <-- correction ------+
                                                     |
                                     memory worker --> operational memory --> graph

All streams deliver at least once. Several API replicas dispatch, project and
fulfil concurrently; several agent workers share a group. The API and the agent
have separate databases, so that the case's status and the graph's checkpoint
agree only through messages. The refund provider is outside both databases.

### What is hard here

- Publication before marking, and marking before acknowledgement: every hop may
  be repeated, and runs of one command use the same event ids again.
- A v1 refund is two transactions with a payment between them.
- `execute` is six transactions and one call, run concurrently for one handoff
  and for handoffs that compete for items; any of them may fail or never return.
- Leases (dispatcher 30 s, journal 900 s, fulfillment 120 s, narration 120 s)
  that nobody renews.
- Consent, return events, workers and the bridge move one authorization and its
  case from four sides.
- Five round budgets in the graph bound loops that lead through each other, and a
  decision is revised after it was verified, reviewed and gated.
- Retrievals, risk snapshots and memory queries are several statements or
  transactions, around which documents, refunds and approvals change.
- The tests run on SQLite, where a writing transaction holds the whole database;
  the deployment (`docker-compose.yml`) runs on PostgreSQL, where it does not.

### What makes each part correct

| Part | Properties |
| --- | --- |
| Refund ledger | no item is paid for twice; what is reported is what was paid; unknown outcomes keep their items; reports are final; everything paid is recorded in the end |
| Pipeline | a command runs on one worker at a time; events are projected once and in order, none after termination; a case ends once; redelivery harms no case; a case that is with the agent moves on |
| Graph | what is released is what was verified and reviewed; refunds are open by the facts, pass the gates and are consented to; a decline leaves no path open; every case closes |
| Fulfillment | no payment before the inspection; nothing paid on an escalated authorization; a case closes once, like its authorization; the item is held; executing ends |
| Memory | one outcome per job across crashes; only what was approved and paid for is served; every resolved case is learned from in the end |
| API, outbox, streams | a reply meets its question; every command is sent; an event stream is complete |
| Policy, risk | bundles, verdicts and snapshots that were answered stand |
| Trace, browser | one narration per summary, and one in the end; the screen catches up |

## 2. Modules

| Module | Models | Composed with |
| --- | --- | --- |
| `CaseStatus` | the statuses of a case and `ALLOWED_TRANSITIONS` | extended by `AgentPipeline`, `Fulfillment`, `CaseApi` |
| `RefundPromise` | abstract: a refund is one atomic payment and one true answer | |
| `RefundLedger` | `refund.py`: one action per transaction or provider call of `execute` | implements `RefundPromise` |
| `AgentPipeline` | one v1 case across both services | takes the executor's answer as `RefundPromise` gives it |
| `Fulfillment` | v2 cases after their resolution | `INSTANCE RefundLedger`: workers and bridges are its executors |
| `PolicyEvaluation` | `policy_v2.py` and the evidence rules of `validation.py`, as pure operators | extended by `AgentGraph` |
| `ReviewGates` | `review_gates.py` and the gate of `user_risk.py`, as pure operators | instantiated by `AgentGraph` |
| `AgentGraph` | the graph of one case, one action per node | |
| `OperationalMemory` | the store of memories, its governance and queries | extended by the next |
| `MemoryPipeline` | from a resolved case to a memory | |
| `CommandOutbox` | outbox rows, leases and dispatchers | extended by the next |
| `CaseApi` | handlers, transcript, images, reviews and consents | extended by the next |
| `CaseStream` | the event stream of one case and a client that reconnects | |
| `PolicyStore` | documents, retrievals, bundles and verifications | |
| `UserRisk` | the history of a buyer and the preparation of snapshots | |
| `ActivityTrace` | trace, narration outbox, narrators | |
| `CaseWorkspace` | the page of a case in the browser | |
| `RefundLedgerProofs`, `AgentPipelineProofs`, `FulfillmentProofs`, `AgentGraphProofs`, `MemoryPipelineProofs`, `CaseStreamProofs` | theorems about the module they are named for | |
| `CapabilityProofs`, `TraceProofs` | theorems about `PolicyStore` and `UserRisk`, and about `ActivityTrace` and `CaseWorkspace` | |
| `MC*` | instances for TLC | |

Definitions marked `(fault)` in the modules are plausible slips of the code next
to the definition they would replace. The specifications never use them; each
property is shown to fail when one is substituted.

### RefundLedger and the code

`content`, `state` and `started` are the columns `request_payload`, `state` and
`application_started_at` of a row of `refund_executions`; `reservation`,
`refunded` and `completions` are `refund_item_reservations`,
`refund_execution_items` and `refund_completion_outbox`. `decision` and `money`
are the provider's: the code requires it to replay the first answer for an
execution reference, and a reference is a hash of the handoff, so that handoffs
stand for references. `pc`, `req` and `result` are the locals of a thread inside
`execute`. Authorization checks re-read settings, reviews and the order, all of
which may change from call to call: their verdict is free, except for the
reservations a v2 release must own. `Fail` may end a call before any step.

`SerialWriters` tells the two databases apart. On SQLite (TRUE) the `INSERT`
with which `create_rejected` begins locks the database until it commits. On
PostgreSQL with READ COMMITTED (FALSE) an `INSERT ... ON CONFLICT DO NOTHING`
that does nothing locks nothing, the `SELECT` that follows has no `FOR UPDATE`,
and the `UPDATE` at the end goes by primary key: `Reject` and `Overwrite` are
two steps. The other transactions lock their row, or insert it, and are single
actions on both.

### AgentPipeline and the code

| Actor | Actions | Code |
| --- | --- | --- |
| API | `Reply` | the three reply endpoints, each one transaction with its RESUME command |
| Dispatcher | `Send`, `MarkPublished` | `dispatch_outbox_once`; a copy may be sent whenever the row is not marked, which covers crashes, failed commits and expired leases |
| Worker | `Claim`, `AckTerminal`, `Invoke`, `Observe`, `Checkpoint`, `EndRun`, `PublishEnding`, `Finish`, `Acknowledge`, `Abandon`, `Crash`, `Restart` | `run_once`, `_execute`, the journal, admission by `astart` and `aresume` |
| Bridge | `Replay`, `Project`, `BeginRefund`, `Refund`, `CompleteRefund`, `Refuse`, `Reject`, `Drop` | `consume_event_once`, `project`, `_complete_refund`, `reject` |

A stream is the set of its unacknowledged entries: reclaiming and several
consumers deliver them in any order. An event carries the number of its run for
its timestamp: the projector compares hashes of whole events, so that two runs
never produce the same one. The graph is free to end a run in any way.

One assumption is built in: a run ends within the 900 s of its journal lease
(`LeaseOver`). Nothing in the code enforces it, and `ExecutedAlone` rests on it;
`docs/spec/06` (CT-37) states the exclusion without that condition.

### Fulfillment and the code

`status`, `done` and `authorization` are the case, its "done" events and
`return_authorizations.state`; `consent`, `arrived`, `inspection` and `receipts`
the return's record; `lease` the worker's. `job` and `answer` are locals of
`run_once`. `Lease` may take over from a worker that is still at work, as one
fault. Everything the bridge can do to a v2 case after its resolution is
`EscalateByBridge`. `outlasted` and `rejected` only remember what has happened,
for the properties.

### AgentGraph and the code

`case` is what a run cannot change: schema, lines with their facts and prices, the
buyer's history, the reasons he may name. `intake`, `round`, `policy`, `proof`,
`handoff`, `review`, `reviewed`, `gate` and `human` group the fields of the graph's
state; `route` is the node that comes next, `pause` the interrupt, `answers` the
confirmations the API has recorded. A node that interrupts runs from its start
again when it is resumed: pausing and resuming are two actions. What a model, a
provider, the buyer or a reviewer says is a free choice among what the contracts
(`validation.py`, `policy_v2.py`) let pass; what they refuse is `NodeFails`.
The findings of an assessment stand for all claims of one path and line.

### OperationalMemory, MemoryPipeline and the code

`correction`, `paid` and `queued` are the row of a join; `journal` is the lease of
a job; `replay` the row that keeps result and terminal event; `unacked` holds the
entries of the three streams. A worker's `Step` is the next of its calls, and
`Raise` and `Die` may come instead of any. `matching` is what the first read of a
query has found; the second reads again what is left of it.

### CommandOutbox, CaseApi, CaseStream and the code

A handler locks its case before it reads what may change: each is one action. The
agent is an environment that takes up the commands of a case one by one, as
`AgentPipeline` shows it does when no worker fails. `claim` is lease and token of
a row; recording a success or a failure is read and write in two steps, as in the
code, where the row is read without a lock. `got` and `cursor` are the client's.

An interrupt about a policy path carries a request whose reference may be new or that
of an earlier one (`FindOrAdd`). The record of an earlier one is kept with its answer,
the case waits all the same, and `confirm_policy` then only repeats that answer: only
an escalation moves such a case on. `CaseApi` lets any earlier consent of the case be
asked for again; `finding_confirmation` shows a way in which the graph does.

### PolicyStore, UserRisk and the code

`Select` and `PersistBundle` are the two transactions of a retrieval. Version
numbers and hashes are what they are computed from: `Version` keeps what the hash
covers. A verification reads its record, evaluates, and inserts or updates.
`prepare_snapshot` is one transaction of READ COMMITTED statements: its two
counts, and the commit, are steps that refunds may come between.

### ActivityTrace, CaseWorkspace and the code

A narrator's lock may expire while it works, as one fault. `Consume` and the
dispatch are one task of a bridge and exclude each other. In the browser, `reads`
are requests under way, `ticket` and `appliedRead` the counters of
`case-workspace.tsx`; a case's state is the number of commits that changed it.

## 3. What is checked

| Run | States | What it shows |
| --- | --- | --- |
| `refund_ledger` | 110,496 | PostgreSQL, three handoffs (one v2, one asked for with two contents) over two items, two executors: `NoItemPaidTwice`, `SuccessIsPaid`, `UnknownKeepsOwnership`, `ReservationHandover` |
| `refund_ledger_serial` | 10,227 | SQLite, two handoffs: `PaidNeverRejected`, `TerminalIsFinal`, the refinement `RefinesPromise`, and under fairness `PaidIsRecorded` and `StartedEnds` |
| `pipeline_faults` | 1,018,521 | one crash or lost publication anywhere, two workers, two bridges: `DoneOnce`, `ProjectedInOrder`, `TerminatedIsFrozen`, `ExecutedAlone` |
| `pipeline` | 900,209 | no agent fault, but commands sent twice, reordering, a bridge that dies or an executor that fails: `HarmlessWithoutFault`, `AwaitedInterruptIsActive` |
| `pipeline_live` | 325,147 | with a fault on either side: `CaseMovesOn` |
| `fulfillment` | 255,086 | a v2 case whose goods must come back and a v1 case ask for one item, PostgreSQL, two faults: `PaidAfterInspection`, `EscalatedIsUnpaid`, `ClosedOnce`, `HeldForTheReturn`, `ExecutionEnds` |
| `agent_graph` | 358,365 | six cases of both schemas: `ApprovedIsCurrent`, `RefundIsOpenByFacts`, `UnseenRefundIsHarmless`, `ConsentedReturn`, `DeclineLeavesNoPath`, `MemoryOfThePath`, the budgets in `TypeOK`, and under fairness `CaseCloses` |
| `memory` | 134,788 | one resolution with or without a refund to wait for, two workers, governance, maintenance, a query, two faults: `OneOutcome`, `ServedIsEarned`, `CaseIsLearned` |
| `case_api` | 225,721 | eight scenes, see Bounds: `StreamIsComplete`, `RepliesMeetTheirQuestions`, `CommandIsSent`, `AnswersStand`, `RiskIsSettled`, `NarratedOnce`, `SummaryIsNarrated`, `ScreenIsCurrent` |

### Findings

Three runs state what the repository says and are violated by what the code does.

- `finding_rejected` (bug): on PostgreSQL `create_rejected` writes a rejection
  over an application another executor has started since it read the row. The
  refund is paid and recorded as rejected; its items stay reserved, so that it
  is not paid again. `docs/progress.md:167` rules this out. A `FOR UPDATE` on the
  read, as in the two other transactions, would do.
- `finding_confirmation` (bug): a buyer who declines a policy path and delivers
  evidence that does not help is asked for the same confirmation again. A decline
  leaves `selection_version` as it is (`policy.py:30`), so that the request has the
  reference of the one that was answered; the API finds that answer, returns it and
  enqueues nothing, and the case stays in `AWAITING_POLICY_CONFIRMATION`. `CaseCloses`
  (by `AsksAgain`) and `RepliesMeetTheirQuestions` (by `AskedAgain`) except this case.
- `finding_redelivery`: a worker that dies after its terminal event makes the
  redelivered command fail under an event id that is used (`README` 4.1).

### Known divergences

Met while modelling; the models have them as the code does. No run of their own
is kept for them.

- Commands are excluded by the journal, threads are not: a rerun of a START and
  the RESUME that its first run led to may run at once (`journal.py:114`, against
  `docs/reconstruction/M06-service.md:17`, M06-R01).
- A v1 refund is paid between two transactions, and the failure of a rerun can
  escalate the case in the gap (`agent_bridge.py:217`, against
  `docs/reconstruction/M03-api.md:24`, M03-R08); likewise the bridge escalates a v2
  case over a bad event and leaves its authorization executing, which is paid
  (`fulfillment.py:278`).
- `propose_round` is counted in the state that the node returns; the exit that asks
  for consent does not return it (`graph.py:919-924`, against
  `docs/spec/01-agent-graph.md:257`). A case whose models change their mind about the
  return, and whose buyer agrees each time, may propose more often than the budget
  says; `CaseCloses` holds up to `MaxConsents` such answers.
- A memory candidate may be stored although its job is reported as `FAILED`: the
  answer to its submission was lost until the attempts were used up.
- Tickets order the reads of a page by when they were asked, not by when they were
  served (`case-workspace.tsx:111-112` says an older snapshot does not rewind the
  page): between two commits the page may go back for a moment. A last read that
  fails is not repeated.

### Bounds

Two workers, bridges, executors, dispatchers and narrators are the least with a
race; symmetry makes the others alike in kind. Two items and overlapping scopes
give partial reservations; three handoffs give an item two rivals. Two commands
give a reply and its resumption; two runs give a repeated event id; one
observation per run gives gaps and late events. `MaxFaults`, `MaxDrops`,
`MaxTraceFaults` and `MaxScreenFaults` bound crashes and failures. In
`fulfillment` a third event id adds no state, since a third event is refused in
every authorization state that can still be reached. Of the four interrupt kinds
the instances of `AgentPipeline` have two: clarification stands for those whose
status leads back to the agent only, human review is the one from which a case may
also move to `EXECUTING`.

`MCAgentGraph` has six cases rather than all: received in time, the same with the
history of a risky buyer, lost on the way and too late to change one's mind, too
late, spent, and two lines under v1 above the threshold. Each guard of the rules
and each side of both gates is met by one of them. The limits of the rounds are
those of the code. `MaxConsents` bounds how often a buyer
agrees to another path or return.

`MCCaseApi` chooses one of eight scenes at the start: a client that follows a case;
dispatchers that fail; a second case that competes for the image; the screen of a
case; its feed; the policy store; the history of a buyer; the trace. The modules
share no state but the case, so that products would only multiply; within a scene
everything interleaves. `MCPolicy` lets a library hold documents of one schema,
those of v1 under one model, and starts verifications when retrievals have ended:
both read bundles, which never change once stored. `MCRisk` gives refunds one reason,
which no count looks at (claims are counted by reason).

`CHECK_DEADLOCK FALSE` everywhere: a case that is closed, or that no one answers,
may rest for ever.

### Fairness

| Where | Assumed | Why |
| --- | --- | --- |
| `RefundLedger` | weak on each executor's call; strong on starting each request anew and on the mark, apply and complete of each executor | the bridge reclaims its event and the worker its lease until `execute` returns; strong fairness says that the database and the provider are not down for good. Under v1 it also says that no rerun fails and escalates the case between two tries (known divergences): a closed case takes no `RESOLVED` event |
| `AgentPipeline` | weak on dispatch, on each worker's and bridge's next step, and on reading entries | loops in `AgentBridge` and `run_forever`, `XAUTOCLAIM` of idle entries, expiring leases, and a supervisor that replaces a worker that is not ready |
| `Fulfillment` | weak on each worker's next step and on leasing each executing authorization whose lease is over | the bridge's event loop calls `run_once` between reads |
| `AgentGraph` | weak on the nodes and on the people | the worker runs nodes until it must wait; that people answer is the premise of "every case closes", and which answer they give stays free |
| `MemoryPipeline` | weak on dispatch, enqueueing, taking each entry, claiming a job whose lease is over and each worker's next step | loops, reclaiming and restarts as above |
| `CaseStream` | weak on each dispatcher and on the end of each lease | the outbox task of each replica loops; a lease is a point in time |
| `ActivityTrace` | weak on consuming, on each bridge's dispatch, each narrator and the end of each lock nobody uses | loops, reclaiming of idle entries, `PX` of the lock |

Nothing is assumed of users (except in `AgentGraph`), of return events, of
observations and checkpoints, of the agent's bounded queue, or of faults.
Liveness is bounded by the fault budgets where calls are not strongly fair.

## 4. What is proved

For all values of the constants that satisfy the modules' assumptions:

| Module | Theorem | States |
| --- | --- | --- |
| `RefundLedgerProofs` | `TypeCorrect`, `Invariance` | `TypeOK`, the inductive invariant `IInv` |
| | `ItemPaidOnce` | `NoItemPaidTwice` |
| | `SucceededIsPaid` | `SuccessIsPaid` |
| | `UnknownIsOwner` | `UnknownKeepsOwnership` |
| | `HandoverIsRelease` | `ReservationHandover` |
| | `PaidIsNotRejected`, `TerminalStays` | `PaidNeverRejected`, `TerminalIsFinal`, under `SerialWriters` |
| | `Refinement` | `RefinesPromise`, under `SerialWriters` |
| `AgentPipelineProofs` | `Invariance` | its `IInv` |
| | `EndsOnce` | `DoneOnce` |
| | `ProjectsInOrder`, `TerminatedStaysFrozen` | `ProjectedInOrder`, `TerminatedIsFrozen` |
| | `ExecutesAlone` | `ExecutedAlone` |
| | `RedeliversHarmlessly`, `AwaitsTheInterrupt` | `HarmlessWithoutFault`, `AwaitedInterruptIsActive` |
| `FulfillmentProofs` | `Invariance` | its `IInv` |
| | `PaysAfterInspection` | `PaidAfterInspection` |
| | `EscalatesUnpaid`, `ClosesOnce` | `EscalatedIsUnpaid`, `ClosedOnce` |
| | `HoldsTheItems` | `HeldForTheReturn` |
| | `KeepsTheLedger` | `Spec => Ledger!Spec`: fulfillment uses the ledger as `RefundLedger` allows |
| `AgentGraphProofs` | `Invariance`, `TypeSafe` | its `IInv`, `TypeOK` with the budgets |
| | `ReleasesTheCurrent`, `ReleasesOpenRefunds` | `ApprovedIsCurrent`, `RefundIsOpenByFacts` |
| | `ReleasesHarmlessUnseen`, `ReleasesConsented` | `UnseenRefundIsHarmless`, `ConsentedReturn` |
| | `DeclinesTheHopeless`, `ReadsFittingMemory` | `DeclineLeavesNoPath`, `MemoryOfThePath` |
| `MemoryPipelineProofs` | `Invariance` | its `IInv` |
| | `TellsOneOutcome`, `ServesTheEarned` | `OneOutcome`, `ServedIsEarned` |
| `CapabilityProofs` | `StoreInvariance`, `AnswersAlwaysStand` | its `StoreInv`, `AnswersStand` |
| | `RiskInvariance`, `RiskIsAlwaysSettled` | its `RiskInv`, `RiskIsSettled` |
| `CaseStreamProofs` | `Invariance` | its `IInv` |
| | `StreamsCompletely`, `RepliesMeet` | `StreamIsComplete`, `RepliesMeetTheirQuestions` |
| `TraceProofs` | `TraceInvariance`, `TraceNarratesOnce` | its `TraceInv`, `NarratedOnce` |
| | `WorkspaceInvariance`, `ScreenIsAlwaysCurrent` | its `PageInv`, `ScreenIsCurrent` |

None of the properties is inductive by itself.

**Refund ledger.** `IInv` adds what the provider knows (it decided only about
started rows, and about the request in the row), what an executor knows at each
place of `execute` (past `start_pending` it holds the row's request, past
`mark_application_started` the row is started), and `StartedOwns`: a started
execution owns its whole scope unless the provider refused it. Two paid requests
with a common item would both own it, hence `ItemPaidOnce`. The argument never uses
the state column of a started row, which is why it survives the overwrite on
PostgreSQL; `RejectionKnown`, which does, holds under `SerialWriters` only and
carries the other three theorems.

**Pipeline.** What holds whatever crashes rests on three facts: a worker that executes
a command owns its journal row, a bridge at work holds an event, and a projection is
terminated only together with its case, so that a refund that was begun before finds
a case it cannot move. That nothing is rejected as long as no worker crashes and no
publication fails needs the whole way of a command, `CleanInv`: its row is running
exactly while its owner executes it and nothing was published for it before
(`RunsOnce`); its events are numbered apart and the one that ends the run comes last
(`Numbered`); a reply is accepted only when that event of every earlier command is
projected (`InTurn`); the status of the case and the agent's thread say how far the
last command has come (`StatusFits`, `ThreadFits`). Every event that is still to be
projected then belongs to the last command, is the only one of its number, and asks
for a move the case can make (`NothingInvalid`): bridges that die, repeat or overtake
each other cannot change that.

**Fulfillment.** `IInv` follows the worker: what it holds at each step (`Jobs`), and what
an executor of the ledger that works for a v2 handoff knows (`ExecutorKnows`). A row
of a v2 handoff is started only with an inspection behind it (`InspectedFirst`,
`Backed`), which is what `PaidAfterInspection` needs, and a worker is alone unless one
outlasted its lease (`Alone`), which is what keeps a rejection from being written over
a payment (`RejectionKnown`) and gives `EscalatedIsUnpaid`. The prover takes no theorem of
an instantiated module as a fact; the few facts about the ledger that are needed are
proved again, and `KeepsTheLedger` is why all of `RefundLedgerProofs` carries over.

**Agent graph.** `IInv` says, for every node the case may be at, what the fields that
were filled on the way there stand for: the claim is known, the bundle is that of the
path, findings are of this evidence (`Assessed`), consent is to this path and return
(`ConsentHeld`), the proposal rests on them (`HandoffCurrent`, `HandoffFounded`), the
reviewer's verdict and the gates are about its number (`Examined`, `GatesPassed`), and
what is released is what a reviewer or a human made of it (`HumanSpeaks`,
`ResolutionIsIt`). A loop back to a proposal gives it a new number, which takes the
verdicts on the old one out of play.

**Memory.** The replay store never forgets the first result and the first event of a
job (`ReplayIsTrue`), and what a worker holds on its way is what is saved there, also
when its lease is over and another worker is on the same job (`WorkIsTrue`): both
submit and publish the same, and the store of memories refuses anything else. That a
refund was paid is passed on from the outbox through stream, join and job to the
worker and the memory (`PaidFirst`). No lease and no order of delivery is needed.

**Cases and their stream.** That an answer meets the question that is open is tested
nowhere but by the status; it follows from rest. A case that waits has no run under
way and no command that the agent has not taken up (`InTurn`), so that nothing can be
asked, submitted or stored beside the question that is shown (`WaitsFor`), and the
review that is the latest, or the consent that the last interrupt names, is the one the
checkpoint refers to. A review that a case waits for is open. A consent is open exactly
if no earlier interrupt asked for it: every consent has been asked for in the transcript
(`Asked`) and none is open but the one its case waits for (`Settled`), so that one
that is asked for again has its answer. Nothing is claimed about how such a case goes on.
The question comes after all earlier commands (`RowIs`), which gives every reply one of its
own. For the stream, what was read is all that came after the cursor up to some point,
and events only grow in number; a status that was seen closed was written together
with its last event, hence that event is in what is read next (`StreamIs`).

**Policy store.** No two stored bundles have one version, and an answer has the
version `Version` gives to its request. A v2 version is a function of the request
alone, hence two v2 answers to one request are the same bundle.

**User risk.** Nobody tests that a snapshot is new when it is stored. The locks of
the case and of the profile make a call that makes a snapshot make it alone; in
between, refunds are all that is added to the history, and they hinder neither the
claim nor the counts. The bounds on the counts follow from the history holding one
claim and one refund per case (cardinality lemmas of `FiniteSetTheorems`).

**Screen.** A read that was asked after another sees at least that one's event, so
that a read that is dropped or overtaken has nothing the screen lacks; no read that
may still be shown lacks an event that is settled. The feed is always `1..n`, where
`n` is the place from which it would resume, and what is on the wire continues it.

**Trace.** A summary that has a row in the narration outbox is in the trace; append
refuses what it knows and a narration whose row has a result. The streams may hold
anything of the right shape, and no lock is needed for safety.

The theorems hold under the named assumptions of the modules, which TLC evaluates on
every run. Those made for the proofs say that `None` is none of the values it is told
apart from, that the lines of a case are finitely many, and, in `Fulfillment`, what
`RefundLedger` assumes of its requests.

Every invariant and action property that a passing run checks is stated by a theorem.
Only model-checked is liveness under fairness (and `ENABLED`), which is out of the
prover's reach. Induction over data and recursive operators are out of its reach too;
the modules have neither.

## 5. Not modelled, and why

- Prompts and answers of models: unconstrained data, within what contracts accept.
- Wire schemas and field validation: only the outcome (an event, an assessment, a
  decision that is refused) appears.
- Authentication and sessions, order views, CLI, settings, health endpoints,
  migrations and the scripted demo: stateless checks, reads or start-up.
- Retrieval by embeddings and the ranking of memories: numeric search. What is
  modelled is which model a vector is of, and that vectors change in between.
- Dead letters of commands that do not parse: no state of a case depends on them.
- The `paths` of a v2 bundle that was answered with `NOT_FOUND`.
- A run that outlasts the 900 s of its journal lease: excluded by `LeaseOver`.
- Presentation in the browser, and the playback of activities
  (`use-activity-playback.ts:22-29`), whose timer starts anew with each activity
  that arrives and so shows a busy trace late.
- Reservations of authorizations that end without a refund: they are never freed,
  which the model has, and about which the code states nothing.

## 6. Plan

What is left is proof:

1. A refinement of the free runs of `AgentPipeline` by `AgentGraph`, and of its
   `Send` by `CommandOutbox`, once the two share the status of a case.
2. An abstract specification of a case (its status, its open question, "done" once)
   that both `CaseStream` and `Fulfillment` implement.
3. What `PolicyEvaluation` and `ReviewGates` decide, as lemmas for any facts, beside
   those that `AgentGraphProofs` needs.
