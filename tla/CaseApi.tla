------------------------------- MODULE CaseApi -------------------------------
(***************************************************************************)
(* The HTTP API of cases (apps/api: app.py, store.py, policy_routes.py),   *)
(* the transcript they keep (db/case.py), images (attachments.py), Human   *)
(* Review requests (capabilities/human_review.py) and consent requests,    *)
(* with the commands they queue in CommandOutbox. Every handler locks the  *)
(* row of its case before it reads anything that may change and holds it   *)
(* to its commit: a handler is one action; a request that the code refuses *)
(* changes nothing and has no action.                                      *)
(*                                                                         *)
(* The agent behind the stream is an environment: it executes the commands *)
(* of a case one by one, as AgentPipeline shows when no worker fails, and  *)
(* its events come back projected. All cases and images belong to one user *)
(* and one order; what a person writes or decides is abstract.             *)
(* Definitions marked (fault) are slips that properties must catch.        *)
(***************************************************************************)
EXTENDS CommandOutbox, CaseStatus

CONSTANTS
  Cases,
  Images,
  MaxNotes       \* bound: node observations in the transcript of a case

ASSUME ApiAssumption ==
  /\ MaxNotes \in Nat
  /\ None \notin Cases \cup Statuses \cup {"final"}

VARIABLES
  status,        \* cases.status, None before the case is created
  log,           \* case_events of a case: seq is the position
  records,       \* human_reviews and policy_confirmations of a case, by time
  image,         \* attachments: the case each is bound to, and whether it is
                 \* being written or stored
  agent,         \* what the agent does with a case
  executed,      \* commands that the agent has taken up
  waits          \* the record the checkpoint of a case refers to, 0 if none

caseVars == <<status, log, records>>
agentVars == <<agent, executed, waits>>
apiVars == <<outboxVars, caseVars, image, agentVars>>

TurnKinds == {"CLARIFICATION", "EVIDENCE_REQUEST"}
ResultKinds == {"HUMAN_REVIEW", "POLICY_CONFIRMATION"}

Turn(images) == [type |-> "user_turn", kind |-> None, images |-> images, of |-> 0]
Event(type) == [type |-> type, kind |-> None, images |-> {}, of |-> 0]
\* The payload of an interrupt holds the review or the request it is about.
Asks(kind, k) == [type |-> "interrupt", kind |-> kind, images |-> {}, of |-> k]

Open(kind) == [kind |-> kind, result |-> None]

\* Entries that the event stream shows: all but the turns of the user.
Visible(c) == {n \in DOMAIN log[c] : log[c][n].type # "user_turn"}

Exists(c) == status[c] # None

ApiInit ==
  /\ OutboxInit
  /\ status = [c \in Cases |-> None]
  /\ log = [c \in Cases |-> <<>>]
  /\ records = [c \in Cases |-> <<>>]
  /\ image = [i \in Images |-> [state |-> "none", of |-> None]]
  /\ agent = [c \in Cases |-> "idle"]
  /\ executed = {}
  /\ waits = [c \in Cases |-> 0]

\* append_event, append_agent_event: numbered under the lock of the case.
Write(c, entries) == log' = [log EXCEPT ![c] = @ \o entries]

\* CaseStore.transition with its state_change event, after "before".
MoveTo(c, before, to, after) ==
  /\ CanMove(status[c], to)
  /\ status' = [status EXCEPT ![c] = to]
  /\ Write(c, before \o <<Event("state_change")>> \o after)

-----------------------------------------------------------------------------
(* Images. *)

\* (fault) an image may be attached to any case.
BindableAnywhere(c, images) == \A i \in images : image[i].state = "stored"

\* bind_attachments refuses images of other cases and unknown ones.
Bindable(c, images) ==
  \A i \in images : image[i].state = "stored" /\ image[i].of \in {None, c}

Bind(c, images) ==
  /\ Bindable(c, images)
  /\ image' = [i \in Images |-> IF i \in images THEN [image[i] EXCEPT !.of = c]
                                                ELSE image[i]]

\* upload_image reads the case, if one is named, without a lock, ...
BeginUpload(i, c) ==
  /\ image[i].state = "none"
  /\ c # None => status[c] \in {"AWAITING_EVIDENCE", "AWAITING_CLARIFICATION"}
  /\ image' = [image EXCEPT ![i] = [state |-> "writing", of |-> c]]
  /\ UNCHANGED <<outboxVars, caseVars, agentVars>>

\* ... writes the file and commits its row, or removes the file again.
EndUpload(i) ==
  /\ image[i].state = "writing"
  /\ \/ image' = [image EXCEPT ![i].state = "stored"]
     \/ image' = [image EXCEPT ![i] = [state |-> "none", of |-> None]]
  /\ UNCHANGED <<outboxVars, caseVars, agentVars>>

\* internal_image serves the agent what the user has submitted to this case.
Served(c, i) ==
  /\ image[i] = [state |-> "stored", of |-> c]
  /\ \E n \in DOMAIN log[c] : i \in log[c][n].images

-----------------------------------------------------------------------------
(* Requests of the user and of reviewers. *)

Command(c, kind, images) ==
  [case |-> c, kind |-> kind, images |-> images, at |-> Len(log'[c])]

CreateCase(c, images) ==
  /\ ~Exists(c)
  /\ status' = [status EXCEPT ![c] = "OBSERVING"]
  /\ Write(c, <<Turn(images)>>)
  /\ Bind(c, images)
  /\ Enqueue(Command(c, "START", images))
  /\ UNCHANGED <<records, agentVars>>

\* send_message: a reply to a question, with an image if evidence was asked for.
SendMessage(c, kind, images) ==
  /\ kind = "EVIDENCE_REQUEST" => images # {}
  /\ status[c] = Awaiting[kind]
  /\ MoveTo(c, <<Turn(images)>>, "OBSERVING", <<>>)
  /\ Bind(c, images)
  /\ Enqueue(Command(c, kind, images))
  /\ UNCHANGED <<records, agentVars>>

\* The record of that kind stored last, if there is one.
IsLatest(c, k, kind) ==
  /\ records[c][k].kind = kind
  /\ \A j \in DOMAIN records[c] : records[c][j].kind = kind => j <= k

\* The result is stored, the case moves and the agent is told, all in one.
Answer(c, k, kind) ==
  /\ status[c] = Awaiting[kind]
  /\ records[c][k].result = None
  /\ records' = [records EXCEPT ![c][k].result = "final"]
  /\ MoveTo(c, <<>>, "OBSERVING", <<>>)
  /\ Enqueue(Command(c, kind, {}))
  /\ UNCHANGED <<image, agentVars>>

\* complete_human_review, complete_for_case: the decision names the handoff that
\* the reviewer saw; it must be the one submitted last.
CompleteReview(c, k) ==
  /\ IsLatest(c, k, "HUMAN_REVIEW")
  /\ Answer(c, k, "HUMAN_REVIEW")

\* The last interrupt in the transcript (latest_interrupt), one about nothing if none.
LastAsked(c) == LET asked == {n \in DOMAIN log[c] : log[c][n].type = "interrupt"}
                IN  IF asked = {} THEN Asks(None, 0) ELSE log[c][Max(asked)]

\* to_case_detail shows the question of the last interrupt, if it is the one that
\* the status waits for.
Shown(c) == {k \in InterruptKinds : status[c] = Awaiting[k] /\ LastAsked(c).kind = k}

\* confirm_policy: the request that the last interrupt asks about. For a request that
\* has its answer, the answer is returned or refused: nothing moves and no command is
\* queued, whatever the case waits for.
ConfirmPolicy(c, k) ==
  /\ LastAsked(c) = Asks("POLICY_CONFIRMATION", k)
  /\ Answer(c, k, "POLICY_CONFIRMATION")

-----------------------------------------------------------------------------
(* The agent (environment), and its events as the projector applies them. *)

Becomes(c, stage) == agent' = [agent EXCEPT ![c] = stage]

Pending(c) == {r \in Stored \ executed : outbox[r].case = c}

\* fetch_result has nothing yet for the review the checkpoint refers to.
Unanswered(c) == waits[c] # 0 /\ records[c][waits[c]].result = None

\* A run takes the next command of its thread; entries that repeat a command it
\* knows are acknowledged (AgentPipeline). About an unanswered review the node
\* interrupts once more.
StartRun(c) ==
  LET r == Min(Pending(c)) IN
  /\ agent[c] = "idle"
  /\ Pending(c) # {}
  /\ sent[r] > 0
  /\ executed' = executed \cup {r}
  /\ Becomes(c, IF Unanswered(c) THEN "asks" ELSE "runs")
  /\ UNCHANGED <<outboxVars, caseVars, image, waits>>

\* _project_node, on a closed case too.
Note(c) ==
  /\ agent[c] = "runs"
  /\ Cardinality({n \in DOMAIN log[c] : log[c][n].type = "node"}) < MaxNotes
  /\ Write(c, <<Event("node")>>)
  /\ UNCHANGED <<outboxVars, status, records, image, agentVars>>

\* submit_for_review stores the request before the run interrupts; a repeated
\* submission of the handoff finds it.
SubmitForReview(c) ==
  /\ agent[c] = "runs"
  /\ records' = [records EXCEPT ![c] = Append(@, Open("HUMAN_REVIEW"))]
  /\ waits' = [waits EXCEPT ![c] = Len(records'[c])]
  /\ Becomes(c, "asks")
  /\ UNCHANGED <<outboxVars, status, log, image, executed>>

\* The record of the request that an interrupt about a policy path carries: a new one,
\* or, if its reference is that of an earlier request, the record of that, which is
\* kept with the answer it has. A path that was declined may be asked about again.
FindOrAdd(c, k) ==
  \/ /\ k = Len(records[c]) + 1
     /\ records' = [records EXCEPT ![c] = Append(@, Open("POLICY_CONFIRMATION"))]
  \/ /\ k \in DOMAIN records[c]
     /\ records[c][k].kind = "POLICY_CONFIRMATION"
     /\ UNCHANGED records

\* _project_interrupt
Interrupt(c, kind) ==
  /\ \/ /\ kind = "HUMAN_REVIEW"
        /\ agent[c] = "asks"
        /\ UNCHANGED <<records, waits>>
     \/ /\ kind = "POLICY_CONFIRMATION"
        /\ agent[c] = "runs"
        /\ \E k \in 1..Len(records[c]) + 1 :
             FindOrAdd(c, k) /\ waits' = [waits EXCEPT ![c] = k]
     \/ /\ kind \in TurnKinds
        /\ agent[c] = "runs"
        /\ waits' = [waits EXCEPT ![c] = 0]
        /\ UNCHANGED records
  /\ MoveTo(c, <<Asks(kind, waits'[c])>>, Awaiting[kind], <<>>)
  /\ Becomes(c, "idle")
  /\ UNCHANGED <<outboxVars, image, executed>>

\* _project_resolution: EXECUTING and RESOLVED at once, or EXECUTING until the
\* refund has been carried out.
Resolve(c) ==
  /\ agent[c] = "runs"
  /\ status[c] = "OBSERVING"
  /\ \/ /\ status' = [status EXCEPT ![c] = "RESOLVED"]
        /\ Write(c, <<Event("state_change"), Event("state_change"), Event("done")>>)
     \/ MoveTo(c, <<>>, "EXECUTING", <<>>)
  /\ Becomes(c, "idle")
  /\ UNCHANGED <<outboxVars, records, image, executed, waits>>

\* _complete_refund
CompleteRefund(c) ==
  /\ status[c] = "EXECUTING"
  /\ \/ MoveTo(c, <<>>, "RESOLVED", <<Event("done")>>)
     \/ MoveTo(c, <<Event("error")>>, "ESCALATED", <<Event("done")>>)
  /\ UNCHANGED <<outboxVars, records, image, agentVars>>

\* An escalation (_apply), or, with an error, a failed run or an event that cannot be
\* applied (reject), which may come at any time.
Escalate(c) ==
  /\ Exists(c)
  /\ \/ MoveTo(c, <<>>, "ESCALATED", <<Event("done")>>)
     \/ MoveTo(c, <<Event("error")>>, "ESCALATED", <<Event("done")>>)
  /\ UNCHANGED <<outboxVars, records, image, agentVars>>

\* The end of a run whose case is closed by now is refused.
Refuse(c) ==
  /\ agent[c] # "idle"
  /\ status[c] \in Closed
  /\ Becomes(c, "idle")
  /\ UNCHANGED <<outboxVars, caseVars, image, executed, waits>>

AgentNext ==
  \E c \in Cases :
    \/ StartRun(c) \/ Note(c) \/ SubmitForReview(c) \/ Resolve(c)
    \/ CompleteRefund(c) \/ Escalate(c) \/ Refuse(c)
    \/ \E kind \in InterruptKinds : Interrupt(c, kind)

RequestNext ==
  \/ \E i \in Images : EndUpload(i) \/ \E c \in Cases \cup {None} : BeginUpload(i, c)
  \/ \E c \in Cases :
       \/ \E images \in SUBSET Images :
            \/ CreateCase(c, images)
            \/ \E kind \in TurnKinds : SendMessage(c, kind, images)
       \/ \E k \in DOMAIN records[c] : CompleteReview(c, k) \/ ConfirmPolicy(c, k)

ApiNext ==
  \/ RequestNext
  \/ AgentNext
  \/ OutboxNext /\ UNCHANGED <<caseVars, image, agentVars>>
=============================================================================
