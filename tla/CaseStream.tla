----------------------------- MODULE CaseStream ------------------------------
(***************************************************************************)
(* The case API with its event stream (apps/api: sse.py and the endpoint   *)
(* in app.py): a stream polls the case, first its status, then its events  *)
(* after the cursor, in two statements of their own, sends them, and ends  *)
(* when that status was final. A client that loses its connection comes    *)
(* back with the id of the last event it got (Last-Event-ID).              *)
(* Definitions marked (fault) are slips that properties must catch.        *)
(***************************************************************************)
EXTENDS CaseApi

CONSTANTS
  Watched,       \* the case the client looks at
  MaxReconnects  \* bound: connections the client loses

ASSUME StreamAssumption == Watched \in Cases /\ MaxReconnects \in Nat

VARIABLES
  stream,        \* what the stream does next
  cursor,        \* the last event sent, which the client knows
  got,           \* the events the client has received
  seen,          \* the status that was read
  batch,         \* the events that were read
  reconnects

streamVars == <<stream, cursor, got, seen, batch, reconnects>>
vars == <<apiVars, streamVars>>

StreamInit ==
  /\ stream = "closed"
  /\ cursor = 0
  /\ got = {}
  /\ seen = None
  /\ batch = {}
  /\ reconnects = 0

\* stream_case_events for a case that exists: after_seq is the cursor.
Connect ==
  /\ stream = "closed"
  /\ Exists(Watched)
  /\ stream' = "poll"
  /\ UNCHANGED <<cursor, got, seen, batch, reconnects>>

After(n) == {k \in Visible(Watched) : k > n}

\* (fault) the events are read first, then the status.
EventsFirst ==
  \/ /\ stream = "poll"
     /\ batch' = After(cursor)
     /\ stream' = "read"
     /\ UNCHANGED <<cursor, got, seen, reconnects>>
  \/ /\ stream = "read"
     /\ seen' = status[Watched]
     /\ stream' = "send"
     /\ UNCHANGED <<cursor, got, batch, reconnects>>

\* _read_after: the case ...
\* ... and, in a statement of its own, the events after the cursor.
ReadAfter ==
  \/ /\ stream = "poll"
     /\ seen' = status[Watched]
     /\ stream' = "read"
     /\ UNCHANGED <<cursor, got, batch, reconnects>>
  \/ /\ stream = "read"
     /\ batch' = After(cursor)
     /\ stream' = "send"
     /\ UNCHANGED <<cursor, got, seen, reconnects>>

\* What was read is sent in order, up to n.
SendUpTo(n) ==
  /\ got' = got \cup {k \in batch : k <= n}
  /\ cursor' = n
  /\ batch' = {}
  /\ UNCHANGED seen

LastOf(events) == IF events = {} THEN cursor ELSE Max(events)

\* All of it, and the stream ends if the status was final.
Send ==
  /\ stream = "send"
  /\ SendUpTo(LastOf(batch))
  /\ stream' = IF seen \in Closed THEN "ended" ELSE "poll"
  /\ UNCHANGED reconnects

\* The connection breaks before or after any event.
Disconnect ==
  /\ stream \in {"poll", "read", "send"}
  /\ reconnects < MaxReconnects
  /\ reconnects' = reconnects + 1
  /\ \E n \in {cursor} \cup (IF stream = "send" THEN batch ELSE {}) : SendUpTo(n)
  /\ stream' = "closed"

StreamNext == Connect \/ ReadAfter \/ Send \/ Disconnect

-----------------------------------------------------------------------------
Init == ApiInit /\ StreamInit

Next ==
  \/ ApiNext /\ UNCHANGED streamVars
  \/ StreamNext /\ UNCHANGED apiVars

Spec == Init /\ [][Next]_vars

\* The outbox task of each API replica loops for ever; leases run out.
Fairness ==
  /\ \A d \in Dispatchers : WF_vars(Dispatch(d) /\ UNCHANGED <<caseVars, image, agentVars, streamVars>>)
  /\ \A r \in Rows : WF_vars(LeaseEnds(r) /\ UNCHANGED <<caseVars, image, agentVars, streamVars>>)

FairSpec == Spec /\ Fairness

-----------------------------------------------------------------------------
(* Safety. *)

\* docs/spec/08: Last-Event-ID resumes with larger numbers only, and the stream of
\* a closed case ends after the remaining events. A client that reads across
\* reconnections while handlers and projections commit has every event up to its
\* cursor, and a stream that has ended has sent "done".
StreamIsComplete ==
  /\ got = {n \in Visible(Watched) : n <= cursor}
  /\ stream = "ended" => \E n \in got : log[Watched][n].type = "done"

\* The interrupt that the transcript shows before entry n, 0 if there is none.
Question(c, n) ==
  LET asked == {k \in 1..n : log[c][k].type = "interrupt"}
  IN  IF asked = {} THEN 0 ELSE Max(asked)

\* An earlier interrupt has asked for the consent that the checkpoint waits for.
AskedAgain(c) ==
  \E m, n \in DOMAIN log[c] :
    /\ m < n
    /\ log[c][m] = log[c][n]
    /\ log[c][n] = Asks("POLICY_CONFIRMATION", waits[c])

\* A case that waits shows its question, which is about what its checkpoint waits for:
\* the review submitted last, which is open; or a consent, which is open unless it is
\* asked for again, as a declined alternative may be. Such a consent has its answer
\* already and nothing can be replied (the run finding_confirmation shows that the
\* graph asks so). A question is answered at most once, by a reply of its kind; and when the agent
\* takes the reply up, what it calls back for is there: the result of that very
\* review or consent, and the images of the turn, though cases compete for them.
RepliesMeetTheirQuestions ==
  /\ \A c \in Cases, kind \in InterruptKinds : status[c] = Awaiting[kind] =>
       /\ Shown(c) = {kind}
       /\ LastAsked(c).of = waits[c]
       /\ kind = "HUMAN_REVIEW" => Unanswered(c) /\ IsLatest(c, waits[c], kind)
       /\ kind = "POLICY_CONFIRMATION" =>
            /\ records[c][waits[c]].kind = kind
            /\ Unanswered(c) <=> ~AskedAgain(c)
  /\ \A r \in Stored :
       LET m == outbox[r] IN
       /\ \A i \in m.images : Served(m.case, i)
       /\ m.kind # "START" =>
            /\ Question(m.case, m.at) # 0
            /\ log[m.case][Question(m.case, m.at)].kind = m.kind
            /\ \A q \in Stored : outbox[q].case = m.case /\ q # r =>
                 Question(m.case, outbox[q].at) # Question(m.case, m.at)
       /\ m.kind \in ResultKinds /\ r \notin executed =>
            /\ waits[m.case] # 0
            /\ records[m.case][waits[m.case]] = [kind |-> m.kind, result |-> "final"]

-----------------------------------------------------------------------------
(* Liveness. *)

\* Every command reaches the stream, and its row is marked, whichever dispatcher
\* dies, is late or fails to publish.
CommandIsSent == \A r \in Rows : r \in Stored ~> r \in published /\ sent[r] > 0
=============================================================================
