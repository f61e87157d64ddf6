----------------------------- MODULE CaseWorkspace -----------------------------
(***************************************************************************)
(* What a browser shows of one case (apps/web): case-workspace.tsx reads   *)
(* the case again for each event of its stream, and several reads are      *)
(* under way at a time; use-case-activities.ts reads the activities page   *)
(* by page and then follows their stream (apps/api: activities.py).        *)
(*                                                                         *)
(* The state of the case is the number of commits that changed it; each    *)
(* brings one event that the screen reacts to, the last of them "done".    *)
(* Events and activities are numbered by seq in the order in which they    *)
(* commit. What the page shows beside the case, its activities and the     *)
(* connection is left out. Definitions marked (fault) are slips that       *)
(* properties must catch.                                                  *)
(***************************************************************************)
EXTENDS Naturals, Sequences, FiniteSets

CONSTANTS
  LastCommit,      \* bound: commits of the case until it is done
  LastActivity,    \* bound: activities of the case
  PageSize,        \* activities per page
  MaxActions,      \* bound: what the user does that reads the case
  MaxScreenFaults  \* bound: reads that fail, connections lost

ASSUME WorkspaceAssumption ==
  /\ {LastCommit, PageSize} \subseteq Nat \ {0}
  /\ {LastActivity, MaxActions, MaxScreenFaults} \subseteq Nat

VARIABLES
  committed,     \* commits of the case
  connection,    \* "new", "connecting", "live" or "closed"
  received,      \* events received
  issuedReads,
  appliedRead,
  reads,         \* reads under way or failed, with the event each is due to
  detail,        \* the commit the screen shows, 0 before the first
  actions,
  stored,        \* activities in the trace
  feedState,     \* "pages", then "closed" or "open", or "unavailable"
  pageCursor,    \* next_cursor of the last page
  lastId,        \* Last-Event-ID of the browser, 0 if none
  wire,          \* activities sent and not yet received
  sentUpTo,      \* cursor of the stream
  feed,          \* activities shown
  screenFaults

caseView == <<committed, connection, received, issuedReads, appliedRead, reads, detail, actions>>
feedView == <<stored, feedState, pageCursor, lastId, wire, sentUpTo, feed>>
screenVars == <<caseView, feedView, screenFaults>>

WorkspaceInit ==
  /\ committed = 1 /\ connection = "new" /\ received = 0
  /\ issuedReads = 0 /\ appliedRead = 0 /\ reads = {} /\ detail = 0 /\ actions = 0
  /\ stored = 0 /\ feedState = "pages" /\ pageCursor = 0 /\ lastId = 0
  /\ wire = <<>> /\ sentUpTo = 0 /\ feed = {}
  /\ screenFaults = 0

Mishap == screenFaults < MaxScreenFaults /\ screenFaults' = screenFaults + 1
NoMishap == UNCHANGED screenFaults

-----------------------------------------------------------------------------
(* The case. *)

Commit ==
  /\ committed < LastCommit
  /\ committed' = committed + 1
  /\ UNCHANGED <<connection, received, issuedReads, appliedRead, reads, detail, actions, feedView>>
  /\ NoMishap

\* refresh up to its await: a ticket and a request.
Refresh(event) ==
  /\ issuedReads' = issuedReads + 1
  /\ reads' = reads \cup {[ticket |-> issuedReads', event |-> event, at |-> "asked", detail |-> 0]}

\* start: the first read.
Start ==
  /\ connection = "new"
  /\ connection' = "connecting"
  /\ Refresh(0)
  /\ UNCHANGED <<committed, received, appliedRead, detail, actions, feedView>>
  /\ NoMishap

\* onUpdated, after a message, a review or a confirmation was posted.
Updated ==
  /\ detail # 0
  /\ actions < MaxActions
  /\ actions' = actions + 1
  /\ Refresh(0)
  /\ UNCHANGED <<committed, connection, received, appliedRead, detail, feedView>>
  /\ NoMishap

\* The listener of the event stream, which delivers each event, in order.
Receive ==
  /\ connection = "live"
  /\ received < committed
  /\ received' = received + 1
  /\ Refresh(received')
  /\ connection' = IF received' = LastCommit THEN "closed" ELSE "live"
  /\ UNCHANGED <<committed, appliedRead, detail, actions, feedView>>
  /\ NoMishap

\* The API answers reads in any order.
ServeRead(r) ==
  /\ r.at = "asked"
  /\ reads' = (reads \ {r}) \cup {[r EXCEPT !.at = "answered", !.detail = committed]}
  /\ UNCHANGED <<committed, connection, received, issuedReads, appliedRead, detail, actions, feedView>>
  /\ NoMishap

\* (fault) what arrives last is shown.
AnyRead(r) == TRUE

\* A read that was issued before the one that is shown is dropped.
Newer(r) == r.ticket >= appliedRead

\* refresh after its await; the first opens the event stream.
ApplyRead(r) ==
  /\ r.at = "answered"
  /\ reads' = reads \ {r}
  /\ IF Newer(r) THEN appliedRead' = r.ticket /\ detail' = r.detail
                 ELSE UNCHANGED <<appliedRead, detail>>
  /\ connection' = IF connection = "connecting" THEN "live" ELSE connection
  /\ UNCHANGED <<committed, received, issuedReads, actions, feedView>>
  /\ NoMishap

\* A read that fails is not repeated; without the first there is no screen.
FailRead(r) ==
  /\ r.at \in {"asked", "answered"}
  /\ reads' = (reads \ {r}) \cup {[r EXCEPT !.at = "failed"]}
  /\ connection' = IF connection = "connecting" THEN "closed" ELSE connection
  /\ UNCHANGED <<committed, received, issuedReads, appliedRead, detail, actions, feedView>>
  /\ Mishap

-----------------------------------------------------------------------------
(* The activities. *)

Store ==
  /\ stored < LastActivity
  /\ stored' = stored + 1
  /\ UNCHANGED <<caseView, feedState, pageCursor, lastId, wire, sentUpTo, feed>>
  /\ NoMishap

\* ActivityRepository.page: the rows after a cursor, and whether there are more.
Page(after) == {n \in 1..stored : n > after /\ n <= after + PageSize}
HasMore(after) == stored > after + PageSize

\* One page; after the last the stream is opened at its cursor. A page that cannot
\* be read ends the feed.
LoadPage ==
  /\ feedState = "pages"
  /\ \/ /\ feed' = feed \cup Page(pageCursor)
        /\ pageCursor' = pageCursor + Cardinality(Page(pageCursor))
        /\ feedState' = IF HasMore(pageCursor) THEN "pages" ELSE "closed"
        /\ NoMishap
     \/ /\ feedState' = "unavailable"
        /\ UNCHANGED <<feed, pageCursor>>
        /\ Mishap
  /\ UNCHANGED <<caseView, stored, lastId, wire, sentUpTo>>

\* after_seq of the URL, or the Last-Event-ID of a browser that comes back.
ResumeAfter == IF lastId # 0 THEN lastId ELSE pageCursor

OpenFeed ==
  /\ feedState = "closed"
  /\ feedState' = "open"
  /\ sentUpTo' = ResumeAfter
  /\ UNCHANGED <<caseView, stored, pageCursor, lastId, wire, feed>>
  /\ NoMishap

\* stream_activities: a page is sent.
SendActivities ==
  /\ feedState = "open"
  /\ Page(sentUpTo) # {}
  /\ wire' = wire \o [i \in 1..Cardinality(Page(sentUpTo)) |-> sentUpTo + i]
  /\ sentUpTo' = sentUpTo + Cardinality(Page(sentUpTo))
  /\ UNCHANGED <<caseView, stored, feedState, pageCursor, lastId, feed>>
  /\ NoMishap

\* The listener of the activity stream; add drops what the feed has.
ReceiveActivity ==
  /\ wire # <<>>
  /\ feed' = feed \cup {Head(wire)}
  /\ lastId' = Head(wire)
  /\ wire' = Tail(wire)
  /\ UNCHANGED <<caseView, stored, feedState, pageCursor, sentUpTo>>
  /\ NoMishap

LoseFeed ==
  /\ feedState = "open"
  /\ feedState' = "closed"
  /\ wire' = <<>>
  /\ UNCHANGED <<caseView, stored, pageCursor, lastId, sentUpTo, feed>>
  /\ Mishap

-----------------------------------------------------------------------------
CaseNext ==
  \/ Commit \/ Start \/ Updated \/ Receive
  \/ \E r \in reads : ServeRead(r) \/ ApplyRead(r) \/ FailRead(r)

FeedNext ==
  Store \/ LoadPage \/ OpenFeed \/ SendActivities \/ ReceiveActivity \/ LoseFeed

WorkspaceNext == CaseNext \/ FeedNext

WorkspaceSpec == WorkspaceInit /\ [][WorkspaceNext]_screenVars

-----------------------------------------------------------------------------
\* The screen catches up with every event that arrived, in whatever order the reads
\* it caused are served and answered: it shows the case no older than the event,
\* unless the read for that event is under way or has failed. And the feed shows the
\* trace from its beginning without a hole, whenever activities are stored, pages end
\* and connections are lost.
ScreenIsCurrent ==
  /\ \A e \in 1..received : detail >= e \/ \E r \in reads : r.event = e
  /\ feed = 1..Cardinality(feed)
=============================================================================
