-------------------------- MODULE CaseStreamProofs ---------------------------
(***************************************************************************)
(* Theorems about CaseStream, for any cases, images, dispatchers, number   *)
(* of commands and connections lost.                                       *)
(*                                                                         *)
(* Events only grow in number, and the stream knows all of them up to its  *)
(* cursor (StreamIs). A case that waits has no command that the agent has  *)
(* not taken up and no run under way (InTurn): nothing can be asked or     *)
(* submitted beside the question that is shown (WaitsFor), so that what    *)
(* is answered is what the checkpoint waits for, and the question of a     *)
(* command comes after all earlier commands (RowIs). Every consent has     *)
(* been asked for in the transcript (Asked), and only the one that the     *)
(* case waits for is open (Settled): one that is asked for again has its   *)
(* answer.                                                                 *)
(***************************************************************************)
EXTENDS CaseStream, SequenceTheorems, WellFoundedInduction, TLAPS

EntryTypes == {"user_turn", "interrupt", "node", "state_change", "error", "done"}
Entries == [type : EntryTypes, kind : InterruptKinds \cup {None}, images : SUBSET Images,
            of : Nat]
Requests == [kind : ResultKinds, result : {None, "final"}]
Commands == [case : Cases, kind : InterruptKinds \cup {"START"}, images : SUBSET Images,
             at : Nat]
Uploads == [state : {"none", "writing", "stored"}, of : Cases \cup {None}]

Typed ==
  /\ outbox \in Seq(Commands)
  /\ status \in [Cases -> Statuses \cup {None}]
  /\ log \in [Cases -> Seq(Entries)]
  /\ records \in [Cases -> Seq(Requests)]
  /\ image \in [Images -> Uploads]
  /\ agent \in [Cases -> {"idle", "runs", "asks"}]
  /\ executed \subseteq Stored
  /\ waits \in [Cases -> Nat]
  /\ \A c \in Cases : waits[c] <= Len(records[c])

HasDone(c) == \E n \in DOMAIN log[c] : log[c][n].type = "done"
ClosedIsTold(c) == status[c] \in Closed => HasDone(c)

\* At most one command waits for the agent, and none while the agent is at work.
InTurn(c) ==
  /\ \A q, r \in Pending(c) : q = r
  /\ agent[c] # "idle" => Pending(c) = {}
  /\ \A kind \in InterruptKinds :
       status[c] = Awaiting[kind] => agent[c] = "idle" /\ Pending(c) = {}
  /\ ~Exists(c) => /\ agent[c] = "idle" /\ waits[c] = 0 /\ log[c] = <<>>
                   /\ \A r \in Stored : outbox[r].case # c

\* The last interrupt among the first n entries is entry q, or there is none and q is 0.
IsQuestion(c, q, n) ==
  /\ q # 0 => q \in 1..n /\ log[c][q].type = "interrupt"
  /\ \A k \in 1..n : log[c][k].type = "interrupt" => k <= q

\* The review or consent of the checkpoint has no result and is the last of its kind.
OpenRequest(c, kind) == Unanswered(c) /\ IsLatest(c, waits[c], kind)

Consent == "POLICY_CONFIRMATION"

\* The checkpoint waits for a consent, which is open unless it is asked for again.
ConsentIsDue(c) ==
  /\ waits[c] \in DOMAIN records[c]
  /\ records[c][waits[c]].kind = Consent
  /\ Unanswered(c) <=> ~AskedAgain(c)

\* A case that waits has asked its question after every command.
WaitsFor(c) ==
  \A kind \in InterruptKinds : status[c] = Awaiting[kind] =>
    /\ \E q \in 1..Len(log[c]) :
         /\ IsQuestion(c, q, Len(log[c]))
         /\ log[c][q].kind = kind /\ log[c][q].of = waits[c]
         /\ \A r \in Stored : outbox[r].case = c => outbox[r].at < q
    /\ kind \in TurnKinds => waits[c] = 0
    /\ kind = "HUMAN_REVIEW" => OpenRequest(c, kind)
    /\ kind = Consent => ConsentIsDue(c)

AsksFor(c) == agent[c] = "asks" => OpenRequest(c, "HUMAN_REVIEW")

\* Interrupts are about records that exist, and every consent has been asked for.
Asked(c) ==
  /\ \A n \in DOMAIN log[c] :
       log[c][n].type = "interrupt" => log[c][n].of <= Len(records[c])
  /\ \A k \in DOMAIN records[c] : records[c][k].kind = Consent =>
       \E n \in DOMAIN log[c] : log[c][n] = Asks(Consent, k)

\* The only consent of an open case that may be open is the one that it waits for.
Settled(c) ==
  \A k \in DOMAIN records[c] :
    records[c][k].kind = Consent /\ records[c][k].result = None =>
      \/ status[c] \in Closed
      \/ status[c] = Awaiting[Consent] /\ waits[c] = k

CaseIs(c) ==
  /\ ClosedIsTold(c) /\ InTurn(c) /\ WaitsFor(c) /\ AsksFor(c)
  /\ Asked(c) /\ Settled(c)

\* What the checkpoint refers to when the agent takes a command up.
Resumed(m) ==
  IF m.kind \in ResultKinds
    THEN /\ waits[m.case] # 0
         /\ records[m.case][waits[m.case]] = [kind |-> m.kind, result |-> "final"]
    ELSE waits[m.case] = 0

\* A reply was made to the question before it, which came after all earlier commands.
RowIs(r) ==
  LET m == outbox[r] IN
  /\ m.at <= Len(log[m.case])
  /\ \A i \in m.images : Served(m.case, i)
  /\ \E q \in 0..m.at :
       /\ IsQuestion(m.case, q, m.at)
       /\ m.kind # "START" => q # 0 /\ log[m.case][q].kind = m.kind
       /\ \A p \in Stored : p < r /\ outbox[p].case = m.case => outbox[p].at < q
  /\ r \notin executed => Resumed(m)

ApiInv == Typed /\ (\A c \in Cases : CaseIs(c)) /\ (\A r \in Stored : RowIs(r))

Knows(n) == {k \in Visible(Watched) : k <= n}

\* The client has every event up to its cursor; what was read is all that came after
\* up to some point; and what was seen closed was closed with its last event in it.
StreamIs ==
  /\ stream \in {"closed", "poll", "read", "send", "ended"}
  /\ cursor \in Nat /\ cursor <= Len(log[Watched])
  /\ got = Knows(cursor)
  /\ stream # "send" => batch = {}
  /\ stream = "send" => \E n \in cursor..Len(log[Watched]) : batch = Knows(n) \ got
  /\ stream = "read" /\ seen \in Closed => HasDone(Watched)
  /\ stream = "send" /\ seen \in Closed =>
       \E n \in got \cup batch : log[Watched][n].type = "done"
  /\ stream = "ended" => \E n \in got : log[Watched][n].type = "done"

IInv == ApiInv /\ StreamIs

-----------------------------------------------------------------------------
(* Numbers and sequences. *)

LEMMA MaxOf ==
  ASSUME NEW n \in Nat, NEW S \in SUBSET (1..n), S # {}
  PROVE  Max(S) \in S /\ \A y \in S : y <= Max(S)
<1> DEFINE T == {n - x : x \in S}
<1>1. \A x \in S : x \in Nat /\ n - x \in Nat
  OBVIOUS
<1>2. T \subseteq Nat /\ T # {}
  BY <1>1, Zenon
<1>3. PICK t \in T : \A y \in T : ~(<<y, t>> \in OpToRel(<, Nat))
  <2> HIDE DEF T
  <2> QED
    BY <1>2, NatLessThanWellFounded, WFMin
<1>4. ASSUME NEW y \in T PROVE ~(y < t)
  <2>1. <<y, t>> \in Nat \X Nat
    BY <1>2, Zenon
  <2> HIDE DEF T
  <2> QED
    BY <1>3, <2>1 DEF OpToRel
<1>5. PICK x \in S : t = n - x
  BY <1>3, Zenon
<1>6. ASSUME NEW y \in S PROVE y <= x
  <2>1. n - y \in T
    BY Zenon
  <2>2. ~(n - y < t)
    BY <2>1, <1>4
  <2> HIDE DEF T
  <2> QED
    BY <2>2, <1>1, <1>5
<1> HIDE DEF T
<1> QED
  BY <1>6 DEF Max

LEMMA MaxIs ==
  ASSUME NEW S \in SUBSET Nat, NEW x \in S, \A y \in S : y <= x
  PROVE  Max(S) = x
<1>1. \A z \in S : (\A y \in S : z >= y) => z = x
  OBVIOUS
<1>2. \A y \in S : x >= y
  OBVIOUS
<1> QED
  BY <1>1, <1>2 DEF Max

LEMMA Joined ==
  ASSUME NEW S, NEW a \in S, NEW b \in S, NEW d \in S
  PROVE  /\ <<>> \o <<b>> \o <<>> = <<b>>
         /\ <<>> \o <<b>> \o <<d>> = <<b, d>>
         /\ <<a>> \o <<b>> \o <<>> = <<a, b>>
         /\ <<a>> \o <<b>> \o <<d>> = <<a, b, d>>
<1>1. /\ <<a>> \in Seq(S) /\ <<b>> \in Seq(S) /\ <<d>> \in Seq(S) /\ <<>> \in Seq(S)
      /\ <<a, b>> \in Seq(S) /\ <<b, d>> \in Seq(S) /\ <<a, b, d>> \in Seq(S)
  OBVIOUS
<1>2. <<>> \o <<b>> = <<b>> /\ <<b>> \o <<>> = <<b>> /\ <<a, b>> \o <<>> = <<a, b>>
  BY <1>1, ConcatEmptySeq
<1>3. <<a>> \o <<b>> = <<a, b>>
  <2>1. <<a>> \o <<b>> \in Seq(S) /\ Len(<<a>> \o <<b>>) = Len(<<a, b>>)
    BY <1>1
  <2>2. \A i \in 1..Len(<<a, b>>) : (<<a>> \o <<b>>)[i] = <<a, b>>[i]
    BY <1>1
  <2> QED
    BY <1>1, <2>1, <2>2, SeqEqual
<1>4. <<b>> \o <<d>> = <<b, d>>
  <2>1. <<b>> \o <<d>> \in Seq(S) /\ Len(<<b>> \o <<d>>) = Len(<<b, d>>)
    BY <1>1
  <2>2. \A i \in 1..Len(<<b, d>>) : (<<b>> \o <<d>>)[i] = <<b, d>>[i]
    BY <1>1
  <2> QED
    BY <1>1, <2>1, <2>2, SeqEqual
<1>5. <<a, b>> \o <<d>> = <<a, b, d>>
  <2>1. <<a, b>> \o <<d>> \in Seq(S) /\ Len(<<a, b>> \o <<d>>) = Len(<<a, b, d>>)
    BY <1>1
  <2>2. \A i \in 1..Len(<<a, b, d>>) : (<<a, b>> \o <<d>>)[i] = <<a, b, d>>[i]
    BY <1>1
  <2> QED
    BY <1>1, <2>1, <2>2, SeqEqual
<1> QED
  BY <1>2, <1>3, <1>4, <1>5

LEMMA StoredIs == Typed => Stored = 1..Len(outbox) /\ Len(outbox) \in Nat
BY DEF Typed, Stored

\* The statuses in which a case waits.
LEMMA AwaitingIs ==
  /\ \A kind \in InterruptKinds :
       /\ Awaiting[kind] \in Statuses \ Closed
       /\ Awaiting[kind] \notin {"OBSERVING", "EXECUTING", None}
       /\ \A other \in InterruptKinds : Awaiting[other] = Awaiting[kind] => other = kind
  /\ None \notin Closed \cup {"OBSERVING", "EXECUTING", "final"}
  /\ {"OBSERVING", "EXECUTING"} \cup Closed \subseteq Statuses
  /\ TurnKinds \cup ResultKinds = InterruptKinds
  /\ TurnKinds \cap ResultKinds = {}
  /\ "START" \notin InterruptKinds
BY ApiAssumption DEF InterruptKinds, Awaiting, Statuses, Closed, TurnKinds, ResultKinds

\* Only a case that the agent works on begins to wait, and a closed one rests.
LEMMA MovesAre ==
  ASSUME NEW from \in Statuses, NEW to \in Statuses, CanMove(from, to)
  PROVE  /\ from \notin Closed
         /\ \A kind \in InterruptKinds : to = Awaiting[kind] => from = "OBSERVING"
BY DEF CanMove, AllowedTransitions, Statuses, Closed, InterruptKinds, Awaiting,
       ReturnStatuses

-----------------------------------------------------------------------------
(* The transcript grows. *)

Grows ==
  \A d \in Cases : /\ Len(log[d]) <= Len(log'[d])
                   /\ \A n \in 1..Len(log[d]) : log'[d][n] = log[d][n]

LEMMA LogIs ==
  ASSUME Typed, NEW c \in Cases
  PROVE  /\ log[c] \in Seq(Entries) /\ Len(log[c]) \in Nat
         /\ DOMAIN log[c] = 1..Len(log[c])
BY DEF Typed

LEMMA WriteIs ==
  ASSUME Typed, NEW c \in Cases, NEW entries \in Seq(Entries), Write(c, entries)
  PROVE  /\ log' \in [Cases -> Seq(Entries)]
         /\ \A d \in Cases : d # c => log'[d] = log[d]
         /\ Len(log'[c]) = Len(log[c]) + Len(entries)
         /\ \A n \in 1..Len(log[c]) : log'[c][n] = log[c][n]
         /\ \A n \in 1..Len(entries) : log'[c][Len(log[c]) + n] = entries[n]
         /\ Grows
<1>1. log'[c] = log[c] \o entries /\ \A d \in Cases : d # c => log'[d] = log[d]
  BY DEF Write, Typed
<1>2. log' \in [Cases -> Seq(Entries)]
  BY <1>1 DEF Write, Typed
<1>3. log[c] \in Seq(Entries)
  BY DEF Typed
<1>4. /\ Len(log'[c]) = Len(log[c]) + Len(entries)
      /\ \A n \in 1..Len(log[c]) : log'[c][n] = log[c][n]
      /\ \A n \in 1..Len(entries) : log'[c][Len(log[c]) + n] = entries[n]
  BY <1>1, <1>3
<1>5. Grows
  <2> SUFFICES ASSUME NEW d \in Cases
               PROVE  /\ Len(log[d]) <= Len(log'[d])
                      /\ \A n \in 1..Len(log[d]) : log'[d][n] = log[d][n]
    BY DEF Grows
  <2>1. Len(log[d]) \in Nat /\ Len(entries) \in Nat
    BY LogIs
  <2> QED
    BY <1>1, <1>4, <2>1
<1> QED
  BY <1>1, <1>2, <1>4, <1>5

\* A question keeps its place.
LEMMA QuestionKept ==
  ASSUME Typed, NEW c \in Cases, NEW n \in 0..Len(log[c]), NEW q \in 0..n,
         IsQuestion(c, q, n), Grows
  PROVE  IsQuestion(c, q, n)' /\ (q # 0 => log'[c][q] = log[c][q])
<1>1. Len(log[c]) \in Nat
  BY LogIs
<1>2. \A k \in 1..n : log'[c][k] = log[c][k]
  BY <1>1 DEF Grows
<1> QED
  BY <1>1, <1>2 DEF IsQuestion

\* It stays the last one as long as nothing is asked.
LEMMA QuestionStays ==
  ASSUME Typed, NEW c \in Cases, NEW entries \in Seq(Entries), Write(c, entries),
         \A n \in 1..Len(entries) : entries[n].type # "interrupt",
         NEW q \in 0..Len(log[c]), IsQuestion(c, q, Len(log[c]))
  PROVE  IsQuestion(c, q, Len(log[c]))'
<1>1. Len(log[c]) \in Nat /\ Len(entries) \in Nat
  BY LogIs
<1>2. ASSUME NEW k \in 1..Len(log'[c]), log'[c][k].type = "interrupt" PROVE k <= q
  <2>1. CASE k <= Len(log[c])
    BY <1>1, <1>2, <2>1, WriteIs DEF IsQuestion
  <2>2. CASE k > Len(log[c])
    <3> DEFINE j == k - Len(log[c])
    <3>1. j \in 1..Len(entries) /\ k = Len(log[c]) + j
      BY <1>1, <2>2, WriteIs
    <3>2. log'[c][k] = entries[j]
      BY <3>1, WriteIs
    <3> QED
      BY <1>2, <3>1, <3>2
  <2> QED
    BY <1>1, <2>1, <2>2, WriteIs
<1>3. q # 0 => q \in 1..Len(log'[c]) /\ log'[c][q].type = "interrupt"
  BY <1>1, WriteIs DEF IsQuestion
<1> QED
  BY <1>2, <1>3 DEF IsQuestion

LEMMA DoneKept ==
  ASSUME Typed, Typed', NEW c \in Cases, HasDone(c), Grows
  PROVE  HasDone(c)'
<1>1. PICK n \in 1..Len(log[c]) : log[c][n].type = "done"
  BY LogIs DEF HasDone
<1>2. n \in 1..Len(log'[c]) /\ log'[c][n] = log[c][n]
  <2>1. Len(log[c]) \in Nat /\ Len(log'[c]) \in Nat
    BY LogIs DEF Typed
  <2> QED
    BY <2>1 DEF Grows
<1>3. DOMAIN log'[c] = 1..Len(log'[c])
  BY DEF Typed
<1> QED
  BY <1>1, <1>2, <1>3 DEF HasDone

LEMMA NothingAsked ==
  ASSUME Typed, NEW c \in Cases, NEW entries \in Seq(Entries), Write(c, entries),
         \A n \in 1..Len(entries) : entries[n].type # "interrupt"
  PROVE  \A n \in 1..Len(log'[c]) : n <= Len(log[c]) \/ log'[c][n].type # "interrupt"
<1>1. Len(log[c]) \in Nat /\ Len(entries) \in Nat
  BY LogIs
<1> SUFFICES ASSUME NEW n \in 1..Len(log'[c]), ~(n <= Len(log[c]))
             PROVE  log'[c][n].type # "interrupt"
  OBVIOUS
<1> DEFINE j == n - Len(log[c])
<1>2. j \in 1..Len(entries) /\ n = Len(log[c]) + j
  BY <1>1, WriteIs
<1>3. log'[c][n] = entries[j]
  BY <1>2, WriteIs
<1> QED
  BY <1>2, <1>3

\* A consent stays asked for, as long as no other one comes up and nothing is asked.
LEMMA AskedKept ==
  ASSUME Typed, Typed', NEW c \in Cases, Grows, Asked(c),
         \A n \in 1..Len(log'[c]) : n <= Len(log[c]) \/ log'[c][n].type # "interrupt",
         Len(records[c]) <= Len(records'[c]),
         \A k \in DOMAIN records'[c] : records'[c][k].kind = Consent =>
           k \in DOMAIN records[c] /\ records[c][k].kind = Consent
  PROVE  Asked(c)'
<1>1. /\ Len(log[c]) \in Nat /\ DOMAIN log[c] = 1..Len(log[c])
      /\ Len(log'[c]) \in Nat /\ DOMAIN log'[c] = 1..Len(log'[c])
      /\ log'[c] \in Seq(Entries)
  BY DEF Typed
<1>2. Len(records[c]) \in Nat /\ Len(records'[c]) \in Nat
  <2>1. records[c] \in Seq(Requests) /\ records'[c] \in Seq(Requests)
    BY DEF Typed
  <2> QED
    BY <2>1
<1>3. /\ Len(log[c]) <= Len(log'[c])
      /\ \A n \in 1..Len(log[c]) : log'[c][n] = log[c][n]
  BY DEF Grows
<1>4. ASSUME NEW n \in DOMAIN log'[c], log'[c][n].type = "interrupt"
      PROVE  log'[c][n].of <= Len(records'[c])
  <2>1. n \in 1..Len(log[c])
    BY <1>1, <1>4
  <2>2. log[c][n].of <= Len(records[c]) /\ log'[c][n] = log[c][n]
    BY <1>1, <1>3, <1>4, <2>1 DEF Asked
  <2>3. log'[c][n] \in Entries
    BY <1>1, <1>4, ElementOfSeq
  <2> QED
    BY <1>2, <2>2, <2>3 DEF Entries
<1>5. ASSUME NEW k \in DOMAIN records'[c], records'[c][k].kind = Consent
      PROVE  \E n \in DOMAIN log'[c] : log'[c][n] = Asks(Consent, k)
  <2>1. PICK n \in 1..Len(log[c]) : log[c][n] = Asks(Consent, k)
    BY <1>1, <1>5 DEF Asked
  <2> QED
    BY <1>1, <1>3, <2>1
<1> QED
  BY <1>4, <1>5 DEF Asked

\* Max finds the question.
LEMMA QuestionIs ==
  ASSUME NEW c \in Cases, NEW n \in Nat, NEW q \in 0..n, IsQuestion(c, q, n)
  PROVE  Question(c, n) = q
<1> DEFINE asked == {k \in 1..n : log[c][k].type = "interrupt"}
<1>1. CASE q = 0
  <2>1. asked = {}
    BY <1>1 DEF IsQuestion
  <2> QED
    BY <1>1, <2>1 DEF Question
<1>2. CASE q # 0
  <2>1. q \in asked /\ \A k \in asked : k <= q
    BY <1>2 DEF IsQuestion
  <2>2. asked \in SUBSET Nat
    OBVIOUS
  <2>3. Max(asked) = q
    <3> HIDE DEF asked
    <3> QED
      BY <2>1, <2>2, MaxIs
  <2>4. asked # {}
    BY <2>1
  <2> QED
    BY <2>3, <2>4 DEF Question
<1> QED
  BY <1>1, <1>2

-----------------------------------------------------------------------------
(* A step is about one case: the others and the commands before keep theirs. *)

ImagesKept ==
  \A i \in Images, c \in Cases :
    image[i] = [state |-> "stored", of |-> c] => image'[i] = image[i]

Acts(c) ==
  /\ Typed' /\ Grows /\ ImagesKept
  /\ \A d \in Cases : d # c =>
       /\ status'[d] = status[d] /\ log'[d] = log[d] /\ records'[d] = records[d]
       /\ agent'[d] = agent[d] /\ waits'[d] = waits[d]
  /\ \A r \in Stored : r \in Stored' /\ outbox'[r] = outbox[r]
  /\ \A r \in Stored' : r \notin Stored => outbox'[r].case = c /\ r \notin executed'
  /\ \A r \in Stored : (r \in executed' <=> r \in executed) \/ outbox[r].case = c

LEMMA OthersRest ==
  ASSUME NEW c \in Cases, Acts(c), Typed, NEW d \in Cases, d # c, CaseIs(d)
  PROVE  CaseIs(d)'
<1>1. Pending(d)' = Pending(d)
  BY DEF Acts, Pending
<1>2. /\ status'[d] = status[d] /\ log'[d] = log[d] /\ records'[d] = records[d]
      /\ agent'[d] = agent[d] /\ waits'[d] = waits[d]
  BY DEF Acts
<1>3. \A r \in Stored' : outbox'[r].case = d => r \in Stored /\ outbox'[r] = outbox[r]
  BY DEF Acts
<1>4. ClosedIsTold(d)'
  BY <1>2 DEF CaseIs, ClosedIsTold, HasDone
<1>5. InTurn(d)'
  BY <1>1, <1>2, <1>3 DEF CaseIs, InTurn, Exists
<1>6. \A q \in Nat : IsQuestion(d, q, Len(log[d])) => IsQuestion(d, q, Len(log[d]))'
  BY <1>2 DEF IsQuestion
<1>7. \A kind : OpenRequest(d, kind) => OpenRequest(d, kind)'
  BY <1>2 DEF OpenRequest, Unanswered, IsLatest
<1>8. ConsentIsDue(d) => ConsentIsDue(d)'
  BY <1>2 DEF ConsentIsDue, Unanswered, AskedAgain
<1>9. WaitsFor(d)'
  <2> SUFFICES ASSUME NEW kind \in InterruptKinds, status'[d] = Awaiting[kind]
               PROVE  /\ \E q \in 1..Len(log'[d]) :
                           /\ IsQuestion(d, q, Len(log[d]))'
                           /\ log'[d][q].kind = kind /\ log'[d][q].of = waits'[d]
                           /\ \A r \in Stored' : outbox'[r].case = d => outbox'[r].at < q
                      /\ kind \in TurnKinds => waits'[d] = 0
                      /\ kind = "HUMAN_REVIEW" => OpenRequest(d, kind)'
                      /\ kind = Consent => ConsentIsDue(d)'
    BY DEF WaitsFor
  <2>1. PICK q \in 1..Len(log[d]) :
          /\ IsQuestion(d, q, Len(log[d])) /\ log[d][q].kind = kind
          /\ log[d][q].of = waits[d]
          /\ \A r \in Stored : outbox[r].case = d => outbox[r].at < q
    BY <1>2 DEF CaseIs, WaitsFor
  <2>2. q \in Nat
    BY LogIs
  <2>3. /\ kind \in TurnKinds => waits'[d] = 0
        /\ kind = "HUMAN_REVIEW" => OpenRequest(d, kind)'
        /\ kind = Consent => ConsentIsDue(d)'
    BY <1>2, <1>7, <1>8 DEF CaseIs, WaitsFor
  <2>4. \A r \in Stored' : outbox'[r].case = d => outbox'[r].at < q
    BY <1>3, <2>1
  <2> QED
    BY <1>2, <1>6, <2>1, <2>2, <2>3, <2>4
<1>10. AsksFor(d)'
  BY <1>2, <1>7 DEF CaseIs, AsksFor
<1>11. Asked(d)' /\ Settled(d)'
  BY <1>2 DEF CaseIs, Asked, Settled
<1> QED
  BY <1>4, <1>5, <1>9, <1>10, <1>11 DEF CaseIs

LEMMA ServedKept ==
  ASSUME Typed, Typed', Grows, ImagesKept, NEW c \in Cases, NEW i \in Images, Served(c, i)
  PROVE  Served(c, i)'
<1>1. image'[i] = [state |-> "stored", of |-> c]
  BY DEF Served, ImagesKept
<1>2. PICK n \in 1..Len(log[c]) : i \in log[c][n].images
  BY LogIs DEF Served
<1>3. Len(log[c]) \in Nat /\ Len(log'[c]) \in Nat /\ DOMAIN log'[c] = 1..Len(log'[c])
  BY LogIs DEF Typed
<1>4. n \in DOMAIN log'[c] /\ log'[c][n] = log[c][n]
  BY <1>3 DEF Grows
<1> QED
  BY <1>1, <1>2, <1>4 DEF Served

LEMMA RowIsTyped ==
  ASSUME Typed, NEW r \in Stored
  PROVE  /\ outbox[r] \in Commands /\ outbox[r].case \in Cases
         /\ outbox[r].at \in Nat /\ outbox[r].images \subseteq Images
         /\ r \in Nat
<1>1. outbox \in Seq(Commands) /\ r \in 1..Len(outbox) /\ Len(outbox) \in Nat
  BY StoredIs DEF Typed
<1>2. outbox[r] \in Commands
  BY <1>1, ElementOfSeq
<1> QED
  BY <1>1, <1>2 DEF Commands

LEMMA RowsRest ==
  ASSUME NEW c \in Cases, Acts(c), Typed, NEW r \in Stored, RowIs(r),
         r \notin executed' => Resumed(outbox[r])'
  PROVE  RowIs(r)'
<1>0. PICK m : m = outbox[r]
  OBVIOUS
<1>1. m.case \in Cases /\ m.at \in Nat /\ m.images \subseteq Images
  BY <1>0, RowIsTyped
<1>2. r \in Stored' /\ outbox'[r] = m
  BY <1>0 DEF Acts
<1>3. Grows /\ ImagesKept /\ Typed'
  BY DEF Acts
<1>4. Len(log[m.case]) \in Nat /\ Len(log'[m.case]) \in Nat
  BY <1>1, <1>3, LogIs DEF Typed
<1>5. m.at <= Len(log[m.case])
  BY <1>0 DEF RowIs
<1>6. m.at <= Len(log'[m.case])
  BY <1>1, <1>3, <1>4, <1>5 DEF Grows
<1>7. \A i \in m.images : Served(m.case, i)'
  BY <1>0, <1>1, <1>3, ServedKept DEF RowIs
<1>8. PICK q \in 0..m.at :
        /\ IsQuestion(m.case, q, m.at)
        /\ m.kind # "START" => q # 0 /\ log[m.case][q].kind = m.kind
        /\ \A p \in Stored : p < r /\ outbox[p].case = m.case => outbox[p].at < q
  BY <1>0 DEF RowIs
<1>9. IsQuestion(m.case, q, m.at)' /\ (q # 0 => log'[m.case][q] = log[m.case][q])
  <2>1. m.at \in 0..Len(log[m.case])
    BY <1>1, <1>4, <1>5
  <2> QED
    BY <1>1, <1>3, <1>8, <2>1, QuestionKept
<1>10. \A p \in Stored' : p < r => p \in Stored /\ outbox'[p] = outbox[p]
  <2>1. Stored' = 1..Len(outbox') /\ Len(outbox') \in Nat
    BY <1>3, StoredIs DEF Typed, Stored
  <2> QED
    BY <2>1, StoredIs DEF Acts
<1>11. \A p \in Stored' : p < r /\ outbox'[p].case = m.case => outbox'[p].at < q
  BY <1>8, <1>10
<1>12. r \notin executed' => Resumed(m)'
  BY <1>0, <1>2 DEF Resumed
<1> QED
  BY <1>2, <1>6, <1>7, <1>8, <1>9, <1>11, <1>12 DEF RowIs

\* What is left to show for a step about case c.
LEMMA ActsSuffice ==
  ASSUME ApiInv, NEW c \in Cases, Acts(c), CaseIs(c)',
         \A r \in Stored' : r \notin Stored => RowIs(r)',
         \A r \in Stored : outbox[r].case = c /\ r \notin executed' => Resumed(outbox[r])'
  PROVE  ApiInv'
<1>1. \A d \in Cases : CaseIs(d)'
  BY OthersRest DEF ApiInv
<1>2. ASSUME NEW r \in Stored PROVE RowIs(r)'
  <2>1. CASE outbox[r].case = c
    BY <2>1, RowsRest DEF ApiInv
  <2>2. CASE outbox[r].case # c
    <3>1. r \notin executed' => r \notin executed
      BY <2>2 DEF Acts
    <3>2. PICK m : m = outbox[r]
      OBVIOUS
    <3>3. m.case \in Cases /\ outbox'[r] = m
      BY <3>2, RowIsTyped DEF ApiInv, Acts
    <3>4. records'[m.case] = records[m.case] /\ waits'[m.case] = waits[m.case]
      BY <2>2, <3>2, <3>3 DEF Acts
    <3>5. r \notin executed => Resumed(m)
      BY <3>2 DEF ApiInv, RowIs
    <3>6. r \notin executed' => Resumed(outbox[r])'
      BY <3>1, <3>3, <3>4, <3>5 DEF Resumed
    <3> QED
      BY <3>6, RowsRest DEF ApiInv
  <2> QED
    BY <2>1, <2>2
<1> QED
  BY <1>1, <1>2 DEF ApiInv, Acts

\* Without a new command Acts has less to say.
LEMMA ActsWithoutCommand ==
  ASSUME Typed, Typed', NEW c \in Cases, Grows, UNCHANGED outbox, ImagesKept,
         \A d \in Cases : d # c =>
           /\ status'[d] = status[d] /\ log'[d] = log[d] /\ records'[d] = records[d]
           /\ agent'[d] = agent[d] /\ waits'[d] = waits[d],
         \A r \in Stored : (r \in executed' <=> r \in executed) \/ outbox[r].case = c
  PROVE  Acts(c) /\ Stored' = Stored
BY DEF Acts, Stored

LEMMA NothingWritten == UNCHANGED log /\ Typed => Grows
BY LogIs DEF Grows

LEMMA NoImageTouched == UNCHANGED image => ImagesKept
BY DEF ImagesKept

\* Steps about images, and those of dispatchers.
LEMMA ApartKeeps ==
  ASSUME ApiInv, UNCHANGED <<outbox, caseVars, agentVars>>, Typed', ImagesKept
  PROVE  ApiInv'
<1> USE DEF caseVars, agentVars
<1>1. Grows
  BY NothingWritten DEF ApiInv
<1>2. \A c \in Cases : CaseIs(c)'
  BY DEF ApiInv, CaseIs, ClosedIsTold, HasDone, InTurn, Pending, Exists, Stored, WaitsFor,
     IsQuestion, OpenRequest, ConsentIsDue, AskedAgain, Unanswered, IsLatest, AsksFor,
     Asked, Settled
<1>3. ASSUME NEW r \in Stored PROVE RowIs(r)'
  <2>1. \A i \in outbox[r].images : Served(outbox[r].case, i)'
    BY <1>1, RowIsTyped, ServedKept DEF ApiInv, RowIs
  <2>2. outbox'[r] = outbox[r] /\ Stored' = Stored
    BY DEF Stored
  <2> QED
    BY <2>1, <2>2 DEF ApiInv, RowIs, IsQuestion, Resumed
<1> QED
  BY <1>2, <1>3 DEF ApiInv, Stored

LEMMA OutboxKeeps ==
  ASSUME ApiInv, OutboxNext, UNCHANGED <<caseVars, image, agentVars>>
  PROVE  ApiInv'
<1>1. UNCHANGED outbox
  BY DEF OutboxNext, Dispatch, ClaimNext, Publish, ReadRow, WriteRow, PublishFails,
     DispatcherDies, LeaseEnds
<1>2. Typed'
  BY <1>1 DEF ApiInv, Typed, Stored, caseVars, agentVars
<1> QED
  BY <1>1, <1>2, ApartKeeps, NoImageTouched

LEMMA UploadKeeps ==
  ASSUME ApiInv, NEW i \in Images,
         EndUpload(i) \/ \E c \in Cases \cup {None} : BeginUpload(i, c)
  PROVE  ApiInv'
<1>1. UNCHANGED <<outbox, caseVars, agentVars>>
  BY DEF EndUpload, BeginUpload, outboxVars
<1>2. image' \in [Images -> Uploads] /\ image[i].state # "stored"
      /\ \A j \in Images : j # i => image'[j] = image[j]
  <2>1. image[i] \in Uploads /\ image \in [Images -> Uploads]
    BY DEF ApiInv, Typed
  <2>2. CASE EndUpload(i)
    BY <2>1, <2>2 DEF EndUpload, Uploads
  <2>3. ASSUME NEW c \in Cases \cup {None}, BeginUpload(i, c)
        PROVE  /\ image' \in [Images -> Uploads] /\ image[i].state # "stored"
               /\ \A j \in Images : j # i => image'[j] = image[j]
    BY <2>1, <2>3 DEF BeginUpload, Uploads
  <2> QED
    BY <2>2, <2>3
<1>3. Typed'
  BY <1>1, <1>2 DEF ApiInv, Typed, Stored, caseVars, agentVars
<1>4. ImagesKept
  BY <1>2 DEF ImagesKept
<1> QED
  BY <1>1, <1>3, <1>4, ApartKeeps

-----------------------------------------------------------------------------
(* The agent. *)

LEMMA CaseTyped ==
  ASSUME Typed, NEW c \in Cases
  PROVE  /\ status[c] \in Statuses \cup {None} /\ agent[c] \in {"idle", "runs", "asks"}
         /\ records[c] \in Seq(Requests) /\ Len(records[c]) \in Nat
         /\ waits[c] \in 0..Len(records[c])
         /\ DOMAIN records[c] = 1..Len(records[c])
<1>1. records[c] \in Seq(Requests)
  BY DEF Typed
<1> QED
  BY <1>1 DEF Typed

\* While the agent is at work, and while a command waits for it, no question is open.
LEMMA AtWork ==
  ASSUME ApiInv, NEW c \in Cases, agent[c] # "idle" \/ Pending(c) # {}
  PROVE  /\ Exists(c) /\ status[c] \in Statuses
         /\ \A kind \in InterruptKinds : status[c] # Awaiting[kind]
         /\ agent[c] # "idle" => \A r \in Stored : outbox[r].case = c => r \in executed
BY CaseTyped DEF ApiInv, CaseIs, InTurn, Exists, Pending

LEMMA StartRunKeeps ==
  ASSUME ApiInv, NEW c \in Cases, StartRun(c)
  PROVE  ApiInv'
<1>1. PICK r \in Pending(c) : Pending(c) = {r}
  BY DEF StartRun, ApiInv, CaseIs, InTurn
<1>2. r \in Stored /\ r \notin executed /\ outbox[r].case = c /\ r \in Nat
  BY <1>1, StoredIs DEF Pending, ApiInv
<1>3. Min(Pending(c)) = r
  BY <1>1, <1>2 DEF Min
<1>4. /\ executed' = executed \cup {r} /\ UNCHANGED <<outbox, status, log, records, waits, image>>
      /\ agent' = [agent EXCEPT ![c] = IF Unanswered(c) THEN "asks" ELSE "runs"]
  BY <1>3 DEF StartRun, Becomes, outboxVars, caseVars
<1>5. ~Unanswered(c)
  <2>1. Resumed(outbox[r])
    BY <1>2 DEF ApiInv, RowIs
  <2> QED
    BY <1>2, <2>1, AwaitingIs DEF Resumed, Unanswered
<1>6. agent'[c] = "runs" /\ \A d \in Cases : d # c => agent'[d] = agent[d]
  BY <1>4, <1>5 DEF ApiInv, Typed
<1>7. Typed'
  BY <1>2, <1>4, <1>5 DEF ApiInv, Typed, Stored
<1>8. Acts(c) /\ Stored' = Stored
  BY <1>2, <1>4, <1>6, <1>7, NothingWritten, NoImageTouched, ActsWithoutCommand DEF ApiInv
<1>9. Pending(c)' = {}
  BY <1>1, <1>4 DEF Pending, Stored
<1>10. CaseIs(c)'
  <2>1. Exists(c) /\ \A kind \in InterruptKinds : status[c] # Awaiting[kind]
    BY <1>1, AtWork
  <2>2. ClosedIsTold(c)'
    BY <1>4 DEF ApiInv, CaseIs, ClosedIsTold, HasDone
  <2>3. InTurn(c)' /\ WaitsFor(c)'
    BY <1>4, <1>9, <2>1 DEF InTurn, WaitsFor, Exists
  <2>4. AsksFor(c)'
    BY <1>6 DEF AsksFor
  <2>5. Asked(c)' /\ Settled(c)'
    BY <1>4 DEF ApiInv, CaseIs, Asked, Settled
  <2> QED
    BY <2>2, <2>3, <2>4, <2>5 DEF CaseIs
<1>11. \A q \in Stored : outbox[q].case = c => q \in executed'
  BY <1>4, <1>9 DEF Pending, Stored
<1> QED
  BY <1>8, <1>10, <1>11, ActsSuffice

LEMMA EventsAreEntries ==
  /\ \A type \in EntryTypes : Event(type) \in Entries /\ Event(type).type = type
  /\ \A kind \in InterruptKinds, k \in Nat :
       /\ Asks(kind, k) \in Entries /\ Asks(kind, k).type = "interrupt"
       /\ Asks(kind, k).kind = kind /\ Asks(kind, k).of = k
  /\ \A images \in SUBSET Images :
       /\ Turn(images) \in Entries /\ Turn(images).type = "user_turn"
       /\ Turn(images).images = images
BY DEF Event, Asks, Turn, Entries, EntryTypes

\* A case that neither waits nor closes, with the agent where it was.
LEMMA NoteKeeps ==
  ASSUME ApiInv, NEW c \in Cases, Note(c)
  PROVE  ApiInv'
<1>1. <<Event("node")>> \in Seq(Entries)
  BY EventsAreEntries DEF EntryTypes
<1>2. Write(c, <<Event("node")>>) /\ UNCHANGED <<outbox, status, records, image, agentVars>>
  BY DEF Note, outboxVars
<1>3. /\ log' \in [Cases -> Seq(Entries)] /\ Grows
      /\ \A d \in Cases : d # c => log'[d] = log[d]
  BY <1>1, <1>2, WriteIs DEF ApiInv
<1>4. Typed'
  BY <1>2, <1>3 DEF ApiInv, Typed, Stored, agentVars
<1>5. Acts(c) /\ Stored' = Stored
  BY <1>2, <1>3, <1>4, NoImageTouched, ActsWithoutCommand DEF ApiInv, agentVars
<1>6. /\ agent[c] = "runs" /\ Exists(c) /\ \A kind \in InterruptKinds : status[c] # Awaiting[kind]
      /\ \A r \in Stored : outbox[r].case = c => r \in executed
  BY AtWork DEF Note
<1>7. CaseIs(c)'
  <2>1. ClosedIsTold(c)'
    BY <1>2, <1>3, <1>4, DoneKept DEF ApiInv, CaseIs, ClosedIsTold
  <2>2. InTurn(c)'
    BY <1>2, <1>6 DEF ApiInv, CaseIs, InTurn, Exists, Pending, Stored, agentVars
  <2>3. WaitsFor(c)' /\ AsksFor(c)'
    BY <1>2, <1>6 DEF WaitsFor, AsksFor, agentVars
  <2>4. Asked(c)'
    <3>1. PICK entries \in Seq(Entries) : entries = <<Event("node")>>
      BY <1>1
    <3>2. \A n \in 1..Len(entries) : entries[n].type # "interrupt"
      BY <3>1, EventsAreEntries DEF EntryTypes
    <3>3. \A n \in 1..Len(log'[c]) : n <= Len(log[c]) \/ log'[c][n].type # "interrupt"
      BY <1>2, <3>1, <3>2, NothingAsked DEF ApiInv
    <3>4. UNCHANGED records /\ Len(records[c]) \in Nat
      BY <1>2, CaseTyped DEF ApiInv
    <3>5. Typed /\ Asked(c)
      BY DEF ApiInv, CaseIs
    <3>6. Len(records[c]) <= Len(records'[c])
      BY <3>4
    <3> QED
      BY <1>3, <1>4, <3>3, <3>4, <3>5, <3>6, AskedKept
  <2>5. Settled(c)'
    BY <1>2 DEF ApiInv, CaseIs, Settled, agentVars
  <2> QED
    BY <2>1, <2>2, <2>3, <2>4, <2>5 DEF CaseIs
<1>8. \A r \in Stored : outbox[r].case = c => r \in executed'
  BY <1>2, <1>6 DEF agentVars
<1> QED
  BY <1>5, <1>7, <1>8, ActsSuffice

\* A request that is appended is the last one.
LEMMA RequestIsOpen ==
  ASSUME Typed, NEW c \in Cases, NEW kind \in ResultKinds,
         records' = [records EXCEPT ![c] = Append(@, Open(kind))],
         waits' = [waits EXCEPT ![c] = Len(records'[c])]
  PROVE  /\ records' \in [Cases -> Seq(Requests)] /\ waits' \in [Cases -> Nat]
         /\ \A d \in Cases : waits'[d] <= Len(records'[d])
         /\ \A d \in Cases : d # c => records'[d] = records[d] /\ waits'[d] = waits[d]
         /\ OpenRequest(c, kind)'
         /\ Len(records[c]) <= Len(records'[c])
         /\ \A k \in DOMAIN records'[c] :
              \/ k \in DOMAIN records[c] /\ records'[c][k] = records[c][k]
              \/ k = Len(records[c]) + 1 /\ records'[c][k] = Open(kind)
<1>1. Open(kind) \in Requests /\ Open(kind).kind = kind /\ Open(kind).result = None
  BY DEF Open, Requests
<1>2. records[c] \in Seq(Requests) /\ Len(records[c]) \in Nat
  BY CaseTyped
<1>3. records'[c] = Append(records[c], Open(kind)) /\ waits'[c] = Len(records'[c])
      /\ \A d \in Cases : d # c => records'[d] = records[d] /\ waits'[d] = waits[d]
  BY DEF Typed
<1>4. /\ Len(records'[c]) = Len(records[c]) + 1 /\ records'[c] \in Seq(Requests)
      /\ records'[c][Len(records[c]) + 1] = Open(kind)
      /\ DOMAIN records'[c] = 1..(Len(records[c]) + 1)
  BY <1>1, <1>2, <1>3
<1>5. records' \in [Cases -> Seq(Requests)] /\ waits' \in [Cases -> Nat]
  BY <1>2, <1>3, <1>4 DEF Typed
<1>6. \A d \in Cases : waits'[d] <= Len(records'[d])
  BY <1>2, <1>3, <1>4 DEF Typed
<1>7. OpenRequest(c, kind)'
  BY <1>1, <1>2, <1>3, <1>4 DEF OpenRequest, Unanswered, IsLatest
<1>8. \A k \in DOMAIN records'[c] :
        \/ k \in DOMAIN records[c] /\ records'[c][k] = records[c][k]
        \/ k = Len(records[c]) + 1 /\ records'[c][k] = Open(kind)
  <2>1. DOMAIN records[c] = 1..Len(records[c])
    BY <1>2
  <2>2. \A k \in 1..Len(records[c]) : records'[c][k] = records[c][k]
    BY <1>1, <1>2, <1>3
  <2> QED
    BY <1>2, <1>4, <2>1, <2>2
<1> QED
  BY <1>2, <1>3, <1>4, <1>5, <1>6, <1>7, <1>8

LEMMA SubmitKeeps ==
  ASSUME ApiInv, NEW c \in Cases, SubmitForReview(c)
  PROVE  ApiInv'
<1>1. /\ records' = [records EXCEPT ![c] = Append(@, Open("HUMAN_REVIEW"))]
      /\ waits' = [waits EXCEPT ![c] = Len(records'[c])]
      /\ agent' = [agent EXCEPT ![c] = "asks"]
      /\ UNCHANGED <<outbox, status, log, image, executed>>
  BY DEF SubmitForReview, Becomes, outboxVars
<1>2. /\ records' \in [Cases -> Seq(Requests)] /\ waits' \in [Cases -> Nat]
      /\ \A d \in Cases : waits'[d] <= Len(records'[d])
      /\ \A d \in Cases : d # c => records'[d] = records[d] /\ waits'[d] = waits[d]
      /\ OpenRequest(c, "HUMAN_REVIEW")'
      /\ Len(records[c]) <= Len(records'[c])
      /\ \A k \in DOMAIN records'[c] :
           \/ k \in DOMAIN records[c] /\ records'[c][k] = records[c][k]
           \/ k = Len(records[c]) + 1 /\ records'[c][k] = Open("HUMAN_REVIEW")
  BY <1>1, RequestIsOpen DEF ApiInv, ResultKinds
<1>3. agent'[c] = "asks" /\ \A d \in Cases : d # c => agent'[d] = agent[d]
  BY <1>1 DEF ApiInv, Typed
<1>4. Typed'
  BY <1>1, <1>2 DEF ApiInv, Typed, Stored
<1>5. Acts(c) /\ Stored' = Stored
  BY <1>1, <1>2, <1>3, <1>4, NothingWritten, NoImageTouched, ActsWithoutCommand DEF ApiInv
<1>6. /\ agent[c] = "runs" /\ Exists(c) /\ \A kind \in InterruptKinds : status[c] # Awaiting[kind]
      /\ \A r \in Stored : outbox[r].case = c => r \in executed
  BY AtWork DEF SubmitForReview
<1>7. CaseIs(c)'
  <2>1. ClosedIsTold(c)'
    BY <1>1 DEF ApiInv, CaseIs, ClosedIsTold, HasDone
  <2>2. InTurn(c)'
    BY <1>1, <1>6 DEF ApiInv, CaseIs, InTurn, Exists, Pending, Stored
  <2>3. WaitsFor(c)' /\ AsksFor(c)'
    BY <1>1, <1>2, <1>6 DEF WaitsFor, AsksFor
  <2>4. \A k \in DOMAIN records'[c] : records'[c][k].kind = Consent =>
          k \in DOMAIN records[c] /\ records'[c][k] = records[c][k]
    BY <1>2 DEF Open, Consent
  <2>5. Asked(c)'
    <3>1. \A n \in 1..Len(log'[c]) : n <= Len(log[c])
      BY <1>1, LogIs DEF ApiInv
    <3>2. Typed /\ Asked(c)
      BY DEF ApiInv, CaseIs
    <3>3. Grows
      BY <1>1, <3>2, NothingWritten
    <3>4. Len(records[c]) <= Len(records'[c])
      BY <1>2
    <3> QED
      BY <1>4, <2>4, <3>1, <3>2, <3>3, <3>4, AskedKept
  <2>6. Settled(c)'
    <3>1. Consent \in InterruptKinds
      BY DEF Consent, InterruptKinds
    <3> QED
      BY <1>1, <1>6, <2>4, <3>1 DEF ApiInv, CaseIs, Settled
  <2> QED
    BY <2>1, <2>2, <2>3, <2>5, <2>6 DEF CaseIs
<1> QED
  BY <1>1, <1>5, <1>6, <1>7, ActsSuffice

LEMMA RefuseKeeps ==
  ASSUME ApiInv, NEW c \in Cases, Refuse(c)
  PROVE  ApiInv'
<1>1. /\ agent' = [agent EXCEPT ![c] = "idle"]
      /\ UNCHANGED <<outbox, status, log, records, image, executed, waits>>
  BY DEF Refuse, Becomes, outboxVars, caseVars
<1>2. agent'[c] = "idle" /\ \A d \in Cases : d # c => agent'[d] = agent[d]
  BY <1>1 DEF ApiInv, Typed
<1>3. Typed'
  BY <1>1 DEF ApiInv, Typed, Stored
<1>4. Acts(c) /\ Stored' = Stored
  BY <1>1, <1>2, <1>3, NothingWritten, NoImageTouched, ActsWithoutCommand DEF ApiInv
<1>5. /\ Exists(c) /\ \A kind \in InterruptKinds : status[c] # Awaiting[kind]
      /\ \A r \in Stored : outbox[r].case = c => r \in executed
  BY AtWork DEF Refuse
<1>6. CaseIs(c)'
  <2>1. ClosedIsTold(c)'
    BY <1>1 DEF ApiInv, CaseIs, ClosedIsTold, HasDone
  <2>2. InTurn(c)'
    BY <1>1, <1>5 DEF ApiInv, CaseIs, InTurn, Exists, Pending, Stored
  <2>3. WaitsFor(c)' /\ AsksFor(c)'
    BY <1>1, <1>2, <1>5 DEF WaitsFor, AsksFor
  <2>4. Asked(c)' /\ Settled(c)'
    BY <1>1 DEF ApiInv, CaseIs, Asked, Settled
  <2> QED
    BY <2>1, <2>2, <2>3, <2>4 DEF CaseIs
<1> QED
  BY <1>1, <1>4, <1>5, <1>6, ActsSuffice

\* A question is written after all commands.
LEMMA AskedLast ==
  ASSUME ApiInv, NEW c \in Cases, NEW kind \in InterruptKinds, NEW k \in Nat,
         Write(c, <<Asks(kind, k), Event("state_change")>>)
  PROVE  \E q \in 1..Len(log'[c]) :
           /\ log'[c][q] = Asks(kind, k)
           /\ \A n \in 1..Len(log'[c]) : n # q => n <= Len(log[c]) \/ log'[c][n].type # "interrupt"
           /\ q > Len(log[c])
           /\ IsQuestion(c, q, Len(log[c]))'
           /\ \A r \in Stored : outbox[r].case = c => outbox[r].at < q
<1>0. PICK q : q = Len(log[c]) + 1
  OBVIOUS
<1>1. PICK entries \in Seq(Entries) : entries = <<Asks(kind, k), Event("state_change")>>
  <2>1. <<Asks(kind, k), Event("state_change")>> \in Seq(Entries)
    BY EventsAreEntries DEF EntryTypes
  <2> QED
    BY <2>1
<1>2. Len(log[c]) \in Nat
  BY LogIs DEF ApiInv
<1>3. Len(entries) = 2 /\ entries[1] = Asks(kind, k) /\ entries[2] = Event("state_change")
  BY <1>1
<1>4. /\ Len(log'[c]) = Len(log[c]) + 2 /\ log'[c][q] = Asks(kind, k)
      /\ log'[c][Len(log[c]) + 2] = Event("state_change")
  <2>1. Write(c, entries)
    BY <1>1
  <2>2. /\ Len(log'[c]) = Len(log[c]) + Len(entries)
        /\ \A n \in 1..Len(entries) : log'[c][Len(log[c]) + n] = entries[n]
    BY <2>1, WriteIs DEF ApiInv
  <2> QED
    BY <1>0, <1>3, <2>2
<1>5. log'[c][q].type = "interrupt" /\ log'[c][Len(log[c]) + 2].type # "interrupt"
  BY <1>4, EventsAreEntries DEF EntryTypes
<1>6. IsQuestion(c, q, Len(log[c]))'
  BY <1>0, <1>2, <1>4, <1>5 DEF IsQuestion
<1>7. \A r \in Stored : outbox[r].case = c => outbox[r].at < q
  BY <1>0, <1>2, RowIsTyped DEF ApiInv, RowIs
<1>8. \A n \in 1..Len(log'[c]) : n # q => n <= Len(log[c]) \/ log'[c][n].type # "interrupt"
  BY <1>0, <1>2, <1>4, <1>5
<1> QED
  BY <1>0, <1>2, <1>4, <1>6, <1>7, <1>8

\* The record that an interrupt is about: none, the review that was submitted, a new
\* consent, or one that was asked for before.
LEMMA WhatIsAsked ==
  ASSUME ApiInv, NEW c \in Cases, NEW kind \in InterruptKinds, Interrupt(c, kind)
  PROVE  /\ records' \in [Cases -> Seq(Requests)] /\ waits' \in [Cases -> Nat]
         /\ \A d \in Cases : waits'[d] <= Len(records'[d])
         /\ \A d \in Cases : d # c => records'[d] = records[d] /\ waits'[d] = waits[d]
         /\ kind \in TurnKinds => waits'[c] = 0
         /\ kind = "HUMAN_REVIEW" => OpenRequest(c, kind)'
         /\ kind # Consent => records'[c] = records[c]
         /\ kind = Consent =>
              \/ /\ waits'[c] = Len(records[c]) + 1 /\ Len(records'[c]) = Len(records[c]) + 1
                 /\ \A k \in DOMAIN records'[c] :
                      k = waits'[c] \/ (k \in DOMAIN records[c] /\ records'[c][k] = records[c][k])
                 /\ records'[c][waits'[c]] = Open(Consent)
              \/ /\ records'[c] = records[c] /\ waits'[c] \in DOMAIN records[c]
                 /\ records[c][waits'[c]].kind = Consent
<1>1. /\ records[c] \in Seq(Requests) /\ Len(records[c]) \in Nat
      /\ DOMAIN records[c] = 1..Len(records[c])
  BY CaseTyped DEF ApiInv
<1>2. CASE kind = "HUMAN_REVIEW"
  <2>1. UNCHANGED <<records, waits>> /\ OpenRequest(c, kind)
    BY <1>2 DEF Interrupt, TurnKinds, ApiInv, CaseIs, AsksFor
  <2> QED
    BY <1>2, <2>1
    DEF ApiInv, Typed, OpenRequest, Unanswered, IsLatest, TurnKinds, Consent
<1>3. CASE kind = Consent
  <2>1. kind \notin TurnKinds /\ kind # "HUMAN_REVIEW" /\ ~(kind # Consent)
    BY <1>3 DEF Consent, TurnKinds
  <2>2. PICK k \in 1..Len(records[c]) + 1 :
          FindOrAdd(c, k) /\ waits' = [waits EXCEPT ![c] = k]
    BY <1>3 DEF Interrupt, TurnKinds, Consent
  <2>3. waits'[c] = k /\ \A d \in Cases : d # c => waits'[d] = waits[d]
    BY <2>2 DEF ApiInv, Typed
  <2>4. waits' \in [Cases -> Nat]
    BY <1>1, <2>2 DEF ApiInv, Typed
  <2>5. CASE /\ k = Len(records[c]) + 1
             /\ records' = [records EXCEPT ![c] = Append(@, Open(Consent))]
    <3>1. Consent \in ResultKinds
      BY DEF Consent, ResultKinds
    <3>2. Open(Consent) \in Requests
      BY <3>1 DEF Open, Requests
    <3>3. records'[c] = Append(records[c], Open(Consent))
          /\ \A d \in Cases : d # c => records'[d] = records[d]
      BY <2>5 DEF ApiInv, Typed
    <3>4. /\ records'[c] \in Seq(Requests) /\ Len(records'[c]) = Len(records[c]) + 1
          /\ DOMAIN records'[c] = 1..(Len(records[c]) + 1)
          /\ records'[c][Len(records[c]) + 1] = Open(Consent)
          /\ \A j \in 1..Len(records[c]) : records'[c][j] = records[c][j]
      BY <1>1, <3>2, <3>3
    <3>5. records' \in [Cases -> Seq(Requests)]
      BY <2>5, <3>3, <3>4 DEF ApiInv, Typed
    <3>6. \A d \in Cases : waits'[d] <= Len(records'[d])
      BY <1>1, <2>3, <2>5, <3>3, <3>4 DEF ApiInv, Typed
    <3>7. \A j \in DOMAIN records'[c] :
            j = waits'[c] \/ (j \in DOMAIN records[c] /\ records'[c][j] = records[c][j])
      BY <1>1, <2>3, <2>5, <3>4
    <3>8. waits'[c] = Len(records[c]) + 1 /\ records'[c][waits'[c]] = Open(Consent)
      BY <2>3, <2>5, <3>4
    <3> QED
      BY <2>1, <2>3, <2>4, <3>3, <3>4, <3>5, <3>6, <3>7, <3>8
  <2>6. CASE /\ k \in DOMAIN records[c] /\ records[c][k].kind = Consent
             /\ UNCHANGED records
    <3>1. /\ \A d \in Cases : waits'[d] <= Len(records'[d])
          /\ records' \in [Cases -> Seq(Requests)]
      <4>1. records' = records /\ waits'[c] <= Len(records'[c])
        BY <1>1, <2>3, <2>6
      <4>2. \A d \in Cases : d # c => waits'[d] = waits[d] /\ waits[d] <= Len(records[d])
        BY <2>3 DEF ApiInv, Typed
      <4>3. \A d \in Cases : waits'[d] <= Len(records'[d])
        BY <4>1, <4>2
      <4> QED
        BY <4>1, <4>3 DEF ApiInv, Typed
    <3> QED
      BY <2>1, <2>3, <2>4, <2>6, <3>1
  <2> QED
    BY <2>2, <2>5, <2>6 DEF FindOrAdd, Consent
<1>4. CASE kind \in TurnKinds
  <2>1. UNCHANGED records /\ waits' = [waits EXCEPT ![c] = 0]
    BY <1>4 DEF Interrupt, TurnKinds
  <2>2. \A d \in Cases : Len(records[d]) \in Nat
    BY CaseTyped DEF ApiInv
  <2> QED
    BY <1>4, <2>1, <2>2 DEF ApiInv, Typed, TurnKinds, Consent
<1> QED
  BY <1>2, <1>3, <1>4 DEF InterruptKinds, TurnKinds, Consent

LEMMA InterruptKeeps ==
  ASSUME ApiInv, NEW c \in Cases, NEW kind \in InterruptKinds, Interrupt(c, kind)
  PROVE  ApiInv'
<1>1. /\ CanMove(status[c], Awaiting[kind]) /\ status' = [status EXCEPT ![c] = Awaiting[kind]]
      /\ agent' = [agent EXCEPT ![c] = "idle"] /\ UNCHANGED <<outbox, image, executed>>
  BY DEF Interrupt, MoveTo, Becomes, outboxVars
<1>2. /\ records' \in [Cases -> Seq(Requests)] /\ waits' \in [Cases -> Nat]
      /\ \A d \in Cases : waits'[d] <= Len(records'[d])
      /\ \A d \in Cases : d # c => records'[d] = records[d] /\ waits'[d] = waits[d]
      /\ kind \in TurnKinds => waits'[c] = 0
      /\ kind = "HUMAN_REVIEW" => OpenRequest(c, kind)'
  BY WhatIsAsked
<1>3. PICK w \in Nat : w = waits'[c]
  BY <1>2
<1>4. Write(c, <<Asks(kind, w), Event("state_change")>>)
  <2>1. <<Asks(kind, w)>> \o <<Event("state_change")>> \o <<>>
          = <<Asks(kind, w), Event("state_change")>>
    BY EventsAreEntries, Joined DEF EntryTypes
  <2>2. Write(c, <<Asks(kind, w)>> \o <<Event("state_change")>> \o <<>>)
    BY <1>3 DEF Interrupt, MoveTo
  <2> QED
    BY <2>1, <2>2
<1>5. /\ log' \in [Cases -> Seq(Entries)] /\ Grows
      /\ \A d \in Cases : d # c => log'[d] = log[d]
  <2>1. <<Asks(kind, w), Event("state_change")>> \in Seq(Entries)
    BY EventsAreEntries DEF EntryTypes
  <2> QED
    BY <1>4, <2>1, WriteIs DEF ApiInv
<1>6. /\ agent[c] # "idle" /\ Exists(c) /\ \A r \in Stored : outbox[r].case = c => r \in executed
      /\ status[c] \in Statuses /\ \A other \in InterruptKinds : status[c] # Awaiting[other]
  BY AtWork DEF Interrupt, TurnKinds
<1>7. /\ status'[c] = Awaiting[kind] /\ agent'[c] = "idle"
      /\ \A d \in Cases : d # c => status'[d] = status[d] /\ agent'[d] = agent[d]
  BY <1>1 DEF ApiInv, Typed
<1>8. Typed'
  BY <1>1, <1>2, <1>5, AwaitingIs DEF ApiInv, Typed, Stored
<1>9. Acts(c) /\ Stored' = Stored
  BY <1>1, <1>2, <1>5, <1>7, <1>8, NoImageTouched, ActsWithoutCommand DEF ApiInv
<1>10. PICK q \in 1..Len(log'[c]) :
         /\ log'[c][q] = Asks(kind, w)
         /\ \A n \in 1..Len(log'[c]) : n # q => n <= Len(log[c]) \/ log'[c][n].type # "interrupt"
         /\ q > Len(log[c])
         /\ IsQuestion(c, q, Len(log[c]))'
         /\ \A r \in Stored : outbox[r].case = c => outbox[r].at < q
  BY <1>4, AskedLast
<1>11. /\ log'[c][q].kind = kind /\ log'[c][q].of = w /\ log'[c][q].type = "interrupt"
  BY <1>10, EventsAreEntries
<1>12. /\ Len(log[c]) \in Nat /\ DOMAIN log[c] = 1..Len(log[c])
       /\ Len(log'[c]) \in Nat /\ DOMAIN log'[c] = 1..Len(log'[c])
       /\ log[c] \in Seq(Entries) /\ log'[c] \in Seq(Entries)
       /\ Len(log[c]) <= Len(log'[c])
       /\ \A n \in 1..Len(log[c]) : log'[c][n] = log[c][n]
  BY <1>5, LogIs DEF ApiInv, Typed, Grows
<1>13. /\ Len(records[c]) \in Nat /\ Len(records'[c]) \in Nat
       /\ DOMAIN records[c] = 1..Len(records[c]) /\ DOMAIN records'[c] = 1..Len(records'[c])
  BY <1>2, CaseTyped DEF ApiInv
<1>14. \A k \in DOMAIN records[c] : records[c][k].kind = Consent => records[c][k].result # None
  <2>1. status[c] \notin Closed
    BY <1>1, <1>6, AwaitingIs, MovesAre
  <2>2. Consent \in InterruptKinds
    BY DEF Consent, InterruptKinds
  <2> QED
    BY <1>6, <2>1, <2>2 DEF ApiInv, CaseIs, Settled
<1>15. Asked(c)'
  <2>1. ASSUME NEW n \in DOMAIN log'[c], log'[c][n].type = "interrupt"
        PROVE  log'[c][n].of <= Len(records'[c])
    <3>1. CASE n = q
      BY <1>2, <1>3, <1>11, <3>1
    <3>2. CASE n # q
      <4>1. n \in 1..Len(log[c]) /\ log'[c][n] = log[c][n]
        BY <1>10, <1>12, <2>1, <3>2
      <4>2. log[c][n].of <= Len(records[c])
        BY <1>12, <2>1, <4>1 DEF ApiInv, CaseIs, Asked
      <4>3. Len(records[c]) <= Len(records'[c])
        BY <1>13, WhatIsAsked
      <4>4. log[c][n] \in Entries
        BY <1>12, <4>1, ElementOfSeq
      <4> QED
        BY <1>13, <4>1, <4>2, <4>3, <4>4 DEF Entries
    <3> QED
      BY <3>1, <3>2
  <2>2. ASSUME NEW k \in DOMAIN records'[c], records'[c][k].kind = Consent
        PROVE  \E n \in DOMAIN log'[c] : log'[c][n] = Asks(Consent, k)
    <3>1. CASE kind = Consent /\ k = w
      BY <1>10, <1>12, <3>1
    <3>2. CASE k \in DOMAIN records[c] /\ records[c][k].kind = Consent
      <4>1. PICK n \in 1..Len(log[c]) : log[c][n] = Asks(Consent, k)
        BY <1>12, <3>2 DEF ApiInv, CaseIs, Asked
      <4> QED
        BY <1>12, <4>1
    <3>3. (kind = Consent /\ k = w) \/ (k \in DOMAIN records[c] /\ records'[c][k] = records[c][k])
      BY <1>3, <2>2, WhatIsAsked
    <3> QED
      BY <2>2, <3>1, <3>2, <3>3
  <2> QED
    BY <2>1, <2>2 DEF Asked
<1>16. Settled(c)'
  <2> SUFFICES ASSUME NEW k \in DOMAIN records'[c],
                      records'[c][k].kind = Consent, records'[c][k].result = None
               PROVE  status'[c] = Awaiting[Consent] /\ waits'[c] = k
    BY DEF Settled
  <2>1. (kind = Consent /\ k = w) \/ (k \in DOMAIN records[c] /\ records'[c][k] = records[c][k])
    BY <1>3, WhatIsAsked
  <2> QED
    BY <1>3, <1>7, <1>14, <2>1
<1>17. kind = Consent => ConsentIsDue(c)'
  <2> SUFFICES ASSUME kind = Consent PROVE ConsentIsDue(c)'
    OBVIOUS
  <2>1. CASE /\ w = Len(records[c]) + 1 /\ Len(records'[c]) = Len(records[c]) + 1
             /\ records'[c][w] = Open(Consent)
    <3>1. /\ w \in DOMAIN records'[c] /\ records'[c][w].kind = Consent
          /\ records'[c][w].result = None /\ w # 0
      BY <1>13, <2>1 DEF Open
    <3>2. ASSUME NEW n \in DOMAIN log'[c], log'[c][n] = Asks(Consent, w)
          PROVE  n = q
      <4>1. log'[c][n].type = "interrupt" /\ log'[c][n].of = w
        BY <3>2 DEF Asks
      <4>2. ASSUME n \in 1..Len(log[c]) PROVE FALSE
        <5>1. log[c][n].of <= Len(records[c])
          BY <1>12, <4>1, <4>2 DEF ApiInv, CaseIs, Asked
        <5> QED
          BY <1>12, <1>13, <2>1, <4>1, <4>2, <5>1
      <4> QED
        BY <1>10, <1>12, <4>1, <4>2
    <3>3. ~AskedAgain(c)'
      BY <1>3, <1>12, <3>2 DEF AskedAgain, Consent
    <3> QED
      BY <1>3, <3>1, <3>3 DEF ConsentIsDue, Unanswered
  <2>2. CASE /\ records'[c] = records[c] /\ w \in DOMAIN records[c]
             /\ records[c][w].kind = Consent
    <3>1. PICK n \in 1..Len(log[c]) : log[c][n] = Asks(Consent, w)
      BY <1>12, <2>2 DEF ApiInv, CaseIs, Asked
    <3>2. n \in DOMAIN log'[c] /\ log'[c][n] = Asks(Consent, w) /\ n < q /\ q \in DOMAIN log'[c]
      BY <1>10, <1>12, <3>1
    <3>3. AskedAgain(c)'
      BY <1>3, <1>10, <3>2 DEF AskedAgain, Consent
    <3>4. ~Unanswered(c)'
      BY <1>3, <1>14, <2>2 DEF Unanswered
    <3> QED
      BY <1>3, <2>2, <3>3, <3>4 DEF ConsentIsDue
  <2> QED
    BY <1>3, <2>1, <2>2, WhatIsAsked
<1>18. CaseIs(c)'
  <2>1. ClosedIsTold(c)' /\ AsksFor(c)'
    BY <1>7, AwaitingIs DEF ClosedIsTold, AsksFor
  <2>2. InTurn(c)'
    BY <1>1, <1>6, <1>7, AwaitingIs DEF InTurn, Exists, Pending, Stored
  <2>3. WaitsFor(c)'
    <3>1. \A other \in InterruptKinds : status'[c] = Awaiting[other] => other = kind
      BY <1>7, AwaitingIs
    <3>2. \A r \in Stored' : outbox'[r].case = c => outbox'[r].at < q
      BY <1>1, <1>9, <1>10
    <3> QED
      BY <1>2, <1>3, <1>10, <1>11, <1>17, <3>1, <3>2 DEF WaitsFor
  <2> QED
    BY <1>15, <1>16, <2>1, <2>2, <2>3 DEF CaseIs
<1> QED
  BY <1>1, <1>6, <1>9, <1>18, ActsSuffice

\* A case that is closed, with its last event, or about to be paid for.
LEMMA LeavesOpen ==
  ASSUME ApiInv, NEW c \in Cases, NEW entries \in Seq(Entries), Write(c, entries),
         NEW to \in Closed \cup {"EXECUTING"}, status' = [status EXCEPT ![c] = to],
         to \in Closed => \E n \in 1..Len(entries) : entries[n].type = "done",
         \A n \in 1..Len(entries) : entries[n].type # "interrupt",
         UNCHANGED <<outbox, records, image, executed, waits>>,
         agent' = agent \/ agent' = [agent EXCEPT ![c] = "idle"], Exists(c),
         \A kind \in InterruptKinds : status[c] # Awaiting[kind] \/ to \in Closed,
         status[c] \notin Closed \/ to \in Closed
  PROVE  ApiInv'
<1>1. /\ log' \in [Cases -> Seq(Entries)] /\ Grows
      /\ \A d \in Cases : d # c => log'[d] = log[d]
  BY WriteIs DEF ApiInv
<1>2. /\ status'[c] = to /\ agent'[c] \in {agent[c], "idle"}
      /\ \A d \in Cases : d # c => status'[d] = status[d] /\ agent'[d] = agent[d]
  BY DEF ApiInv, Typed
<1>3. Typed'
  BY <1>1, AwaitingIs DEF ApiInv, Typed, Stored
<1>4. Acts(c) /\ Stored' = Stored
  BY <1>1, <1>2, <1>3, NoImageTouched, ActsWithoutCommand DEF ApiInv
<1>5. to # None /\ \A kind \in InterruptKinds : to # Awaiting[kind]
  BY AwaitingIs
<1>6. CaseIs(c)'
  <2>1. ClosedIsTold(c)'
    <3>1. SUFFICES ASSUME to \in Closed PROVE HasDone(c)'
      BY <1>2 DEF ClosedIsTold
    <3>2. PICK n \in 1..Len(entries) : entries[n].type = "done"
      BY <3>1
    <3>3. Len(log[c]) \in Nat /\ Len(entries) \in Nat
      BY LogIs DEF ApiInv
    <3>4. /\ log'[c][Len(log[c]) + n] = entries[n]
          /\ Len(log[c]) + n \in 1..Len(log'[c])
      BY <3>3, WriteIs DEF ApiInv
    <3>5. DOMAIN log'[c] = 1..Len(log'[c])
      BY <1>3 DEF Typed
    <3> QED
      BY <3>2, <3>4, <3>5 DEF HasDone
  <2>2. InTurn(c)' /\ WaitsFor(c)'
    BY <1>2, <1>5 DEF ApiInv, CaseIs, InTurn, WaitsFor, Exists, Pending, Stored
  <2>3. AsksFor(c)'
    BY <1>2 DEF ApiInv, CaseIs, AsksFor, OpenRequest, Unanswered, IsLatest
  <2>4. Asked(c)'
    <3>1. \A n \in 1..Len(log'[c]) : n <= Len(log[c]) \/ log'[c][n].type # "interrupt"
      BY NothingAsked DEF ApiInv
    <3>2. Len(records[c]) \in Nat
      BY CaseTyped DEF ApiInv
    <3>3. Typed /\ Asked(c)
      BY DEF ApiInv, CaseIs
    <3>4. UNCHANGED records /\ Len(records[c]) <= Len(records'[c])
      BY <3>2
    <3> QED
      BY <1>1, <1>3, <3>1, <3>3, <3>4, AskedKept
  <2>5. Settled(c)'
    <3>1. Consent \in InterruptKinds
      BY DEF Consent, InterruptKinds
    <3> QED
      BY <1>2, <3>1 DEF ApiInv, CaseIs, Settled
  <2> QED
    BY <2>1, <2>2, <2>3, <2>4, <2>5 DEF CaseIs
<1>7. ASSUME NEW r \in Stored, r \notin executed' PROVE Resumed(outbox[r])'
  <2>1. Resumed(outbox[r])
    BY <1>7 DEF ApiInv, RowIs
  <2> QED
    BY <2>1 DEF Resumed
<1> QED
  BY <1>4, <1>6, <1>7, ActsSuffice

LEMMA ResolveKeeps ==
  ASSUME ApiInv, NEW c \in Cases, Resolve(c)
  PROVE  ApiInv'
<1>1. /\ Exists(c) /\ \A kind \in InterruptKinds : status[c] # Awaiting[kind]
      /\ status[c] \notin Closed
      /\ UNCHANGED <<outbox, records, image, executed, waits>>
      /\ agent' = [agent EXCEPT ![c] = "idle"]
  BY AtWork, AwaitingIs DEF Resolve, Becomes, outboxVars, Closed
<1>2. CASE /\ status' = [status EXCEPT ![c] = "RESOLVED"]
           /\ Write(c, <<Event("state_change"), Event("state_change"), Event("done")>>)
  <2>1. PICK entries \in Seq(Entries) :
          entries = <<Event("state_change"), Event("state_change"), Event("done")>>
    <3>1. <<Event("state_change"), Event("state_change"), Event("done")>> \in Seq(Entries)
      BY EventsAreEntries DEF EntryTypes
    <3> QED
      BY <3>1
  <2>2. /\ 3 \in 1..Len(entries) /\ entries[3].type = "done"
        /\ \A n \in 1..Len(entries) : entries[n].type # "interrupt"
    BY <2>1, EventsAreEntries DEF EntryTypes
  <2> QED
    BY <1>1, <1>2, <2>1, <2>2, LeavesOpen DEF Closed
<1>3. CASE MoveTo(c, <<>>, "EXECUTING", <<>>)
  <2>1. PICK entries \in Seq(Entries) : entries = <<Event("state_change")>>
    <3>1. <<Event("state_change")>> \in Seq(Entries)
      BY EventsAreEntries DEF EntryTypes
    <3> QED
      BY <3>1
  <2>2. <<>> \o <<Event("state_change")>> \o <<>> = entries
    BY <2>1, EventsAreEntries, Joined DEF EntryTypes
  <2>3. Write(c, entries) /\ status' = [status EXCEPT ![c] = "EXECUTING"]
    BY <1>3, <2>2 DEF MoveTo
  <2>4. "EXECUTING" \notin Closed
    BY DEF Closed
  <2>5. \A n \in 1..Len(entries) : entries[n].type # "interrupt"
    BY <2>1, EventsAreEntries DEF EntryTypes
  <2> QED
    BY <1>1, <2>3, <2>4, <2>5, LeavesOpen
<1> QED
  BY <1>2, <1>3 DEF Resolve

LEMMA CloseKeeps ==
  ASSUME ApiInv, NEW c \in Cases, Exists(c), NEW to \in Closed,
         \/ MoveTo(c, <<>>, to, <<Event("done")>>)
         \/ MoveTo(c, <<Event("error")>>, to, <<Event("done")>>),
         UNCHANGED <<outboxVars, records, image, agentVars>>
  PROVE  ApiInv'
<1>1. UNCHANGED <<outbox, records, image, agent, executed, waits>>
  BY DEF outboxVars, agentVars
<1>2. PICK entries \in Seq(Entries) :
        /\ Write(c, entries) /\ status' = [status EXCEPT ![c] = to]
        /\ \E n \in 1..Len(entries) : entries[n].type = "done"
        /\ \A n \in 1..Len(entries) : entries[n].type # "interrupt"
  <2> DEFINE two == <<Event("state_change"), Event("done")>>
             three == <<Event("error"), Event("state_change"), Event("done")>>
  <2>1. /\ two \in Seq(Entries) /\ three \in Seq(Entries)
        /\ 2 \in 1..Len(two) /\ two[2].type = "done"
        /\ 3 \in 1..Len(three) /\ three[3].type = "done"
        /\ \A n \in 1..Len(two) : two[n].type # "interrupt"
        /\ \A n \in 1..Len(three) : three[n].type # "interrupt"
    BY EventsAreEntries DEF EntryTypes
  <2>2. /\ <<>> \o <<Event("state_change")>> \o <<Event("done")>> = two
        /\ <<Event("error")>> \o <<Event("state_change")>> \o <<Event("done")>> = three
    BY EventsAreEntries, Joined DEF EntryTypes
  <2> HIDE DEF two, three
  <2>3. CASE MoveTo(c, <<>>, to, <<Event("done")>>)
    BY <2>1, <2>2, <2>3 DEF MoveTo
  <2>4. CASE MoveTo(c, <<Event("error")>>, to, <<Event("done")>>)
    BY <2>1, <2>2, <2>4 DEF MoveTo
  <2> QED
    BY <2>3, <2>4
<1> QED
  BY <1>1, <1>2, LeavesOpen

LEMMA EndKeeps ==
  ASSUME ApiInv, NEW c \in Cases, CompleteRefund(c) \/ Escalate(c)
  PROVE  ApiInv'
<1>1. Exists(c)
  BY AwaitingIs DEF CompleteRefund, Escalate, Exists
<1>2. "RESOLVED" \in Closed /\ "ESCALATED" \in Closed
  BY DEF Closed
<1> QED
  BY <1>1, <1>2, CloseKeeps DEF CompleteRefund, Escalate

-----------------------------------------------------------------------------
(* Users and reviewers. *)

LEMMA EnqueueIs ==
  ASSUME Typed, NEW m \in Commands, Enqueue(m)
  PROVE  /\ outbox' \in Seq(Commands) /\ Stored' = Stored \cup {Len(outbox) + 1}
         /\ Len(outbox) + 1 \notin Stored /\ outbox'[Len(outbox) + 1] = m
         /\ \A r \in Stored : outbox'[r] = outbox[r] /\ r < Len(outbox) + 1
<1>1. outbox \in Seq(Commands) /\ Len(outbox) \in Nat /\ Stored = 1..Len(outbox)
  BY StoredIs DEF Typed
<1>2. outbox' = Append(outbox, m)
  BY DEF Enqueue
<1>3. /\ outbox' \in Seq(Commands) /\ Len(outbox') = Len(outbox) + 1
      /\ DOMAIN outbox' = 1..(Len(outbox) + 1)
      /\ outbox'[Len(outbox) + 1] = m /\ \A r \in 1..Len(outbox) : outbox'[r] = outbox[r]
  BY <1>1, <1>2
<1> QED
  BY <1>1, <1>3 DEF Stored

LEMMA BindIs ==
  ASSUME Typed, NEW c \in Cases, NEW images \in SUBSET Images, Bind(c, images)
  PROVE  /\ image' \in [Images -> Uploads] /\ ImagesKept
         /\ \A i \in images : image'[i] = [state |-> "stored", of |-> c]
<1>1. \A i \in Images : image[i] \in Uploads
  BY DEF Typed
<1>2. image' = [i \in Images |-> IF i \in images THEN [image[i] EXCEPT !.of = c] ELSE image[i]]
  BY DEF Bind
<1>3. \A i \in images : image[i].state = "stored" /\ image[i].of \in {None, c}
  BY DEF Bind, Bindable
<1>4. \A i \in images : image'[i] = [state |-> "stored", of |-> c]
  BY <1>1, <1>2, <1>3 DEF Uploads
<1>5. image' \in [Images -> Uploads]
  BY <1>1, <1>2 DEF Uploads
<1>6. ImagesKept
  <2> SUFFICES ASSUME NEW i \in Images, NEW d \in Cases,
                      image[i] = [state |-> "stored", of |-> d]
               PROVE  image'[i] = image[i]
    BY DEF ImagesKept
  <2>1. CASE i \in images
    <3>1. d \in {None, c} /\ d # None
      BY <1>3, <2>1, ApiAssumption
    <3> QED
      BY <1>4, <2>1, <3>1
  <2>2. CASE i \notin images
    BY <1>2, <2>2
  <2> QED
    BY <2>1, <2>2
<1> QED
  BY <1>4, <1>5, <1>6

\* The entries of a reply.
LEMMA ReplyIsWritten ==
  ASSUME ApiInv, NEW c \in Cases, NEW images \in SUBSET Images,
         NEW before \in {<<>>, <<Turn(images)>>}, MoveTo(c, before, "OBSERVING", <<>>)
  PROVE  \E entries \in Seq(Entries) :
           /\ Write(c, entries) /\ Len(entries) > 0
           /\ \A n \in 1..Len(entries) : entries[n].type # "interrupt"
           /\ before # <<>> => entries[1].images = images
<1>1. CASE before = <<>>
  <2>1. PICK entries : entries = <<Event("state_change")>>
    OBVIOUS
  <2>2. entries \in Seq(Entries) /\ Len(entries) = 1 /\ entries[1].type = "state_change"
    BY <2>1, EventsAreEntries DEF EntryTypes
  <2>3. <<>> \o <<Event("state_change")>> \o <<>> = entries
    BY <2>1, EventsAreEntries, Joined DEF EntryTypes
  <2>4. Write(c, entries)
    BY <1>1, <2>3 DEF MoveTo
  <2>5. \A n \in 1..Len(entries) : entries[n].type # "interrupt"
    BY <2>2
  <2>6. before # <<>> => entries[1].images = images
    BY <1>1
  <2>7. Len(entries) > 0
    BY <2>2
  <2> QED
    BY <2>2, <2>4, <2>5, <2>6, <2>7
<1>2. CASE before = <<Turn(images)>>
  <2>1. PICK entries : entries = <<Turn(images), Event("state_change")>>
    OBVIOUS
  <2>2. /\ entries \in Seq(Entries) /\ Len(entries) = 2
        /\ entries[1].type = "user_turn" /\ entries[2].type = "state_change"
        /\ entries[1].images = images
    BY <2>1, EventsAreEntries DEF EntryTypes
  <2>3. <<Turn(images)>> \o <<Event("state_change")>> \o <<>> = entries
    BY <2>1, EventsAreEntries, Joined DEF EntryTypes
  <2>4. Write(c, entries)
    BY <1>2, <2>3 DEF MoveTo
  <2>5. \A n \in 1..Len(entries) : entries[n].type # "interrupt"
    BY <2>2
  <2> QED
    BY <2>2, <2>4, <2>5
<1> QED
  BY <1>1, <1>2

\* A reply to the question that a case waits for.
LEMMA ReplyKeeps ==
  ASSUME ApiInv, NEW c \in Cases, NEW kind \in InterruptKinds, NEW images \in SUBSET Images,
         NEW before \in {<<>>, <<Turn(images)>>}, before = <<>> => images = {},
         status[c] = Awaiting[kind], MoveTo(c, before, "OBSERVING", <<>>),
         Enqueue(Command(c, kind, images)), UNCHANGED agentVars,
         image' \in [Images -> Uploads], ImagesKept,
         \A i \in images : image'[i] = [state |-> "stored", of |-> c],
         records' \in [Cases -> Seq(Requests)],
         \A d \in Cases : Len(records'[d]) = Len(records[d]) /\ (d # c => records'[d] = records[d]),
         \A k \in DOMAIN records[c] :
           records'[c][k] = records[c][k] \/ (kind \in ResultKinds /\ k = waits[c]),
         kind \in ResultKinds =>
           /\ waits[c] \in DOMAIN records[c] /\ records[c][waits[c]].kind = kind
           /\ records'[c][waits[c]] = [kind |-> kind, result |-> "final"]
  PROVE  ApiInv'
<1>1. PICK entries \in Seq(Entries) :
        /\ Write(c, entries) /\ Len(entries) > 0
        /\ \A n \in 1..Len(entries) : entries[n].type # "interrupt"
        /\ before # <<>> => entries[1].images = images
  BY ReplyIsWritten
<1>2. /\ log' \in [Cases -> Seq(Entries)] /\ Grows
      /\ \A d \in Cases : d # c => log'[d] = log[d]
      /\ Len(log'[c]) = Len(log[c]) + Len(entries)
      /\ \A n \in 1..Len(entries) : log'[c][Len(log[c]) + n] = entries[n]
  BY <1>1, WriteIs DEF ApiInv
<1>3. Len(log[c]) \in Nat /\ Len(entries) \in Nat
  BY LogIs DEF ApiInv
<1>4. PICK m : m = [case |-> c, kind |-> kind, images |-> images, at |-> Len(log'[c])]
  OBVIOUS
<1>5. m \in Commands /\ Enqueue(m)
  BY <1>2, <1>3, <1>4 DEF Commands, Command
<1>6. PICK new \in Nat : new = Len(outbox) + 1
  BY StoredIs DEF ApiInv
<1>7. /\ outbox' \in Seq(Commands) /\ Stored' = Stored \cup {new} /\ new \notin Stored
      /\ outbox'[new] = m /\ \A r \in Stored : outbox'[r] = outbox[r] /\ r < new
  BY <1>5, <1>6, EnqueueIs DEF ApiInv
<1>8. /\ status'[c] = "OBSERVING" /\ \A d \in Cases : d # c => status'[d] = status[d]
      /\ status' \in [Cases -> Statuses \cup {None}]
  BY AwaitingIs DEF MoveTo, ApiInv, Typed
<1>9. Typed'
  BY <1>2, <1>7, <1>8 DEF ApiInv, Typed, agentVars
<1>10. executed' = executed /\ new \notin executed
  BY <1>7 DEF agentVars, ApiInv, Typed
<1>11. Acts(c)
  BY <1>2, <1>4, <1>7, <1>8, <1>9, <1>10 DEF Acts, agentVars
<1>12. /\ agent[c] = "idle" /\ Pending(c) = {}
       /\ kind \in TurnKinds => waits[c] = 0
       /\ \E q \in 1..Len(log[c]) :
            /\ IsQuestion(c, q, Len(log[c])) /\ log[c][q].kind = kind
            /\ \A r \in Stored : outbox[r].case = c => outbox[r].at < q
  BY DEF ApiInv, CaseIs, InTurn, WaitsFor
<1>13. CaseIs(c)'
  <2>1. Pending(c)' = {new}
    <3>1. \A r \in Stored : r \in executed \/ outbox[r].case # c
      BY <1>12 DEF Pending
    <3>2. m.case = c
      BY <1>4
    <3> QED
      BY <1>7, <1>10, <3>1, <3>2 DEF Pending
  <2>2. \A other \in InterruptKinds : status'[c] # Awaiting[other]
    BY <1>8, AwaitingIs
  <2>3. ClosedIsTold(c)' /\ WaitsFor(c)'
    BY <1>8, <2>2, AwaitingIs DEF ClosedIsTold, WaitsFor, Closed
  <2>4. agent'[c] = "idle"
    BY <1>12 DEF agentVars
  <2>5. InTurn(c)' /\ AsksFor(c)'
    BY <1>8, <2>1, <2>2, <2>4, AwaitingIs DEF InTurn, AsksFor, Exists
  <2>6. /\ Len(records'[c]) = Len(records[c]) /\ Len(records[c]) \in Nat
        /\ DOMAIN records[c] = 1..Len(records[c]) /\ DOMAIN records'[c] = 1..Len(records'[c])
    BY <1>9, CaseTyped DEF ApiInv, Typed
  <2>7. \A k \in DOMAIN records'[c] :
          k \in DOMAIN records[c] /\ records'[c][k].kind = records[c][k].kind
    BY <2>6
  <2>8. Asked(c)'
    <3>1. \A n \in 1..Len(log'[c]) : n <= Len(log[c]) \/ log'[c][n].type # "interrupt"
      BY <1>1, NothingAsked DEF ApiInv
    <3>2. Len(records[c]) <= Len(records'[c])
      BY <2>6
    <3>3. Typed /\ Asked(c)
      BY DEF ApiInv, CaseIs
    <3> QED
      BY <1>2, <1>9, <2>7, <3>1, <3>2, <3>3, AskedKept
  <2>9. Settled(c)'
    <3>1. SUFFICES ASSUME NEW k \in DOMAIN records'[c], records'[c][k].kind = Consent,
                          records'[c][k].result = None
                   PROVE  FALSE
      BY DEF Settled
    <3>2. k \in DOMAIN records[c] /\ ~(kind \in ResultKinds /\ k = waits[c])
      BY <2>7, <3>1, AwaitingIs
    <3>3. records[c][k].kind = Consent /\ records[c][k].result = None
      BY <3>1, <3>2
    <3>4. status[c] = Awaiting[Consent] /\ waits[c] = k
      BY <3>2, <3>3, AwaitingIs DEF ApiInv, CaseIs, Settled
    <3>5. Consent \in InterruptKinds /\ Consent \in ResultKinds
      BY DEF Consent, InterruptKinds, ResultKinds
    <3>6. kind = Consent
      BY <3>4, <3>5, AwaitingIs
    <3> QED
      BY <3>2, <3>4, <3>5, <3>6
  <2> QED
    BY <2>3, <2>5, <2>8, <2>9 DEF CaseIs
<1>14. RowIs(new)'
  <2>1. m.case = c /\ m.at = Len(log'[c]) /\ m.kind = kind /\ m.images = images
    BY <1>4
  <2>2. ASSUME NEW i \in images PROVE Served(c, i)'
    <3>1. before # <<>> /\ i \in entries[1].images
      BY <1>1, <2>2
    <3>2. /\ Len(log[c]) + 1 \in DOMAIN log'[c]
          /\ log'[c][Len(log[c]) + 1] = entries[1]
      <4>1. DOMAIN log'[c] = 1..Len(log'[c])
        BY <1>2
      <4> QED
        BY <1>1, <1>2, <1>3, <4>1
    <3> QED
      BY <3>1, <3>2 DEF Served
  <2>3. PICK q \in 1..Len(log[c]) :
          /\ IsQuestion(c, q, Len(log[c])) /\ log[c][q].kind = kind
          /\ \A r \in Stored : outbox[r].case = c => outbox[r].at < q
    BY <1>12
  <2>4. IsQuestion(c, q, Len(log[c]))' /\ log'[c][q].kind = kind /\ q \in 1..Len(log'[c])
    <3>1. q \in 0..Len(log[c])
      BY <1>3, <2>3
    <3>2. IsQuestion(c, q, Len(log[c]))'
      BY <1>1, <2>3, <3>1, QuestionStays DEF ApiInv
    <3>3. log'[c][q] = log[c][q] /\ Len(log[c]) <= Len(log'[c])
      BY <1>2, <2>3 DEF Grows
    <3> QED
      BY <1>2, <1>3, <2>3, <3>2, <3>3
  <2>5. IsQuestion(c, q, m.at)'
    BY <2>1, <2>4 DEF IsQuestion
  <2>6. \A p \in Stored' : p < new /\ outbox'[p].case = c => outbox'[p].at < q
    <3>1. \A p \in Stored' : p < new => p \in Stored
      BY <1>7
    <3>2. \A p \in Stored : outbox'[p] = outbox[p]
      BY <1>7
    <3> QED
      BY <2>3, <3>1, <3>2
  <2>7. Resumed(m)'
    <3>1. kind \in ResultKinds => waits[c] # 0
      BY CaseTyped DEF ApiInv
    <3> QED
      BY <1>12, <2>1, <3>1, AwaitingIs DEF Resumed, agentVars
  <2>8. q \in 0..m.at /\ q # 0 /\ m.at <= Len(log'[c])
    BY <1>2, <1>3, <2>1, <2>4
  <2> QED
    BY <1>7, <2>1, <2>2, <2>4, <2>5, <2>6, <2>7, <2>8 DEF RowIs, Resumed
<1>15. \A r \in Stored : outbox[r].case = c => r \in executed'
  BY <1>10, <1>12 DEF Pending
<1> QED
  BY <1>7, <1>11, <1>13, <1>14, <1>15, ActsSuffice

LEMMA SendMessageKeeps ==
  ASSUME ApiInv, NEW c \in Cases, NEW images \in SUBSET Images, NEW kind \in TurnKinds,
         SendMessage(c, kind, images)
  PROVE  ApiInv'
<1>1. kind \in InterruptKinds /\ kind \notin ResultKinds
  BY AwaitingIs
<1>2. /\ status[c] = Awaiting[kind] /\ MoveTo(c, <<Turn(images)>>, "OBSERVING", <<>>)
      /\ Bind(c, images) /\ Enqueue(Command(c, kind, images))
      /\ UNCHANGED records /\ UNCHANGED agentVars
  BY DEF SendMessage
<1>3. records' \in [Cases -> Seq(Requests)]
  BY <1>2 DEF ApiInv, Typed
<1>4. <<Turn(images)>> # <<>>
  OBVIOUS
<1>5. /\ image' \in [Images -> Uploads] /\ ImagesKept
      /\ \A i \in images : image'[i] = [state |-> "stored", of |-> c]
  BY <1>2, BindIs DEF ApiInv
<1> QED
  BY <1>1, <1>2, <1>3, <1>4, <1>5, ReplyKeeps

\* The request that is answered is the one the checkpoint waits for.
LEMMA AnswerKeeps ==
  ASSUME ApiInv, NEW c \in Cases, NEW kind \in ResultKinds, NEW k \in DOMAIN records[c],
         Answer(c, k, kind), k = waits[c], records[c][k].kind = kind
  PROVE  ApiInv'
<1>1. kind \in InterruptKinds
  BY AwaitingIs
<1>2. /\ status[c] = Awaiting[kind] /\ MoveTo(c, <<>>, "OBSERVING", <<>>)
      /\ records' = [records EXCEPT ![c][k].result = "final"]
      /\ Enqueue(Command(c, kind, {})) /\ UNCHANGED image /\ UNCHANGED agentVars
  BY DEF Answer
<1>4. /\ records[c] \in Seq(Requests) /\ Len(records[c]) \in Nat
      /\ DOMAIN records[c] = 1..Len(records[c]) /\ waits[c] \in 0..Len(records[c])
  BY CaseTyped DEF ApiInv
<1>6. PICK answered : answered = [kind |-> kind, result |-> "final"]
  OBVIOUS
<1>7. records[c][k] \in Requests /\ records[c][k].kind = kind
  BY <1>4, ElementOfSeq
<1>8. [records[c][k] EXCEPT !.result = "final"] = answered /\ answered \in Requests
  BY <1>6, <1>7 DEF Requests
<1>9. /\ records'[c] = [records[c] EXCEPT ![k] = answered]
      /\ \A d \in Cases : d # c => records'[d] = records[d]
  BY <1>2, <1>8 DEF ApiInv, Typed
<1>10. /\ records'[c] \in Seq(Requests) /\ Len(records'[c]) = Len(records[c])
       /\ records'[c][k] = answered
       /\ \A j \in DOMAIN records[c] : j # k => records'[c][j] = records[c][j]
  BY <1>4, <1>8, <1>9, ExceptSeq
<1>11. records' \in [Cases -> Seq(Requests)]
  BY <1>2, <1>9, <1>10 DEF ApiInv, Typed
<1>12. \A d \in Cases : Len(records'[d]) = Len(records[d])
  BY <1>9, <1>10
<1>13. image' \in [Images -> Uploads] /\ ImagesKept
  BY <1>2, NoImageTouched DEF ApiInv, Typed
<1>14. records'[c][waits[c]] = [kind |-> kind, result |-> "final"]
  BY <1>6, <1>10
<1>15. PICK images \in SUBSET Images : images = {}
  OBVIOUS
<1>16. PICK before \in {<<>>, <<Turn(images)>>} : before = <<>>
  OBVIOUS
<1>17. \A j \in DOMAIN records[c] :
         records'[c][j] = records[c][j] \/ (kind \in ResultKinds /\ j = waits[c])
  BY <1>10
<1>18. waits[c] \in DOMAIN records[c] /\ records[c][waits[c]].kind = kind
  BY <1>7
<1>19. /\ MoveTo(c, before, "OBSERVING", <<>>) /\ Enqueue(Command(c, kind, images))
       /\ \A i \in images : image'[i] = [state |-> "stored", of |-> c]
  BY <1>2, <1>15, <1>16
<1>20. \A d \in Cases : Len(records'[d]) = Len(records[d]) /\ (d # c => records'[d] = records[d])
  BY <1>9, <1>12
<1> QED
  BY <1>1, <1>2, <1>11, <1>13, <1>14, <1>15, <1>17, <1>18, <1>19, <1>20, ReplyKeeps

\* What is answered is what the checkpoint waits for: the review submitted last, or the
\* consent that the last interrupt asks for.
LEMMA CompleteReviewKeeps ==
  ASSUME ApiInv, NEW c \in Cases, NEW k \in DOMAIN records[c], CompleteReview(c, k)
  PROVE  ApiInv'
<1>1. /\ IsLatest(c, k, "HUMAN_REVIEW") /\ Answer(c, k, "HUMAN_REVIEW")
      /\ "HUMAN_REVIEW" \in InterruptKinds /\ "HUMAN_REVIEW" \in ResultKinds
  BY DEF CompleteReview, InterruptKinds, ResultKinds
<1>2. OpenRequest(c, "HUMAN_REVIEW")
  BY <1>1 DEF Answer, ApiInv, CaseIs, WaitsFor
<1>3. /\ Len(records[c]) \in Nat /\ DOMAIN records[c] = 1..Len(records[c])
      /\ waits[c] \in 0..Len(records[c])
  BY CaseTyped DEF ApiInv
<1>4. k = waits[c]
  <2>1. waits[c] \in DOMAIN records[c] /\ k \in 1..Len(records[c])
    BY <1>2, <1>3 DEF OpenRequest, Unanswered
  <2>2. waits[c] <= k /\ k <= waits[c]
    BY <1>1, <1>2, <2>1 DEF OpenRequest, IsLatest
  <2> QED
    BY <1>3, <2>1, <2>2
<1> QED
  BY <1>1, <1>4, AnswerKeeps DEF IsLatest

LEMMA LastAskedIs ==
  ASSUME ApiInv, NEW c \in Cases, NEW kind \in InterruptKinds, status[c] = Awaiting[kind]
  PROVE  LastAsked(c).kind = kind /\ LastAsked(c).of = waits[c]
<1>1. PICK q \in 1..Len(log[c]) :
        /\ IsQuestion(c, q, Len(log[c]))
        /\ log[c][q].kind = kind /\ log[c][q].of = waits[c]
  BY DEF ApiInv, CaseIs, WaitsFor
<1>2. Len(log[c]) \in Nat /\ DOMAIN log[c] = 1..Len(log[c])
  BY LogIs DEF ApiInv
<1> DEFINE asked == {n \in 1..Len(log[c]) : log[c][n].type = "interrupt"}
<1>3. q \in asked /\ (\A k \in asked : k <= q) /\ asked \in SUBSET Nat
  BY <1>1, <1>2 DEF IsQuestion
<1>4. Max(asked) = q
  <2> HIDE DEF asked
  <2> QED
    BY <1>3, MaxIs
<1> QED
  BY <1>1, <1>2, <1>3, <1>4 DEF LastAsked

LEMMA ConfirmPolicyKeeps ==
  ASSUME ApiInv, NEW c \in Cases, NEW k \in DOMAIN records[c], ConfirmPolicy(c, k)
  PROVE  ApiInv'
<1>1. /\ LastAsked(c) = Asks(Consent, k) /\ Answer(c, k, Consent)
      /\ Consent \in InterruptKinds /\ Consent \in ResultKinds
  BY DEF ConfirmPolicy, Consent, InterruptKinds, ResultKinds
<1>2. status[c] = Awaiting[Consent]
  BY <1>1 DEF Answer
<1>3. k = waits[c]
  BY <1>1, <1>2, LastAskedIs DEF Asks
<1>4. records[c][k].kind = Consent
  BY <1>1, <1>2, <1>3 DEF ApiInv, CaseIs, WaitsFor, ConsentIsDue
<1> QED
  BY <1>1, <1>3, <1>4, AnswerKeeps

LEMMA CreateCaseKeeps ==
  ASSUME ApiInv, NEW c \in Cases, NEW images \in SUBSET Images, CreateCase(c, images)
  PROVE  ApiInv'
<1>1. PICK entries \in Seq(Entries) : entries = <<Turn(images)>>
  <2>1. <<Turn(images)>> \in Seq(Entries)
    BY EventsAreEntries
  <2> QED
    BY <2>1
<1>2. /\ ~Exists(c) /\ status' = [status EXCEPT ![c] = "OBSERVING"] /\ Write(c, entries)
      /\ Bind(c, images) /\ Enqueue(Command(c, "START", images))
      /\ UNCHANGED records /\ UNCHANGED agentVars
  BY <1>1 DEF CreateCase
<1>3. Len(entries) = 1 /\ entries[1].type = "user_turn" /\ entries[1].images = images
  BY <1>1, EventsAreEntries
<1>4. /\ agent[c] = "idle" /\ waits[c] = 0 /\ log[c] = <<>> /\ \A r \in Stored : outbox[r].case # c
  BY <1>2 DEF ApiInv, CaseIs, InTurn
<1>5. /\ log' \in [Cases -> Seq(Entries)] /\ Grows /\ Len(log'[c]) = 1
      /\ \A d \in Cases : d # c => log'[d] = log[d]
      /\ log'[c][1] = entries[1] /\ DOMAIN log'[c] = 1..1
  <2>1. /\ log' \in [Cases -> Seq(Entries)] /\ Grows
        /\ \A d \in Cases : d # c => log'[d] = log[d]
        /\ Len(log'[c]) = Len(log[c]) + Len(entries)
        /\ \A n \in 1..Len(entries) : log'[c][Len(log[c]) + n] = entries[n]
    BY <1>2, WriteIs DEF ApiInv
  <2>2. Len(log[c]) = 0
    BY <1>4
  <2> QED
    BY <1>3, <2>1, <2>2
<1>6. PICK m : m = [case |-> c, kind |-> "START", images |-> images, at |-> 1]
  OBVIOUS
<1>7. m \in Commands /\ Enqueue(m)
  BY <1>2, <1>5, <1>6 DEF Commands, Command
<1>8. PICK new \in Nat : new = Len(outbox) + 1
  BY StoredIs DEF ApiInv
<1>9. /\ outbox' \in Seq(Commands) /\ Stored' = Stored \cup {new} /\ new \notin Stored
      /\ outbox'[new] = m /\ \A r \in Stored : outbox'[r] = outbox[r] /\ r < new
  BY <1>7, <1>8, EnqueueIs DEF ApiInv
<1>10. /\ status'[c] = "OBSERVING" /\ \A d \in Cases : d # c => status'[d] = status[d]
       /\ status' \in [Cases -> Statuses \cup {None}]
  BY <1>2, AwaitingIs DEF ApiInv, Typed
<1>11. /\ image' \in [Images -> Uploads] /\ ImagesKept
       /\ \A i \in images : image'[i] = [state |-> "stored", of |-> c]
  BY <1>2, BindIs DEF ApiInv
<1>12. Typed'
  BY <1>2, <1>5, <1>9, <1>10, <1>11 DEF ApiInv, Typed, agentVars
<1>13. executed' = executed /\ new \notin executed
  BY <1>2, <1>9 DEF agentVars, ApiInv, Typed
<1>14. Acts(c)
  BY <1>2, <1>5, <1>6, <1>9, <1>10, <1>11, <1>12, <1>13 DEF Acts, agentVars
<1>15. CaseIs(c)'
  <2>1. Pending(c)' = {new}
    BY <1>4, <1>6, <1>9, <1>13 DEF Pending
  <2>2. \A other \in InterruptKinds : status'[c] # Awaiting[other]
    BY <1>10, AwaitingIs
  <2>3. ClosedIsTold(c)' /\ WaitsFor(c)'
    BY <1>10, <2>2 DEF ClosedIsTold, WaitsFor, Closed
  <2>4. agent'[c] = "idle"
    BY <1>2, <1>4 DEF agentVars
  <2>5. InTurn(c)' /\ AsksFor(c)'
    BY <1>10, <2>1, <2>2, <2>4, AwaitingIs DEF InTurn, AsksFor, Exists
  <2>6. Asked(c)'
    <3>1. \A n \in 1..Len(entries) : entries[n].type # "interrupt"
      BY <1>3
    <3>2. \A n \in 1..Len(log'[c]) : n <= Len(log[c]) \/ log'[c][n].type # "interrupt"
      BY <1>2, <3>1, NothingAsked DEF ApiInv
    <3>3. Len(records[c]) \in Nat
      BY CaseTyped DEF ApiInv
    <3>4. Typed /\ Asked(c)
      BY DEF ApiInv, CaseIs
    <3>5. UNCHANGED records /\ Len(records[c]) <= Len(records'[c])
      BY <1>2, <3>3
    <3> QED
      BY <1>2, <1>5, <1>12, <3>2, <3>4, <3>5, AskedKept
  <2>7. Settled(c)'
    <3>1. Consent \in InterruptKinds
      BY DEF Consent, InterruptKinds
    <3>2. status[c] \notin Closed /\ status[c] # Awaiting[Consent]
      BY <1>2, <3>1, AwaitingIs DEF Exists
    <3> QED
      BY <1>2, <3>2 DEF ApiInv, CaseIs, Settled
  <2> QED
    BY <2>3, <2>5, <2>6, <2>7 DEF CaseIs
<1>16. RowIs(new)'
  <2>1. m.case = c /\ m.at = 1 /\ m.kind = "START" /\ m.images = images
    BY <1>6
  <2>2. \A i \in images : Served(c, i)'
    BY <1>3, <1>5, <1>11 DEF Served
  <2>3. IsQuestion(c, 0, 1)'
    BY <1>3, <1>5 DEF IsQuestion
  <2>4. \A p \in Stored' : p < new => outbox'[p].case # c
    BY <1>4, <1>9
  <2>5. Resumed(m)'
    BY <1>2, <1>4, <2>1, AwaitingIs DEF Resumed, agentVars
  <2>6. 0 \in 0..m.at /\ m.at <= Len(log'[c])
    BY <1>5, <2>1
  <2> QED
    BY <1>9, <2>1, <2>2, <2>3, <2>4, <2>5, <2>6 DEF RowIs, Resumed
<1> QED
  BY <1>4, <1>9, <1>14, <1>15, <1>16, ActsSuffice

LEMMA RequestKeeps ==
  ASSUME ApiInv, RequestNext
  PROVE  ApiInv'
<1>1. ASSUME NEW c \in Cases, NEW k \in DOMAIN records[c],
             CompleteReview(c, k) \/ ConfirmPolicy(c, k)
      PROVE  ApiInv'
  BY <1>1, CompleteReviewKeeps, ConfirmPolicyKeeps
<1> QED
  BY <1>1, UploadKeeps, CreateCaseKeeps, SendMessageKeeps DEF RequestNext

LEMMA AgentKeeps ==
  ASSUME ApiInv, AgentNext
  PROVE  ApiInv'
BY StartRunKeeps, NoteKeeps, SubmitKeeps, ResolveKeeps, EndKeeps, RefuseKeeps, InterruptKeeps
DEF AgentNext

LEMMA ApiKeeps ==
  ASSUME ApiInv, ApiNext
  PROVE  ApiInv'
BY RequestKeeps, AgentKeeps, OutboxKeeps DEF ApiNext

LEMMA RestKeeps ==
  ASSUME ApiInv, UNCHANGED apiVars
  PROVE  ApiInv'
<1>1. UNCHANGED <<outbox, caseVars, image, agentVars>>
  BY DEF apiVars, outboxVars
<1>2. Typed'
  BY <1>1 DEF ApiInv, Typed, Stored, caseVars, agentVars
<1> QED
  BY <1>1, <1>2, ApartKeeps, NoImageTouched

-----------------------------------------------------------------------------
(* The stream. *)

\* The API appends: what was read stays as it was, and what comes is new.
LEMMA ApiOnlyAppends ==
  ASSUME ApiInv, ApiNext
  PROVE  Grows
<1>1. ASSUME NEW c \in Cases, NEW entries \in Seq(Entries), Write(c, entries)
      PROVE  Grows
  BY <1>1, WriteIs DEF ApiInv
<1>2. CASE UNCHANGED log
  BY <1>2, NothingWritten DEF ApiInv
<1>3. ASSUME NEW c \in Cases,
             NEW before,
             \/ before \in {<<>>, <<Event("error")>>} \cup {<<Turn(i)>> : i \in SUBSET Images}
             \/ \E kind \in InterruptKinds, k \in Nat : before = <<Asks(kind, k)>>,
             NEW after \in {<<>>, <<Event("done")>>}, NEW to, MoveTo(c, before, to, after)
      PROVE  Grows
  <2>1. before \in Seq(Entries) /\ after \in Seq(Entries)
    <3>1. /\ <<>> \in Seq(Entries) /\ <<Event("error")>> \in Seq(Entries)
          /\ <<Event("done")>> \in Seq(Entries)
      BY EventsAreEntries DEF EntryTypes
    <3>2. \A i \in SUBSET Images : <<Turn(i)>> \in Seq(Entries)
      BY EventsAreEntries
    <3>3. \A kind \in InterruptKinds, k \in Nat : <<Asks(kind, k)>> \in Seq(Entries)
      BY EventsAreEntries
    <3> QED
      BY <1>3, <3>1, <3>2, <3>3
  <2>2. <<Event("state_change")>> \in Seq(Entries)
    BY EventsAreEntries DEF EntryTypes
  <2>3. before \o <<Event("state_change")>> \o after \in Seq(Entries)
    BY <2>1, <2>2
  <2> QED
    BY <1>1, <1>3, <2>3 DEF MoveTo
<1>4. CASE RequestNext
  <2>1. ASSUME NEW c \in Cases, NEW images \in SUBSET Images, CreateCase(c, images)
        PROVE  Grows
    <3>1. <<Turn(images)>> \in Seq(Entries)
      BY EventsAreEntries
    <3> QED
      BY <1>1, <2>1, <3>1 DEF CreateCase
  <2>2. ASSUME NEW c \in Cases, NEW images \in SUBSET Images, NEW kind \in TurnKinds,
               SendMessage(c, kind, images)
        PROVE  Grows
    BY <1>3, <2>2 DEF SendMessage
  <2>3. ASSUME NEW c \in Cases, NEW k, CompleteReview(c, k) \/ ConfirmPolicy(c, k)
        PROVE  Grows
    BY <1>3, <2>3 DEF CompleteReview, ConfirmPolicy, Answer
  <2>4. ASSUME NEW i \in Images, EndUpload(i) \/ \E c \in Cases \cup {None} : BeginUpload(i, c)
        PROVE  Grows
    BY <1>2, <2>4 DEF EndUpload, BeginUpload, caseVars
  <2> QED
    BY <1>4, <2>1, <2>2, <2>3, <2>4 DEF RequestNext
<1>5. CASE AgentNext
  <2>1. ASSUME NEW c \in Cases, StartRun(c) \/ SubmitForReview(c) \/ Refuse(c)
        PROVE  Grows
    BY <1>2, <2>1 DEF StartRun, SubmitForReview, Refuse, caseVars
  <2>2. ASSUME NEW c \in Cases, Note(c) PROVE Grows
    <3>1. <<Event("node")>> \in Seq(Entries)
      BY EventsAreEntries DEF EntryTypes
    <3> QED
      BY <1>1, <2>2, <3>1 DEF Note
  <2>3. ASSUME NEW c \in Cases, Resolve(c) PROVE Grows
    <3>1. <<Event("state_change"), Event("state_change"), Event("done")>> \in Seq(Entries)
      BY EventsAreEntries DEF EntryTypes
    <3> QED
      BY <1>1, <1>3, <2>3, <3>1 DEF Resolve
  <2>4. ASSUME NEW c \in Cases, CompleteRefund(c) \/ Escalate(c) PROVE Grows
    BY <1>3, <2>4 DEF CompleteRefund, Escalate
  <2>5. ASSUME NEW c \in Cases, NEW kind \in InterruptKinds, Interrupt(c, kind) PROVE Grows
    <3>1. waits'[c] \in Nat
      BY <2>5, WhatIsAsked
    <3> QED
      BY <1>3, <2>5, <3>1 DEF Interrupt
  <2> QED
    BY <1>5, <2>1, <2>2, <2>3, <2>4, <2>5 DEF AgentNext
<1> QED
  BY <1>2, <1>4, <1>5 DEF ApiNext, caseVars

LEMMA WatchedIs ==
  ASSUME Typed
  PROVE  /\ Watched \in Cases /\ Len(log[Watched]) \in Nat
         /\ Visible(Watched) \subseteq 1..Len(log[Watched])
         /\ HasDone(Watched) <=> \E n \in Visible(Watched) : log[Watched][n].type = "done"
BY StreamAssumption, LogIs DEF Visible, HasDone

LEMMA AppendingKeepsStream ==
  ASSUME ApiInv, Typed', StreamIs, Grows, UNCHANGED streamVars
  PROVE  StreamIs'
<1>1. /\ Watched \in Cases /\ Len(log[Watched]) \in Nat /\ Len(log'[Watched]) \in Nat
      /\ DOMAIN log[Watched] = 1..Len(log[Watched])
      /\ DOMAIN log'[Watched] = 1..Len(log'[Watched])
  BY StreamAssumption DEF ApiInv, Typed
<1>2. /\ Len(log[Watched]) <= Len(log'[Watched])
      /\ \A n \in 1..Len(log[Watched]) : log'[Watched][n] = log[Watched][n]
  BY <1>1 DEF Grows
<1>3. \A n \in 0..Len(log[Watched]) : Knows(n)' = Knows(n)
  BY <1>1, <1>2 DEF Knows, Visible
<1>4. UNCHANGED <<stream, cursor, got, seen, batch>>
  BY DEF streamVars
<1>5. cursor \in 0..Len(log[Watched]) /\ cursor \in Nat
  BY <1>1 DEF StreamIs
<1>6. got \cup batch \subseteq 1..Len(log[Watched])
  <2>1. \A n : Knows(n) \subseteq 1..Len(log[Watched])
    BY <1>1 DEF Knows, Visible
  <2>2. got \subseteq 1..Len(log[Watched])
    BY <2>1 DEF StreamIs
  <2>3. stream = "send" => \E n : batch = Knows(n) \ got
    BY DEF StreamIs
  <2>4. stream # "send" => batch = {}
    BY DEF StreamIs
  <2> QED
    BY <2>1, <2>2, <2>3, <2>4
<1>7. HasDone(Watched) => HasDone(Watched)'
  BY <1>1, DoneKept DEF ApiInv
<1>8. got' = Knows(cursor)' /\ cursor' \in Nat /\ cursor' <= Len(log'[Watched])
  <2>1. got = Knows(cursor)
    BY DEF StreamIs
  <2>2. PICK n \in 0..Len(log[Watched]) : n = cursor
    BY <1>5
  <2>3. Knows(n)' = Knows(n)
    BY <1>3
  <2> QED
    BY <1>1, <1>2, <1>4, <1>5, <2>1, <2>2, <2>3 DEF Knows
<1>9. stream' = "send" => \E n \in cursor'..Len(log'[Watched]) : batch' = Knows(n)' \ got'
  <2>1. SUFFICES ASSUME stream = "send"
                 PROVE  \E n \in cursor..Len(log'[Watched]) : batch = Knows(n)' \ got
    BY <1>4
  <2>2. PICK n \in cursor..Len(log[Watched]) : batch = Knows(n) \ got
    BY <2>1 DEF StreamIs
  <2>3. n \in 0..Len(log[Watched]) /\ n \in cursor..Len(log'[Watched])
    BY <1>1, <1>2, <1>5
  <2>4. Knows(n)' = Knows(n)
    BY <1>3, <2>3
  <2> QED
    BY <2>2, <2>3, <2>4
<1>10. \A n \in got \cup batch : log'[Watched][n] = log[Watched][n]
  BY <1>2, <1>6
<1> QED
  BY <1>4, <1>7, <1>8, <1>9, <1>10 DEF StreamIs

\* What is sent up to a number that was read, or to none, is all there is up to it.
LEMMA SendingIs ==
  ASSUME ApiInv, StreamIs, UNCHANGED apiVars, NEW n, SendUpTo(n),
         n = cursor \/ (stream = "send" /\ n \in batch)
  PROVE  /\ cursor' = n /\ n \in Nat /\ n <= Len(log[Watched]) /\ got' = Knows(n)
         /\ batch' = {}
<1>1. /\ Watched \in Cases /\ Len(log[Watched]) \in Nat
      /\ Visible(Watched) \subseteq 1..Len(log[Watched])
  BY WatchedIs DEF ApiInv
<1>2. /\ cursor \in Nat /\ cursor <= Len(log[Watched]) /\ got = Knows(cursor)
      /\ stream # "send" => batch = {}
      /\ stream = "send" => \E m \in cursor..Len(log[Watched]) : batch = Knows(m) \ got
  BY DEF StreamIs
<1>3. cursor' = n /\ got' = got \cup {k \in batch : k <= n} /\ batch' = {}
  BY DEF SendUpTo
<1>4. CASE stream # "send"
  BY <1>2, <1>3, <1>4
<1>5. CASE stream = "send"
  <2>1. PICK m \in cursor..Len(log[Watched]) : batch = Knows(m) \ got
    BY <1>2, <1>5
  <2>2. \A k \in batch : k \in Visible(Watched) /\ k > cursor /\ k <= m /\ k \in Nat
    BY <1>1, <1>2, <2>1 DEF Knows
  <2>3. n \in Nat /\ cursor <= n /\ n <= m
    BY <1>1, <1>2, <2>1, <2>2
  <2>4. got' = Knows(n)
    <3>1. ASSUME NEW k \in got' PROVE k \in Knows(n)
      BY <1>1, <1>2, <1>3, <2>2, <2>3, <3>1 DEF Knows
    <3>2. ASSUME NEW k \in Knows(n) PROVE k \in got'
      <4>1. k \in Visible(Watched) /\ k <= n /\ k \in Nat
        BY <1>1, <3>2 DEF Knows
      <4>2. k \in Knows(m)
        BY <1>1, <2>1, <2>3, <4>1 DEF Knows
      <4> QED
        BY <1>3, <2>1, <4>1, <4>2
    <3> QED
      BY <3>1, <3>2
  <2> QED
    BY <1>1, <1>3, <2>1, <2>3, <2>4
<1> QED
  BY <1>4, <1>5

LEMMA StreamKeeps ==
  ASSUME ApiInv, StreamIs, StreamNext, UNCHANGED apiVars
  PROVE  StreamIs'
<1>1. /\ Watched \in Cases /\ Len(log[Watched]) \in Nat
      /\ Visible(Watched) \subseteq 1..Len(log[Watched])
      /\ HasDone(Watched) <=> \E n \in Visible(Watched) : log[Watched][n].type = "done"
  BY WatchedIs DEF ApiInv
<1>2. UNCHANGED log /\ UNCHANGED status
  BY DEF apiVars, caseVars
<1>3. /\ \A n \in Nat : Knows(n)' = Knows(n)
      /\ HasDone(Watched)' <=> HasDone(Watched)
  BY <1>2 DEF Knows, Visible, HasDone
<1>4. /\ cursor \in Nat /\ cursor <= Len(log[Watched]) /\ got = Knows(cursor)
  BY DEF StreamIs
<1>5. CASE Connect \/ (stream = "poll" /\ ReadAfter)
  <2>1. /\ UNCHANGED <<cursor, got, batch>> /\ batch = {} /\ stream' \in {"poll", "read"}
        /\ stream' = "read" => seen' = status[Watched]
    BY <1>5 DEF Connect, ReadAfter, StreamIs
  <2>2. stream' = "read" /\ seen' \in Closed => HasDone(Watched)
    BY <1>1, <2>1 DEF ApiInv, CaseIs, ClosedIsTold
  <2>3. got' = Knows(cursor)'
    BY <1>2, <1>4, <2>1 DEF Knows, Visible
  <2> QED
    BY <1>2, <1>3, <1>4, <2>1, <2>2, <2>3 DEF StreamIs
<1>6. CASE stream = "read" /\ ReadAfter
  <2>1. UNCHANGED <<cursor, got, seen>> /\ stream' = "send" /\ batch' = After(cursor)
    BY <1>6 DEF ReadAfter
  <2>2. PICK n \in cursor..Len(log[Watched]) : n = Len(log[Watched])
    BY <1>1, <1>4
  <2>3. batch' = Knows(n) \ got /\ Knows(n) = Visible(Watched)
    BY <1>1, <1>4, <2>1, <2>2 DEF After, Knows
  <2>4. Knows(n)' = Knows(n)
    BY <1>2 DEF Knows, Visible
  <2>5. got' = Knows(cursor)'
    BY <1>2, <1>4, <2>1 DEF Knows, Visible
  <2>6. seen \in Closed => \E k \in Visible(Watched) : log[Watched][k].type = "done"
    BY <1>1, <1>6 DEF StreamIs
  <2>7. seen' \in Closed => \E k \in got' \cup batch' : log'[Watched][k].type = "done"
    BY <1>2, <2>1, <2>3, <2>6
  <2>8. \E k \in cursor'..Len(log'[Watched]) : batch' = Knows(k)' \ got'
    BY <1>2, <2>1, <2>3, <2>4
  <2> QED
    BY <1>2, <1>4, <2>1, <2>5, <2>7, <2>8 DEF StreamIs
<1>7. CASE Send
  <2>1. SendUpTo(LastOf(batch)) /\ stream = "send"
        /\ stream' = IF seen \in Closed THEN "ended" ELSE "poll"
    BY <1>7 DEF Send
  <2>2. PICK n : n = LastOf(batch)
    OBVIOUS
  <2>3. batch \subseteq 1..Len(log[Watched])
    BY <1>1, <2>1 DEF StreamIs, Knows
  <2>4. /\ n = cursor \/ n \in batch
        /\ \A k \in batch : k <= n
    BY <1>1, <2>2, <2>3, MaxOf DEF LastOf
  <2>5. SendUpTo(n)
    BY <2>1, <2>2
  <2>6. /\ cursor' = n /\ n \in Nat /\ n <= Len(log[Watched]) /\ got' = Knows(n) /\ batch' = {}
    BY <2>1, <2>4, <2>5, SendingIs
  <2>7. Knows(cursor)' = Knows(n)
    BY <1>2, <2>6 DEF Knows, Visible
  <2>8. got \cup batch \subseteq got' /\ seen' = seen
    BY <2>4, <2>5 DEF SendUpTo
  <2>9. seen \in Closed => \E k \in got' : log'[Watched][k].type = "done"
    BY <1>2, <2>1, <2>8 DEF StreamIs
  <2> QED
    BY <1>2, <2>1, <2>6, <2>7, <2>9 DEF StreamIs
<1>8. CASE Disconnect
  <2>1. PICK n \in {cursor} \cup (IF stream = "send" THEN batch ELSE {}) : SendUpTo(n)
    BY <1>8 DEF Disconnect
  <2>2. /\ cursor' = n /\ n \in Nat /\ n <= Len(log[Watched]) /\ got' = Knows(n) /\ batch' = {}
    BY <2>1, SendingIs
  <2>3. Knows(cursor)' = Knows(n)
    BY <1>2, <2>2 DEF Knows, Visible
  <2>4. stream' = "closed"
    BY <1>8 DEF Disconnect
  <2> QED
    BY <1>2, <2>2, <2>3, <2>4 DEF StreamIs
<1> QED
  BY <1>5, <1>6, <1>7, <1>8 DEF StreamNext, ReadAfter

-----------------------------------------------------------------------------
(* Theorems. *)

LEMMA Initially == Init => IInv
<1> SUFFICES ASSUME Init PROVE IInv
  OBVIOUS
<1> USE DEF Init, ApiInit, OutboxInit, StreamInit
<1>1. Stored = {}
  BY DEF Stored
<1>2. Typed
  BY <1>1 DEF Typed, Stored, Uploads
<1>3. ASSUME NEW c \in Cases PROVE CaseIs(c)
  <2>1. Pending(c) = {}
    BY <1>1 DEF Pending
  <2> QED
    BY <1>1, <2>1, AwaitingIs
    DEF CaseIs, ClosedIsTold, InTurn, WaitsFor, AsksFor, Exists, Asked, Settled
<1>4. StreamIs
  BY WatchedIs, <1>2 DEF StreamIs, Knows, Visible
<1> QED
  BY <1>1, <1>2, <1>3, <1>4 DEF IInv, ApiInv

\* In every reachable state: events only grow in number and the client knows them up to
\* its cursor; a case that waits is at rest, behind its question, and no consent but the
\* one it waits for is open; a reply is about the question before it, which came after
\* all earlier commands.
THEOREM Invariance == Spec => []IInv
<1>1. IInv /\ [Next]_vars => IInv'
  <2> SUFFICES ASSUME IInv, [Next]_vars PROVE IInv'
    OBVIOUS
  <2>1. CASE ApiNext /\ UNCHANGED streamVars
    <3>1. ApiInv' /\ Grows
      BY <2>1, ApiKeeps, ApiOnlyAppends DEF IInv
    <3> QED
      BY <2>1, <3>1, AppendingKeepsStream DEF IInv, ApiInv
  <2>2. CASE StreamNext /\ UNCHANGED apiVars
    BY <2>2, StreamKeeps, RestKeeps DEF IInv
  <2>3. CASE UNCHANGED vars
    <3>1. UNCHANGED apiVars /\ UNCHANGED streamVars /\ UNCHANGED log
      BY <2>3 DEF vars, apiVars, caseVars
    <3>2. ApiInv' /\ Grows
      BY <3>1, RestKeeps, NothingWritten DEF IInv, ApiInv
    <3> QED
      BY <3>1, <3>2, AppendingKeepsStream DEF IInv, ApiInv
  <2> QED
    BY <2>1, <2>2, <2>3 DEF Next
<1> QED
  BY <1>1, Initially, PTL DEF Spec

\* A client has every event up to its cursor, however often its connection breaks, and
\* a stream that has ended has sent "done": the status is read before the events, and
\* what closes a case is written together with its last event.
THEOREM StreamsCompletely == Spec => []StreamIsComplete
<1>1. IInv => StreamIsComplete
  BY DEF IInv, StreamIs, StreamIsComplete, Knows
<1> QED
  BY <1>1, Invariance, PTL

LEMMA QuestionsDiffer ==
  ASSUME ApiInv, NEW q \in Stored, NEW r \in Stored, q < r,
         outbox[q].case = outbox[r].case, outbox[r].kind # "START"
  PROVE  Question(outbox[q].case, outbox[q].at) # Question(outbox[r].case, outbox[r].at)
<1>1. /\ outbox[q].case \in Cases /\ outbox[q].at \in Nat
      /\ outbox[r].case \in Cases /\ outbox[r].at \in Nat
  BY RowIsTyped DEF ApiInv
<1>2. PICK x \in 0..outbox[r].at :
        /\ IsQuestion(outbox[r].case, x, outbox[r].at) /\ outbox[q].at < x
  BY DEF ApiInv, RowIs
<1>3. PICK y \in 0..outbox[q].at : IsQuestion(outbox[q].case, y, outbox[q].at)
  BY DEF ApiInv, RowIs
<1>4. /\ Question(outbox[r].case, outbox[r].at) = x
      /\ Question(outbox[q].case, outbox[q].at) = y
  BY <1>1, <1>2, <1>3, QuestionIs
<1> QED
  BY <1>1, <1>2, <1>3, <1>4

\* A case that waits shows its question, which is about what its checkpoint waits for: an
\* open review, or a consent that is open unless an earlier interrupt has asked for it,
\* and answered if one has. Every reply has a question of its own and of its kind before
\* it; and the agent finds what a command calls back for: its images, and the result of
\* the very review or consent.
THEOREM RepliesMeet == Spec => []RepliesMeetTheirQuestions
<1>1. IInv => RepliesMeetTheirQuestions
  <2> SUFFICES ASSUME ApiInv PROVE RepliesMeetTheirQuestions
    BY DEF IInv
  <2>1. ASSUME NEW c \in Cases, NEW kind \in InterruptKinds, status[c] = Awaiting[kind]
        PROVE  /\ Shown(c) = {kind}
               /\ LastAsked(c).of = waits[c]
               /\ kind = "HUMAN_REVIEW" => Unanswered(c) /\ IsLatest(c, waits[c], kind)
               /\ kind = "POLICY_CONFIRMATION" =>
                    /\ records[c][waits[c]].kind = kind
                    /\ Unanswered(c) <=> ~AskedAgain(c)
    <3>1. /\ kind = "HUMAN_REVIEW" => OpenRequest(c, kind)
          /\ kind = Consent => ConsentIsDue(c)
      BY <2>1 DEF ApiInv, CaseIs, WaitsFor
    <3>2. Shown(c) = {kind} /\ LastAsked(c).of = waits[c]
      BY <2>1, LastAskedIs, AwaitingIs DEF Shown
    <3> QED
      BY <3>1, <3>2 DEF OpenRequest, ConsentIsDue, Consent
  <2>2. ASSUME NEW r \in Stored
        PROVE  LET m == outbox[r] IN
               /\ \A i \in m.images : Served(m.case, i)
               /\ m.kind # "START" =>
                    /\ Question(m.case, m.at) # 0
                    /\ log[m.case][Question(m.case, m.at)].kind = m.kind
                    /\ \A q \in Stored : outbox[q].case = m.case /\ q # r =>
                         Question(m.case, outbox[q].at) # Question(m.case, m.at)
               /\ m.kind \in ResultKinds /\ r \notin executed =>
                    /\ waits[m.case] # 0
                    /\ records[m.case][waits[m.case]] = [kind |-> m.kind, result |-> "final"]
    <3> DEFINE m == outbox[r]
    <3>1. m.case \in Cases /\ m.at \in Nat /\ r \in Nat
      BY RowIsTyped DEF ApiInv
    <3>2. PICK x \in 0..m.at :
            /\ IsQuestion(m.case, x, m.at)
            /\ m.kind # "START" => x # 0 /\ log[m.case][x].kind = m.kind
      BY DEF ApiInv, RowIs
    <3>3. Question(m.case, m.at) = x
      BY <3>1, <3>2, QuestionIs
    <3>4. ASSUME m.kind # "START", NEW q \in Stored, outbox[q].case = m.case, q # r
          PROVE  Question(m.case, outbox[q].at) # Question(m.case, m.at)
      <4>1. CASE q < r
        BY <3>4, <4>1, QuestionsDiffer
      <4>2. CASE outbox[q].kind # "START" /\ r < q
        BY <3>4, <4>2, QuestionsDiffer
      <4>3. CASE outbox[q].kind = "START" /\ r < q
        <5>1. PICK y \in 0..outbox[q].at :
                IsQuestion(outbox[q].case, y, outbox[q].at) /\ m.at < y
          BY <3>4, <4>3 DEF ApiInv, RowIs
        <5>2. outbox[q].case \in Cases /\ outbox[q].at \in Nat
          BY RowIsTyped DEF ApiInv
        <5>3. Question(m.case, outbox[q].at) = y
          BY <3>4, <5>1, <5>2, QuestionIs
        <5> QED
          BY <3>1, <3>2, <3>3, <5>1, <5>2, <5>3
      <4>4. q \in Nat
        BY RowIsTyped DEF ApiInv
      <4> QED
        BY <3>1, <3>4, <4>1, <4>2, <4>3, <4>4
    <3>5. (\A i \in m.images : Served(m.case, i)) /\ (r \notin executed => Resumed(m))
      BY DEF ApiInv, RowIs
    <3> QED
      BY <3>2, <3>3, <3>4, <3>5 DEF Resumed
  <2> QED
    BY <2>1, <2>2 DEF RepliesMeetTheirQuestions
<1> QED
  BY <1>1, Invariance, PTL

=============================================================================
