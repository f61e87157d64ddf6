--------------------------- MODULE CapabilityProofs ----------------------------
(***************************************************************************)
(* Proofs about two capabilities of the API that do not touch each other:  *)
(* the policy store, first, and the risk snapshots.                        *)
(***************************************************************************)
EXTENDS PolicyStore, UserRisk, FiniteSetTheorems, TLAPS

(***************************************************************************)
(* Proofs about the policy store, for any documents, requests, embedding   *)
(* models, retrievals and verifications. The invariant rests on versions:  *)
(* no two stored bundles have the same one, and the version of what a v2   *)
(* request was answered is a function of the request.                      *)
(***************************************************************************)

Verdicts == {"none", "UNAVAILABLE"} \cup Final

StoreTypes ==
  /\ answer \in [Readers -> SUBSET bundles]
  /\ verdict \in [Readers -> Verdicts]
  /\ told \in [Verifiers -> Verdicts]

VersionsAreUnique == \A b, c \in bundles : b.version = c.version => b = c

\* One answer per call, under the version that Version gives it.
AnswersAreVersioned ==
  \A r \in Readers :
    /\ \A b \in answer[r] : b.version = Version(RequestOf[r], b.content)
    /\ \A b, c \in answer[r] : b = c

VerdictsStand ==
  \A v \in Verifiers : told[v] \in Final => verdict[HandoffOf[v]] = told[v]

StoreInv == StoreTypes /\ VersionsAreUnique /\ AnswersAreVersioned /\ VerdictsStand

-----------------------------------------------------------------------------
\* The invariant gives the property: versions lead back to what was answered.
LEMMA StoreInvSuffices == StoreInv => AnswersStand
<1> SUFFICES ASSUME StoreInv PROVE AnswersStand
  OBVIOUS
<1>1. ASSUME NEW r \in Readers, NEW b \in answer[r]
      PROVE  Persisted(b.version) = {b}
  <2>1. b \in bundles
    BY DEF StoreInv, StoreTypes
  <2> QED
    BY <2>1 DEF StoreInv, VersionsAreUnique, Persisted
<1>2. ASSUME NEW r \in Readers, NEW s \in Readers,
             RequestOf[r] = RequestOf[s], RequestOf[r].schema = "v2",
             answer[r] # {}, answer[s] # {}
      PROVE  answer[r] = answer[s]
  <2>1. \A b \in answer[r] : \A c \in answer[s] : b = c
    <3> TAKE b \in answer[r]
    <3> TAKE c \in answer[s]
    <3>1. b \in bundles /\ c \in bundles
      BY DEF StoreInv, StoreTypes
    <3>2. b.version = <<RequestOf[r]>> /\ c.version = <<RequestOf[r]>>
      BY <1>2 DEF StoreInv, AnswersAreVersioned, Version
    <3> QED
      BY <3>1, <3>2 DEF StoreInv, VersionsAreUnique
  <2> QED
    BY <1>2, <2>1
<1>3. QED
  BY <1>1, <1>2 DEF AnswersStand, StoreInv, VerdictsStand

LEMMA StoreInvInitially == PolicyInit => StoreInv
  BY DEF PolicyInit, StoreInv, StoreTypes, Verdicts, Final, VersionsAreUnique,
         AnswersAreVersioned, VerdictsStand

\* Documents and the other steps of a retrieval leave alone what was answered.
LEMMA UntouchedKeepsStore ==
  StoreInv /\ UNCHANGED <<bundles, answer, verdict, told>> => StoreInv'
  BY DEF StoreInv, StoreTypes, VersionsAreUnique, AnswersAreVersioned, VerdictsStand, Version

\* A bundle is added under a version that nothing has yet, or it is there already.
LEMMA PersistKeepsStore ==
  ASSUME StoreInv, NEW r \in Readers, PersistBundle(r)
  PROVE  StoreInv'
<1> DEFINE b == Bundle(r)
<1>1. CASE ~SameAsPersisted(b)
  <2>1. UNCHANGED <<bundles, answer, verdict, told>>
    BY <1>1 DEF PersistBundle, verifyVars
  <2> QED
    BY <2>1, UntouchedKeepsStore
<1>2. CASE SameAsPersisted(b)
  <2>1. /\ bundles' = IF Persisted(b.version) = {} THEN bundles \cup {b} ELSE bundles
        /\ answer' = [answer EXCEPT ![r] = {b}]
        /\ UNCHANGED <<verdict, told>>
    BY <1>2 DEF PersistBundle, verifyVars
  <2>2. b \in bundles'
    BY <1>2, <2>1 DEF SameAsPersisted, Persisted
  <2>3. bundles \subseteq bundles' /\ bundles' \subseteq bundles \cup {b}
    BY <2>1
  <2>4. StoreTypes'
    BY <2>1, <2>2, <2>3 DEF StoreInv, StoreTypes
  <2>5. VersionsAreUnique'
    BY <1>2, <2>1, <2>3 DEF StoreInv, VersionsAreUnique, Persisted
  <2>6. b.version = Version(RequestOf[r], b.content)
    BY DEF Bundle
  <2>7. AnswersAreVersioned'
    BY <2>1, <2>6 DEF StoreInv, StoreTypes, AnswersAreVersioned, Version
  <2>8. VerdictsStand'
    BY <2>1 DEF StoreInv, VerdictsStand
  <2> QED
    BY <2>4, <2>5, <2>7, <2>8 DEF StoreInv
<1> QED
  BY <1>1, <1>2

\* A verdict is replaced only while no call can have returned a final one.
LEMMA VerifyKeepsStore ==
  ASSUME StoreInv, NEW v \in Verifiers,
         LookUp(v) \/ PersistVerification(v) \/ InsertVerification(v)
  PROVE  StoreInv'
<1> DEFINE h == HandoffOf[v]
<1>1. h \in Readers /\ verdict[h] \in Verdicts
  BY StoreAssumption DEF StoreInv, StoreTypes
<1>2. UNCHANGED <<bundles, answer>>
  BY DEF LookUp, PersistVerification, InsertVerification, readVars
<1>3. \A result \in Evaluations(h) : result \in Verdicts
  BY DEF Evaluations, Verdicts, Final
<1>4. \/ UNCHANGED <<verdict, told>>
      \/ \E result \in Verdicts : /\ verdict[h] \notin Final \/ result = verdict[h]
                                  /\ verdict' = [verdict EXCEPT ![h] = result]
                                  /\ told' = [told EXCEPT ![v] = result]
  <2>1. verdict = [verdict EXCEPT ![h] = verdict[h]]
    BY <1>1 DEF StoreInv, StoreTypes
  <2>2. CASE LookUp(v)
    BY <2>2, <2>1, <1>1 DEF LookUp, Tell
  <2>3. CASE PersistVerification(v)
    <3>1. \/ UNCHANGED <<verdict, told>>
          \/ /\ Replaces(h)
             /\ \E result \in Evaluations(h) :
                  verdict' = [verdict EXCEPT ![h] = result] /\ Tell(v, result)
          \/ Tell(v, verdict[h]) /\ UNCHANGED verdict
      BY <2>3 DEF PersistVerification
    <3> QED
      BY <3>1, <2>1, <1>1, <1>3 DEF Replaces, Tell, Final
  <2>4. CASE InsertVerification(v)
    <3>1. PICK result \in IF verdict[h] = "none" THEN Evaluations(h) ELSE {verdict[h]} :
            verdict' = [verdict EXCEPT ![h] = result] /\ Tell(v, result)
      BY <2>4 DEF InsertVerification
    <3> QED
      BY <3>1, <1>1, <1>3 DEF Tell, Final
  <2> QED
    BY <2>2, <2>3, <2>4
<1>5. CASE UNCHANGED <<verdict, told>>
  BY <1>2, <1>5, UntouchedKeepsStore
<1>6. ASSUME NEW result \in Verdicts,
             verdict[h] \notin Final \/ result = verdict[h],
             verdict' = [verdict EXCEPT ![h] = result],
             told' = [told EXCEPT ![v] = result]
      PROVE  StoreInv'
  <2>1. StoreTypes' /\ VersionsAreUnique' /\ AnswersAreVersioned'
    BY <1>1, <1>2, <1>6 DEF StoreInv, StoreTypes, VersionsAreUnique, AnswersAreVersioned, Version
  <2>2. VerdictsStand'
    BY <1>1, <1>6, StoreAssumption DEF StoreInv, StoreTypes, VerdictsStand
  <2> QED
    BY <2>1, <2>2 DEF StoreInv
<1> QED
  BY <1>4, <1>5, <1>6

\* No two bundles share a version, every call has one answer under the version of its
\* request, and verdicts that were returned are on record: in every reachable state.
THEOREM StoreInvariance == PolicySpec => []StoreInv
<1>1. StoreInv /\ [PolicyNext]_policyVars => StoreInv'
  <2> SUFFICES ASSUME StoreInv, [PolicyNext]_policyVars PROVE StoreInv'
    OBVIOUS
  <2>1. ASSUME NEW d \in Library, NEW active \in BOOLEAN, NEW reembed \in BOOLEAN,
               NEW m \in Models, Ingest(d, active, m, reembed)
        PROVE  StoreInv'
    BY <2>1, UntouchedKeepsStore DEF Ingest, readVars, verifyVars
  <2>2. ASSUME NEW m \in Models, Restart(m) PROVE StoreInv'
    BY <2>2, UntouchedKeepsStore DEF Restart, verifyVars
  <2>3. ASSUME NEW r \in Readers, Select(r) PROVE StoreInv'
    BY <2>3, UntouchedKeepsStore DEF Select, verifyVars
  <2>4. ASSUME NEW r \in Readers, PersistBundle(r) PROVE StoreInv'
    BY <2>4, PersistKeepsStore
  <2>5. ASSUME NEW v \in Verifiers,
               LookUp(v) \/ PersistVerification(v) \/ InsertVerification(v)
        PROVE  StoreInv'
    BY <2>5, VerifyKeepsStore
  <2>6. CASE UNCHANGED policyVars
    BY <2>6, UntouchedKeepsStore DEF policyVars, readVars, verifyVars
  <2> QED
    BY <2>1, <2>2, <2>3, <2>4, <2>5, <2>6 DEF PolicyNext
<1> QED
  BY <1>1, StoreInvInitially, PTL DEF PolicySpec

\* What the agent was told of a policy, and of a handoff checked against it, stands.
THEOREM AnswersAlwaysStand == PolicySpec => []AnswersStand
  BY StoreInvariance, StoreInvSuffices, PTL

-----------------------------------------------------------------------------
(***************************************************************************)
(* Proofs about risk snapshots, for any cases, orders, calls and windows.  *)
(*                                                                         *)
(* Nobody tests that a snapshot is new when it is stored. That it is one   *)
(* follows from the locks: a call that makes a snapshot makes it alone     *)
(* (MakingAlone), and between its test and its commit only refunds are     *)
(* added to the history, which hinder neither its claim nor its counts     *)
(* (ClaimsFit). The bounds on the counts come from the history being one   *)
(* claim and one refund per case, none from before the case was opened.    *)
(***************************************************************************)

\* The cases opened before, those within the window, and the orders of the former.
Before(c) == {d \in RiskCases : OpenedAt[d] < OpenedAt[c]}
Recent(c) == {d \in Before(c) : OpenedAt[d] + Window >= OpenedAt[c]}
OrdersBefore(c) == {OrderOf[d] : d \in Before(c)}

RiskTypes ==
  /\ today \in Nat
  /\ call \in [RiskCalls -> {"new", "claims", "refunds", "done"}]
  /\ DOMAIN counted = RiskCalls /\ DOMAIN given = RiskCalls
  /\ counted = [r \in RiskCalls |-> counted[r]]
  /\ given = [r \in RiskCalls |-> given[r]]

EventsAreTrue ==
  \A e \in history :
    /\ e.case \in RiskCases
    /\ e.order = OrderOf[e.case]
    /\ e.at \in Nat
    /\ e.type = "CLAIM_REGISTERED" => e.at = OpenedAt[e.case]
    /\ e.type = "REFUND_SUCCEEDED" => e.at >= OpenedAt[e.case]

EventsAreUnique ==
  \A e, f \in history : e.case = f.case /\ e.type = f.type => e = f

MakingAlone ==
  \A r \in Making :
    /\ \A s \in Making : s = r
    /\ StoredFor(AskedOf[r]) = {}

ClaimsFit ==
  \A r \in Making :
    /\ Appendable(Claim(AskedOf[r]))
    /\ OpenedAt[AskedOf[r].case] <= today

SnapshotsAreUnique ==
  \A s, t \in snapshots : s.case = t.case /\ s.reason = t.reason => s = t

GivenIsStored ==
  \A r \in RiskCalls :
    given[r] # NoSnapshot =>
      /\ given[r] \in snapshots
      /\ given[r].case = AskedOf[r].case
      /\ given[r].reason = AskedOf[r].reason

CountsAreBounded ==
  /\ \A r \in RiskCalls :
       call[r] = "refunds" => counted[r] <= Cardinality(Recent(AskedOf[r].case))
  /\ \A s \in snapshots :
       /\ s.claims <= Cardinality(Recent(s.case))
       /\ s.refunds <= Cardinality(OrdersBefore(s.case))

HistoryInv == EventsAreTrue /\ EventsAreUnique
SnapshotInv == MakingAlone /\ SnapshotsAreUnique /\ GivenIsStored
RiskInv == RiskTypes /\ HistoryInv /\ ClaimsFit /\ SnapshotInv /\ CountsAreBounded

-----------------------------------------------------------------------------
(* Counting. *)

\* No snapshot counts more claims than there are cases in its window: the claims of a
\* history have different cases.
LEMMA ClaimsAreBounded ==
  ASSUME HistoryInv, NEW r \in RiskCalls
  PROVE  ClaimCount(AskedOf[r]) <= Cardinality(Recent(AskedOf[r].case))
<1> DEFINE q == AskedOf[r]
           S == {e \in Prior(q.case, "CLAIM_REGISTERED") : e.reason = q.reason}
           T == Recent(q.case)
           f == [e \in S |-> e.case]
<1>1. \A e \in S : e.case \in T
  BY DEF HistoryInv, EventsAreTrue, Prior, Recent, Before
<1>2. \A d, e \in S : f[d] = f[e] => d = e
  BY DEF HistoryInv, EventsAreUnique, Prior
<1>3. f \in [S -> T]
  BY <1>1
<1>4. f \in Injection(S, T)
  BY <1>2, <1>3 DEF Injection, IsInjective
<1>5. T \in SUBSET RiskCases
  BY DEF Recent, Before
<1>6. IsFiniteSet(T)
  BY <1>5, RiskAssumption, FS_Subset
<1> HIDE DEF S, T, f
<1>7. Cardinality(S) <= Cardinality(T)
  BY <1>4, <1>6, FS_Injection
<1> QED
  BY <1>7 DEF ClaimCount, S, T

\* Nor more refunded orders than there are orders of cases opened before it.
LEMMA RefundsAreBounded ==
  ASSUME HistoryInv, NEW r \in RiskCalls
  PROVE  RefundCount(AskedOf[r]) <= Cardinality(OrdersBefore(AskedOf[r].case))
<1> DEFINE q == AskedOf[r]
           D == Before(q.case)
           O == OrdersBefore(q.case)
           S == {e.order : e \in Prior(q.case, "REFUND_SUCCEEDED")}
           f == [d \in D |-> OrderOf[d]]
<1>1. q.case \in RiskCases /\ OpenedAt[q.case] \in Nat
  BY RiskAssumption
<1>2. \A e \in Prior(q.case, "REFUND_SUCCEEDED") : e.case \in D /\ e.order = OrderOf[e.case]
  <2> TAKE e \in Prior(q.case, "REFUND_SUCCEEDED")
  <2>1. /\ e \in history
        /\ e.type = "REFUND_SUCCEEDED"
        /\ e.at < OpenedAt[q.case]
    BY DEF Prior
  <2>2. /\ e.case \in RiskCases /\ e.order = OrderOf[e.case]
        /\ e.at \in Nat /\ e.at >= OpenedAt[e.case]
    BY <2>1 DEF HistoryInv, EventsAreTrue
  <2>3. OpenedAt[e.case] \in Nat
    BY <2>2, RiskAssumption
  <2> QED
    BY <1>1, <2>1, <2>2, <2>3 DEF Before
<1>3. S \in SUBSET O
  BY <1>2 DEF OrdersBefore
<1>4. f \in Surjection(D, O)
  BY DEF Surjection, OrdersBefore
<1>5. D \in SUBSET RiskCases
  BY DEF Before
<1>6. IsFiniteSet(D)
  BY <1>5, RiskAssumption, FS_Subset
<1> HIDE DEF D, O, S, f
<1>7. IsFiniteSet(O)
  BY <1>4, <1>6, FS_Surjection
<1>8. Cardinality(S) <= Cardinality(O)
  BY <1>3, <1>7, FS_Subset
<1> QED
  BY <1>8 DEF RefundCount, S, O

-----------------------------------------------------------------------------
(* The steps. *)

LEMMA RiskInvInitially == RiskInit => RiskInv
  BY DEF RiskInit, RiskInv, RiskTypes, HistoryInv, EventsAreTrue, EventsAreUnique,
         SnapshotInv, MakingAlone, ClaimsFit, SnapshotsAreUnique, GivenIsStored,
         CountsAreBounded, Making

\* A claim or a refund that is appended keeps the history as it must be.
LEMMA AppendKeepsHistory ==
  ASSUME HistoryInv, NEW e, Appendable(e), history' = history \cup {e},
         e.case \in RiskCases, e.order = OrderOf[e.case], e.at \in Nat,
         e.type = "CLAIM_REGISTERED" => e.at = OpenedAt[e.case],
         e.type = "REFUND_SUCCEEDED" => e.at >= OpenedAt[e.case]
  PROVE  HistoryInv'
<1>1. EventsAreTrue'
  BY DEF HistoryInv, EventsAreTrue
<1>2. EventsAreUnique'
  BY DEF HistoryInv, EventsAreUnique, Appendable
<1> QED
  BY <1>1, <1>2 DEF HistoryInv
\* A call that ends without a snapshot of its own, and with it its locks.
LEMMA EndKeepsRisk ==
  ASSUME RiskInv, NEW r \in RiskCalls,
         call' = [call EXCEPT ![r] = "done"],
         \/ UNCHANGED given
         \/ \E s \in StoredFor(AskedOf[r]) : given' = [given EXCEPT ![r] = s],
         UNCHANGED <<today, history, snapshots, counted>>
  PROVE  RiskInv'
<1>1. RiskTypes'
  BY DEF RiskInv, RiskTypes
<1>2. Making' \subseteq Making
  BY DEF Making, RiskInv, RiskTypes
<1>3. HistoryInv'
  BY DEF RiskInv, HistoryInv, EventsAreTrue, EventsAreUnique
<1>4. ClaimsFit'
  BY <1>2 DEF RiskInv, ClaimsFit, Appendable, Claim
<1>5. MakingAlone' /\ SnapshotsAreUnique'
  BY <1>2 DEF RiskInv, SnapshotInv, MakingAlone, SnapshotsAreUnique, StoredFor
<1>6. GivenIsStored'
  BY DEF RiskInv, RiskTypes, SnapshotInv, GivenIsStored, StoredFor
<1>7. CountsAreBounded'
  BY DEF RiskInv, RiskTypes, CountsAreBounded, Recent, Before, OrdersBefore
<1> QED
  BY <1>1, <1>3, <1>4, <1>5, <1>6, <1>7 DEF RiskInv, SnapshotInv

\* A call begins to make a snapshot alone, with none stored and a claim that fits.
LEMMA PrepareKeepsRisk ==
  ASSUME RiskInv, NEW r \in RiskCalls, PrepareSnapshot(r)
  PROVE  RiskInv'
<1> DEFINE q == AskedOf[r]
<1>1. CASE \E s \in StoredFor(q) : Give(r, s) /\ UNCHANGED <<today, history, snapshots, counted>>
  BY <1>1, EndKeepsRisk DEF Give
<1>2. CASE FailCall(r) /\ UNCHANGED today
  BY <1>2, EndKeepsRisk DEF FailCall
<1>3. ASSUME Making = {}, StoredFor(q) = {}, Appendable(Claim(q)),
             call' = [call EXCEPT ![r] = "claims"],
             UNCHANGED <<today, history, snapshots, counted, given>>
      PROVE  RiskInv'
  <2>1. RiskTypes'
    BY <1>3 DEF RiskInv, RiskTypes
  <2>2. \A s \in Making' : s = r
    BY <1>3 DEF Making, RiskInv, RiskTypes
  <2>3. OpenedAt[q.case] <= today
    BY DEF PrepareSnapshot
  <2>4. HistoryInv'
    BY <1>3 DEF RiskInv, HistoryInv, EventsAreTrue, EventsAreUnique
  <2>5. ClaimsFit'
    BY <1>3, <2>2, <2>3 DEF ClaimsFit, Appendable, Claim
  <2>6. MakingAlone' /\ SnapshotsAreUnique' /\ GivenIsStored'
    BY <1>3, <2>2
    DEF RiskInv, SnapshotInv, MakingAlone, SnapshotsAreUnique, GivenIsStored, StoredFor
  <2>7. CountsAreBounded'
    BY <1>3 DEF RiskInv, RiskTypes, CountsAreBounded, Recent, Before, OrdersBefore
  <2> QED
    BY <2>1, <2>4, <2>5, <2>6, <2>7 DEF RiskInv, SnapshotInv
<1> QED
  BY <1>1, <1>2, <1>3 DEF PrepareSnapshot

LEMMA CountKeepsRisk ==
  ASSUME RiskInv, NEW r \in RiskCalls, CountClaims(r)
  PROVE  RiskInv'
<1>1. RiskTypes'
  BY DEF RiskInv, RiskTypes, CountClaims
<1>2. Making' = Making
  BY DEF Making, RiskInv, RiskTypes, CountClaims
<1>3. UNCHANGED <<today, history, snapshots, given>>
  BY DEF CountClaims
<1>4. HistoryInv'
  BY <1>3 DEF RiskInv, HistoryInv, EventsAreTrue, EventsAreUnique
<1>5. ClaimsFit'
  BY <1>2, <1>3 DEF RiskInv, ClaimsFit, Appendable, Claim
<1>6. SnapshotInv'
  BY <1>2, <1>3 DEF RiskInv, SnapshotInv, MakingAlone, SnapshotsAreUnique, GivenIsStored, StoredFor
<1>7. ClaimCount(AskedOf[r]) <= Cardinality(Recent(AskedOf[r].case))
  BY ClaimsAreBounded DEF RiskInv
<1>8. /\ counted' = [counted EXCEPT ![r] = ClaimCount(AskedOf[r])]
      /\ call' = [call EXCEPT ![r] = "refunds"]
  BY DEF CountClaims
<1> HIDE DEF CountClaims
<1>9. CountsAreBounded'
  BY <1>3, <1>7, <1>8 DEF RiskInv, RiskTypes, CountsAreBounded, Recent, Before, OrdersBefore
<1> QED
  BY <1>1, <1>4, <1>5, <1>6, <1>9 DEF RiskInv

\* The snapshot is new, its claim fits, and nobody else makes one.
LEMMA StoreKeepsRisk ==
  ASSUME RiskInv, NEW r \in RiskCalls, StoreSnapshot(r)
  PROVE  RiskInv'
<1> DEFINE q == AskedOf[r]
           s == [case |-> q.case, reason |-> q.reason,
                 claims |-> counted[r], refunds |-> RefundCount(q)]
<1>1. r \in Making
  BY DEF StoreSnapshot, Making
<1>2. CASE FailCall(r) /\ UNCHANGED today
  BY <1>2, EndKeepsRisk DEF FailCall
<1>3. ASSUME history' = history \cup {Claim(q)},
             snapshots' = snapshots \cup {s},
             Give(r, s),
             UNCHANGED <<today, counted>>
      PROVE  RiskInv'
  <2>1. call' = [call EXCEPT ![r] = "done"] /\ (given' = [given EXCEPT ![r] = s] \/ UNCHANGED given)
    BY <1>3 DEF Give
  <2>2. RiskTypes'
    BY <1>3, <2>1 DEF RiskInv, RiskTypes
  <2>3. Making' = {}
    BY <1>1, <2>1 DEF RiskInv, RiskTypes, SnapshotInv, MakingAlone, Making
  <2>4. HistoryInv'
    <3>1. Appendable(Claim(q))
      BY <1>1 DEF RiskInv, ClaimsFit
    <3>2. /\ Claim(q).case \in RiskCases
          /\ Claim(q).order = OrderOf[Claim(q).case]
          /\ Claim(q).at \in Nat
          /\ Claim(q).at = OpenedAt[Claim(q).case]
          /\ Claim(q).type = "CLAIM_REGISTERED"
      BY RiskAssumption DEF Claim
    <3> HIDE DEF q
    <3> QED
      BY <1>3, <3>1, <3>2, AppendKeepsHistory DEF RiskInv
  <2>5. StoredFor(q) = {}
    BY <1>1 DEF RiskInv, SnapshotInv, MakingAlone
  <2>6. SnapshotsAreUnique'
    BY <1>3, <2>5 DEF RiskInv, SnapshotInv, SnapshotsAreUnique, StoredFor
  <2>7. GivenIsStored'
    BY <1>3, <2>1 DEF RiskInv, RiskTypes, SnapshotInv, GivenIsStored
  <2>8. /\ s.claims <= Cardinality(Recent(s.case))
        /\ s.refunds <= Cardinality(OrdersBefore(s.case))
    BY RefundsAreBounded DEF RiskInv, CountsAreBounded, StoreSnapshot
  <2>9. CountsAreBounded'
    <3> HIDE DEF s
    <3> QED
      BY <1>3, <2>1, <2>8 DEF RiskInv, RiskTypes, CountsAreBounded, Recent, Before, OrdersBefore
  <2> QED
    BY <2>2, <2>3, <2>4, <2>6, <2>7, <2>9 DEF RiskInv, ClaimsFit, SnapshotInv, MakingAlone
<1> QED
  BY <1>2, <1>3 DEF StoreSnapshot

\* A refund that commits between the counts leaves a claim to be appended as it is.
LEMMA RefundKeepsRisk ==
  ASSUME RiskInv, NEW c \in RiskCases, NEW reason, RecordRefund(c, reason)
  PROVE  RiskInv'
<1> DEFINE e == Refund(c, reason)
<1>1. /\ history' = history \cup {e}
      /\ UNCHANGED <<today, snapshots, call, counted, given>>
  BY DEF RecordRefund
<1>2. /\ e.case \in RiskCases /\ e.order = OrderOf[e.case]
      /\ e.at \in Nat /\ e.at >= OpenedAt[e.case]
      /\ e.type = "REFUND_SUCCEEDED"
  BY RiskAssumption DEF Refund, RecordRefund, RiskInv, RiskTypes
<1>3. Appendable(e)
  BY DEF Appendable, Refund, RecordRefund
<1> HIDE DEF e
<1>4. HistoryInv'
  BY <1>1, <1>2, <1>3, AppendKeepsHistory DEF RiskInv
<1>5. Making' = Making
  BY <1>1 DEF Making
<1>6. ClaimsFit'
  BY <1>1, <1>2, <1>5 DEF RiskInv, ClaimsFit, Appendable, Claim
<1>7. RiskTypes'
  BY <1>1 DEF RiskInv, RiskTypes
<1>8. SnapshotInv'
  BY <1>1, <1>5 DEF RiskInv, SnapshotInv, MakingAlone, SnapshotsAreUnique, GivenIsStored, StoredFor
<1>9. CountsAreBounded'
  BY <1>1 DEF RiskInv, CountsAreBounded, Recent, Before, OrdersBefore
<1> QED
  BY <1>4, <1>6, <1>7, <1>8, <1>9 DEF RiskInv

\* The passing of days, and of nothing.
LEMMA TimeKeepsRisk ==
  ASSUME RiskInv, UNCHANGED <<history, snapshots, call, counted, given>>,
         today' = today \/ today' = today + 1
  PROVE  RiskInv'
<1>1. RiskTypes'
  BY DEF RiskInv, RiskTypes
<1>2. Making' = Making
  BY DEF Making
<1>3. HistoryInv'
  BY DEF RiskInv, HistoryInv, EventsAreTrue, EventsAreUnique
<1>4. ClaimsFit'
  <2>1. \A r \in Making : OpenedAt[AskedOf[r].case] \in Nat
    BY RiskAssumption DEF Making
  <2> QED
    BY <1>2, <2>1 DEF RiskInv, RiskTypes, ClaimsFit, Appendable, Claim
<1>5. SnapshotInv'
  BY <1>2 DEF RiskInv, SnapshotInv, MakingAlone, SnapshotsAreUnique, GivenIsStored, StoredFor
<1>6. CountsAreBounded'
  BY DEF RiskInv, CountsAreBounded, Recent, Before, OrdersBefore
<1> QED
  BY <1>1, <1>3, <1>4, <1>5, <1>6 DEF RiskInv

-----------------------------------------------------------------------------
\* One call makes a snapshot at a time and finds none stored; claims, refunds and counts
\* are what the locks and the unique events make them: in every reachable state.
THEOREM RiskInvariance == RiskSpec => []RiskInv
<1>1. RiskInv /\ [RiskNext]_riskVars => RiskInv'
  <2> SUFFICES ASSUME RiskInv, [RiskNext]_riskVars PROVE RiskInv'
    OBVIOUS
  <2>1. ASSUME NEW r \in RiskCalls, PrepareSnapshot(r) PROVE RiskInv'
    BY <2>1, PrepareKeepsRisk
  <2>2. ASSUME NEW r \in RiskCalls, CountClaims(r) PROVE RiskInv'
    BY <2>2, CountKeepsRisk
  <2>3. ASSUME NEW r \in RiskCalls, StoreSnapshot(r) PROVE RiskInv'
    BY <2>3, StoreKeepsRisk
  <2>4. ASSUME NEW r \in RiskCalls, CallFails(r) PROVE RiskInv'
    BY <2>4, EndKeepsRisk DEF CallFails, FailCall
  <2>5. ASSUME NEW c \in RiskCases, NEW reason \in {AskedOf[r].reason : r \in RiskCalls},
               RecordRefund(c, reason)
        PROVE  RiskInv'
    BY <2>5, RefundKeepsRisk
  <2>6. CASE NextDay
    BY <2>6, TimeKeepsRisk DEF NextDay
  <2>7. CASE UNCHANGED riskVars
    BY <2>7, TimeKeepsRisk DEF riskVars
  <2> QED
    BY <2>1, <2>2, <2>3, <2>4, <2>5, <2>6, <2>7 DEF RiskNext
<1> QED
  BY <1>1, RiskInvInitially, PTL DEF RiskSpec

LEMMA RiskInvSuffices == RiskInv => RiskIsSettled
<1> SUFFICES ASSUME RiskInv PROVE RiskIsSettled
  OBVIOUS
<1>1. \A r \in RiskCalls : given[r] # NoSnapshot => StoredFor(AskedOf[r]) = {given[r]}
  BY DEF RiskInv, SnapshotInv, GivenIsStored, SnapshotsAreUnique, StoredFor
<1>2. ASSUME NEW s \in snapshots
      PROVE  LET before == {c \in RiskCases : OpenedAt[c] < OpenedAt[s.case]} IN
             /\ s.claims <= Cardinality({c \in before : OpenedAt[c] + Window >= OpenedAt[s.case]})
             /\ s.refunds <= Cardinality({OrderOf[c] : c \in before})
  BY DEF RiskInv, CountsAreBounded, Recent, OrdersBefore, Before
<1> QED
  BY <1>1, <1>2 DEF RiskIsSettled, RiskInv, HistoryInv, EventsAreUnique

\* The snapshot of a case and reason is one and the one that was given, it counts only
\* earlier cases, and a case registers one claim and one refund.
THEOREM RiskIsAlwaysSettled == RiskSpec => []RiskIsSettled
  BY RiskInvariance, RiskInvSuffices, PTL

=============================================================================
