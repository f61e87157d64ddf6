----------------------------- MODULE PolicyStore ------------------------------
(***************************************************************************)
(* Policy documents, their retrieval and what is verified against them     *)
(* (apps/api: capabilities/policy.py, policy_cli.py, capabilities/safety.py).*)
(*                                                                         *)
(* retrieve_policy is one transaction of several statements under READ     *)
(* COMMITTED: the candidates are one, and ranking, insertion and comparison*)
(* follow, so that the ingestion CLI may commit in between. A bundle is    *)
(* kept under its version, by which the verification, the reviewer's       *)
(* decision and the refund find it again.                                  *)
(* An embedding model stands for the order into which it ranks clauses.    *)
(* Definitions marked (fault) are slips that properties must catch.        *)
(***************************************************************************)
EXTENDS Naturals, FiniteSets

CONSTANTS
  Library,       \* documents that are ever ingested
  Requests,      \* requests for a bundle, with all that their hash covers
  Models,        \* embedding models
  Readers,       \* calls of retrieve_policy; those of one request repeat it
  RequestOf,     \* the request of a call
  Verifiers,     \* calls of verify
  HandoffOf      \* the handoff of such a call, named by the retrieval it is about

\* POLICY_V2_VERSION: all v2 documents are of one family and version.
ASSUME StoreAssumption ==
  /\ RequestOf \in [Readers -> Requests]
  /\ HandoffOf \in [Verifiers -> Readers]
  /\ \A d, e \in Library : d.v2 /\ e.v2 => d.family = e.family /\ d.version = e.version

VARIABLES
  docs,          \* policy_documents with their clauses: active, embedding model
  configured,    \* the model the API is configured with
  bundles,       \* policy_retrievals
  phase,         \* where a retrieval is
  found,         \* its candidates
  answer,        \* the bundle it has returned, as a set
  verdict,       \* handoff_verifications
  verifier,      \* where a verification is
  told           \* what it has returned

readVars == <<phase, found, answer>>
verifyVars == <<verdict, verifier, told>>
policyVars == <<docs, configured, bundles, readVars, verifyVars>>

PolicyInit ==
  /\ docs = [d \in {} |-> {}]
  /\ configured \in Models
  /\ bundles = {}
  /\ phase = [r \in Readers |-> "new"]
  /\ found = [r \in Readers |-> {}]
  /\ answer = [r \in Readers |-> {}]
  /\ verdict = [h \in Readers |-> "none"]
  /\ verifier = [v \in Verifiers |-> "new"]
  /\ told = [v \in Verifiers |-> "none"]

Documents == DOMAIN docs

-----------------------------------------------------------------------------
(* Documents. A conflict raises, and the CLI's transaction changes nothing. *)

\* The two unique constraints and the primary key of clauses.
Insertable(d) ==
  \A e \in Documents :
    /\ ~(e.family = d.family /\ e.version = d.version)
    /\ ~(e.source = d.source /\ e.version = d.version)
    /\ {c.id : c \in e.clauses} \cap {c.id : c \in d.clauses} = {}

Keep(d, active, m) ==
  docs' = [e \in Documents \cup {d} |-> IF e = d THEN [active |-> active, model |-> m]
                                              ELSE docs[e]]

\* ingest_policy_documents for one document: a new one, or the one stored under its
\* family and version, whose content it must have. Vectors of another model are
\* replaced on explicit request only.
Ingest(d, active, m, reembed) ==
  /\ IF d \in Documents THEN reembed \/ docs[d].model = m ELSE Insertable(d)
  /\ Keep(d, active, m)
  /\ UNCHANGED <<configured, bundles, readVars, verifyVars>>

\* The API restarts with another model; calls in progress fail.
Restart(m) ==
  /\ m # configured
  /\ configured' = m
  /\ phase' = [r \in Readers |-> IF phase[r] = "read" THEN "failed" ELSE phase[r]]
  /\ UNCHANGED <<docs, bundles, found, answer, verifyVars>>

-----------------------------------------------------------------------------
(* Retrieval. *)

\* A list of conditions that is empty excludes nothing.
Admits(conditions, values) == conditions = {} \/ conditions \cap values # {}

Applies(c, q) ==
  /\ c.from <= q.opened
  /\ c.to = 0 \/ q.opened <= c.to
  /\ Admits(c.markets, {q.market})
  /\ Admits(c.reasons, {q.reason})
  /\ Admits(c.categories, q.categories)

\* v2 documents answer v2 requests, with all their clauses.
ClausesFor(d, q) ==
  IF q.schema = "v2" THEN IF d.v2 THEN d.clauses ELSE {}
                     ELSE IF d.v2 THEN {} ELSE {c \in d.clauses : Applies(c, q)}

EligibleCandidates(q) ==
  UNION {{[doc |-> d, clause |-> c] : c \in ClausesFor(d, q)} :
           d \in {e \in Documents : docs[e].active}}

\* REASON_PATH of contracts/policy_v2.py.
PathReasons == {"CHANGED_MIND", "ITEM_DAMAGED", "WRONG_ITEM", "MISSING_ITEM"}

\* Two versions of a family, opposite rules about the goods or no common action.
Ambiguous(candidates) ==
  \/ \E a, b \in candidates : /\ a.doc.family = b.doc.family
                              /\ a.doc.version # b.doc.version
  \/ {"REQUIRED", "NOT_REQUIRED"} \subseteq {a.clause.returns : a \in candidates}
  \/ \A x \in UNION {a.clause.actions : a \in candidates} :
       \E a \in candidates : x \notin a.clause.actions

RetrievalStatus(q, candidates) ==
  CASE candidates = {} -> "NOT_FOUND"
    [] candidates # {} /\ q.schema = "v2" ->
         IF q.reason \in PathReasons THEN "OK" ELSE "NOT_FOUND"
    [] candidates # {} /\ q.schema # "v2" ->
         IF Ambiguous(candidates) THEN "AMBIGUOUS" ELSE "OK"

\* Ranked by the vectors that are stored now.
Content(q, candidates) ==
  LET status == RetrievalStatus(q, candidates)
      used == IF status = "OK" THEN candidates ELSE {} IN
  [status |-> status, clauses |-> used,
   order |-> {<<a.doc, docs[a.doc].model>> : a \in used}]

\* A v2 version is a hash of the request alone; a v1 version covers the content.
Version(q, content) == IF q.schema = "v2" THEN <<q>> ELSE <<q, content>>

Bundle(r) ==
  LET content == Content(RequestOf[r], found[r]) IN
  [version |-> Version(RequestOf[r], content), request |-> RequestOf[r],
   content |-> content]

\* The candidates, whose vectors must be of the model the API is configured with.
Select(r) ==
  /\ phase[r] = "new"
  /\ LET candidates == EligibleCandidates(RequestOf[r]) IN
     /\ found' = [found EXCEPT ![r] = candidates]
     /\ phase' = [phase EXCEPT ![r] =
          IF \A a \in candidates : docs[a.doc].model = configured
          THEN "read" ELSE "failed"]
  /\ UNCHANGED <<docs, configured, bundles, answer, verifyVars>>

\* get_persisted_bundle
Persisted(version) == {b \in bundles : b.version = version}

\* (fault) an insertion that did nothing is taken for one that did.
Agrees(b) == TRUE

\* The bundle stored under the version must be this one.
SameAsPersisted(b) == Persisted(b.version) \subseteq {b}

\* _persist_bundle: inserted unless there is one, then read back and compared.
\* What differs raises.
PersistBundle(r) ==
  /\ phase[r] = "read"
  /\ LET b == Bundle(r) IN
     IF SameAsPersisted(b)
     THEN /\ bundles' = IF Persisted(b.version) = {} THEN bundles \cup {b} ELSE bundles
          /\ answer' = [answer EXCEPT ![r] = {b}]
          /\ phase' = [phase EXCEPT ![r] = "done"]
     ELSE /\ phase' = [phase EXCEPT ![r] = "failed"]
          /\ UNCHANGED <<bundles, answer>>
  /\ UNCHANGED <<docs, configured, found, verifyVars>>

-----------------------------------------------------------------------------
(* Verification of a handoff that names a bundle. *)

Final == {"PASS", "FAIL"}

Tell(v, result) ==
  /\ told' = [told EXCEPT ![v] = result]
  /\ verifier' = [verifier EXCEPT ![v] = "done"]

\* verification_for: a final verdict is returned, all else evaluated.
LookUp(v) ==
  /\ verifier[v] = "new"
  /\ answer[HandoffOf[v]] # {}
  /\ IF verdict[HandoffOf[v]] \in Final
     THEN Tell(v, verdict[HandoffOf[v]])
     ELSE /\ verifier' = [verifier EXCEPT ![v] = "evaluate"]
          /\ UNCHANGED told
  /\ UNCHANGED <<docs, configured, bundles, readVars, verdict>>

\* _evaluate: without its bundle a handoff fails. The order and the evidence are
\* read anew, and a source may be out of reach.
Evaluations(h) ==
  IF \A b \in answer[h] : Persisted(b.version) = {}
  THEN {"FAIL"} ELSE {"PASS", "FAIL", "UNAVAILABLE"}

\* Under the lock of the record: only an unavailable verdict is replaced.
Replaces(h) == verdict[h] = "UNAVAILABLE"

\* persist_verification, the record read for update: a call that sees none goes on
\* to insert, any other ends here.
PersistVerification(v) ==
  LET h == HandoffOf[v] IN
  /\ verifier[v] = "evaluate"
  /\ \/ /\ verdict[h] = "none"
        /\ verifier' = [verifier EXCEPT ![v] = "insert"]
        /\ UNCHANGED <<verdict, told>>
     \/ /\ Replaces(h)
        /\ \E result \in Evaluations(h) :
             verdict' = [verdict EXCEPT ![h] = result] /\ Tell(v, result)
     \/ /\ verdict[h] # "none"
        /\ ~Replaces(h)
        /\ Tell(v, verdict[h])
        /\ UNCHANGED verdict
  /\ UNCHANGED <<docs, configured, bundles, readVars>>

\* _insert_do_nothing: the first insertion stands, and every caller returns it.
InsertVerification(v) ==
  LET h == HandoffOf[v] IN
  /\ verifier[v] = "insert"
  /\ \E result \in IF verdict[h] = "none" THEN Evaluations(h) ELSE {verdict[h]} :
       verdict' = [verdict EXCEPT ![h] = result] /\ Tell(v, result)
  /\ UNCHANGED <<docs, configured, bundles, readVars>>

-----------------------------------------------------------------------------
PolicyNext ==
  \/ \E d \in Library, active, reembed \in BOOLEAN, m \in Models :
       Ingest(d, active, m, reembed)
  \/ \E m \in Models : Restart(m)
  \/ \E r \in Readers : Select(r) \/ PersistBundle(r)
  \/ \E v \in Verifiers : \/ LookUp(v)
                          \/ PersistVerification(v)
                          \/ InsertVerification(v)

PolicySpec == PolicyInit /\ [][PolicyNext]_policyVars

-----------------------------------------------------------------------------
\* What the agent has been told stands, whatever is ingested, activated or embedded
\* anew meanwhile and whoever asks at the same time: the version of a bundle that a
\* run decided on leads to that very bundle, so that calls of one v2 request agree;
\* and a verdict that a call has returned is the verdict on record.
AnswersStand ==
  /\ \A r \in Readers : \A b \in answer[r] : Persisted(b.version) = {b}
  /\ \A r, s \in Readers :
       /\ RequestOf[r] = RequestOf[s]
       /\ RequestOf[r].schema = "v2"
       /\ answer[r] # {} /\ answer[s] # {}
       => answer[r] = answer[s]
  /\ \A v \in Verifiers : told[v] \in Final => verdict[HandoffOf[v]] = told[v]
=============================================================================
