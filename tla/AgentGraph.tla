------------------------------ MODULE AgentGraph ------------------------------
(***************************************************************************)
(* The agent graph of one case (packages/agent_runtime: graph.py,          *)
(* policy.py, assembly.py): one action per node, from the buyer's words    *)
(* over evidence, a proposal, its verification and its review to a         *)
(* resolution or to manual escalation. The models, the buyer and the       *)
(* reviewers are free choices within the contracts that validate them.     *)
(*                                                                         *)
(* An interrupted node runs from its start when it is resumed, so a pause  *)
(* and the rest of the node are two actions. The API is present where it   *)
(* decides about a resume: the confirmations it has recorded.              *)
(* Definitions marked (fault) are slips the properties below must catch.   *)
(***************************************************************************)
EXTENDS Naturals, FiniteSets, FiniteSetsExt, PolicyEvaluation

CONSTANTS
  Items,            \* order lines
  Cases,            \* the cases to look at: see CasesAssumption
  RequiredReasons,  \* reason codes of a return that is required
  MaxConsents       \* bound: confirmations the buyer of a case accepts

INSTANCE ReviewGates

CLARIFICATION_LIMIT == 2
EVIDENCE_LIMIT == 2
VERIFICATION_LIMIT == 2
REVISION_LIMIT == 3
PROPOSE_LIMIT == 1 + VERIFICATION_LIMIT + REVISION_LIMIT

Waived == "WAIVED"
Actions == {"FULL_REFUND", "DECLINE"}
Reasons == DOMAIN ReasonPath
Schemas == {"v1", "v2"}

ASSUME GraphAssumption ==
  /\ "POLICY_RETURN_REQUIRED" \in RequiredReasons
  /\ MaxConsents \in Nat

\* What is the same for the whole case: its policy schema, the lines of the
\* order with their facts and prices, the return policy of its v1 clauses, the
\* threshold of its currency, the buyer's history, and whether the words of the
\* buyer came with attachments; and, as bounds, the reasons the buyer can have
\* and whether words can be incomplete. v2 pilots orders of one line.
ASSUME CasesAssumption ==
  \A c \in Cases :
    /\ c.schema \in Schemas
    /\ c.lines \subseteq Items /\ c.lines # {} /\ IsFiniteSet(c.lines)
    /\ c.schema = "v2" => Cardinality(c.lines) = 1
    /\ c.returns \in {"REQUIRED", "NOT_REQUIRED", "MODEL_JUDGMENT"}
    /\ c.threshold \in Nat \cup {None}
    /\ c.attached \in BOOLEAN /\ c.vague \in BOOLEAN
    /\ c.reasons \subseteq Reasons
    /\ c.buyer \in RiskSnapshots(Nat) \cup {None}
    /\ \A i \in c.lines : c.facts[i] \in Facts(Nat, Nat)

VARIABLES
  case,        \* the facts, chosen once
  route,       \* _route: the node that runs next, or "end"
  pause,       \* kind of the interrupt that node waits in, or None
  reason,      \* normalized_intent.reason_code
  claimed,     \* claimed_line_item_ids
  loaded,      \* case_context and order_snapshot are there
  round,       \* the counters of the rounds
  bundle,      \* policy_bundle: its selected path, "v1", or None
  selection,   \* policy_selection with the confirmation it refers to
  asked,       \* pending_policy_confirmation
  memory,      \* operational_memory: the bundle its hits were matched with
  evidence,    \* number of artifacts merged into evidence_bundle
  assessment,  \* evidence_assessment.claim_findings per claimed line
  evaluation,  \* policy_evaluation: the path, evidence and finding it is about
  handoff,     \* current_handoff
  verified,    \* the handoff the last passed verification is about
  review,      \* pending_review_result
  reviewed,    \* review_history[-1], with the handoff it is about
  gate,        \* review_routing_reason
  human,       \* human_review_ref and human_review_result
  resolution,  \* resolution_handoff
  escalation,  \* escalation_reason
  answers      \* API: PolicyConfirmationRecords that have a response

intake == <<reason, claimed, loaded>>
policy == <<bundle, selection, asked, evaluation>>
proof == <<memory, evidence, assessment>>
verdicts == <<verified, reviewed, gate, human>>
deciding == <<handoff, review, verdicts>>
outcome == <<resolution, escalation>>
vars == <<case, route, pause, intake, round, policy, proof, deciding, outcome, answers>>

-----------------------------------------------------------------------------
Nodes ==
  {"parse_request", "request_clarification", "load_case_context",
   "retrieve_policy", "prepare_memory_query", "retrieve_memory", "assess_case",
   "evaluate_policy", "confirm_policy_path", "request_evidence",
   "propose_decision", "external_verification", "reviewer",
   "record_revision_event", "await_human_review", "emit_resolution_handoff",
   "enqueue_memory_distillation", "terminate_automation"}

PauseKinds ==
  {"CLARIFICATION", "EVIDENCE_REQUEST", "POLICY_CONFIRMATION", "HUMAN_REVIEW"}

Rounds == [clarification : 0..CLARIFICATION_LIMIT, evidence : 0..EVIDENCE_LIMIT,
           verification : 0..VERIFICATION_LIMIT, revision : 0..REVISION_LIMIT,
           propose : 0..PROPOSE_LIMIT]

Requests ==
  [path : Paths, original : Paths, version : Nat, requirement : RequiredReasons]

Selections == [path : Paths, version : Nat, consent : Requests \cup {None}]

Handoffs ==
  [number : 1..PROPOSE_LIMIT, action : Actions, scope : SUBSET Items,
   requirement : RequiredReasons \cup {Waived, None},
   bundle : Paths \cup {"v1"}, evidence : Nat]

Sources == {"REVIEWER_APPROVE", "HUMAN_APPROVE", "HUMAN_EDIT", "HUMAN_REJECT"}

EscalationReasons ==
  {"CONTRACT_VIOLATION", "CLARIFICATION_BUDGET_EXCEEDED",
   "EVIDENCE_BUDGET_EXCEEDED", "VERIFICATION_BUDGET_EXCEEDED",
   "PROPOSE_BUDGET_EXCEEDED", "POLICY_AMBIGUOUS", "POLICY_NOT_FOUND",
   "VERIFICATION_UNAVAILABLE", "CONFLICTING_REVISIONS", "SPECIALIST_REQUIRED",
   "POLICY_CONFIRMATION_DECLINED"}

RoutingReasons ==
  {"REVISION_BUDGET_EXCEEDED", "HIGH_VALUE_ITEM", "CURRENCY_THRESHOLD_UNCONFIGURED",
   "HIGH_USER_RISK", "USER_RISK_UNAVAILABLE"}

\* None is a name of its own.
ASSUME NoneAssumption ==
  None \notin PauseKinds \cup Paths \cup Sources \cup RoutingReasons \cup Selections

TypeOK ==
  /\ case \in Cases
  /\ route \in Nodes \cup {"end"}
  /\ pause \in PauseKinds \cup {None}
  /\ reason \in Reasons \cup {None}
  /\ claimed \subseteq case.lines
  /\ loaded \in BOOLEAN
  /\ round \in Rounds
  /\ bundle \in Paths \cup {"v1", None}
  /\ selection \in Selections \cup {None}
  /\ asked \in Requests \cup {None}
  /\ memory \in Paths \cup {"v1", None}
  /\ evidence \in 0..(EVIDENCE_LIMIT + 1)
  /\ assessment = None \/ assessment \in [claimed -> Findings]
  /\ evaluation = None \/ evaluation \in [path : Paths, evidence : Nat, finding : Findings]
  /\ handoff \in Handoffs \cup {None}
  /\ verified \in 0..PROPOSE_LIMIT
  /\ review = None \/ review \in [bundle : Paths \cup {"v1"}, open : BOOLEAN]
  /\ reviewed = None \/ reviewed \in [handoff : 1..PROPOSE_LIMIT, eligible : BOOLEAN]
  /\ gate \in RoutingReasons \cup {None}
  /\ human \in [submitted : BOOLEAN, source : Sources \cup {None}, action : Actions \cup {None}]
  /\ resolution = None \/ resolution \in [source : Sources, action : Actions]
  /\ escalation \in EscalationReasons \cup {None}
  /\ answers \subseteq [request : Requests, accepted : BOOLEAN]

\* initial_state.
Init ==
  /\ case \in Cases
  /\ route = "parse_request" /\ pause = None
  /\ reason = None /\ claimed = {} /\ loaded = FALSE
  /\ round = [clarification |-> 0, evidence |-> 0, verification |-> 0,
              revision |-> 0, propose |-> 0]
  /\ bundle = None /\ selection = None /\ asked = None /\ evaluation = None
  /\ memory = None /\ evidence = 0 /\ assessment = None
  /\ handoff = None /\ review = None
  /\ verified = 0 /\ reviewed = None /\ gate = None
  /\ human = [submitted |-> FALSE, source |-> None, action |-> None]
  /\ resolution = None /\ escalation = None /\ answers = {}

-----------------------------------------------------------------------------
V2 == case.schema = "v2"
At(node) == route = node /\ pause = None
Goto(node) == route' = node /\ pause' = None
Continue(node) == Goto(node) /\ UNCHANGED outcome

\* _fail.
Fail(why) == escalation' = why /\ Goto("terminate_automation") /\ UNCHANGED resolution

\* One more round of that kind, on the way to a node.
Count(kind) == round' = [round EXCEPT ![kind] = @ + 1]
Advance(kind, node) == Count(kind) /\ Continue(node)

\* interrupt(): the node is left as it is and will run again from its start.
Interrupt(kind) ==
  /\ pause' = kind
  /\ UNCHANGED <<case, route, intake, round, policy, proof, deciding, outcome, answers>>

\* A node that fails closed on whatever its model or provider does. A resume
\* that does not fit is such a failure too; an entered propose_decision counts.
NodeFails ==
  /\ \/ /\ pause = None
        /\ route \in Nodes \ {"retrieve_memory", "enqueue_memory_distillation",
                             "terminate_automation"}
     \/ pause \in {"CLARIFICATION", "EVIDENCE_REQUEST"}
  /\ Fail("CONTRACT_VIOLATION")
  /\ IF route = "propose_decision" /\ round.propose < PROPOSE_LIMIT
     THEN Count("propose") ELSE UNCHANGED round
  /\ UNCHANGED <<case, intake, policy, proof, deciding, answers>>

-----------------------------------------------------------------------------
(* Intake, the order, the policy and the memory. *)

\* parse_request, complete: the reason is known, and the lines once the order is.
ParseRequest ==
  /\ At("parse_request")
  /\ \E r \in case.reasons, c \in SUBSET case.lines :
       /\ IF loaded THEN c # {} ELSE c = {}
       /\ reason' = r /\ claimed' = c
  /\ Continue(IF loaded THEN "retrieve_policy" ELSE "load_case_context")
  /\ UNCHANGED <<case, loaded, round, policy, proof, deciding, answers>>

\* (fault) questions are not counted.
ParseUncounted ==
  /\ At("parse_request") /\ case.vague
  /\ reason' = None /\ claimed' = {}
  /\ Continue("request_clarification") /\ UNCHANGED round
  /\ UNCHANGED <<case, loaded, policy, proof, deciding, answers>>

\* parse_request, incomplete: ask twice, then give up.
ParseIncomplete ==
  /\ At("parse_request") /\ case.vague
  /\ reason' = None /\ claimed' = {}
  /\ IF round.clarification >= CLARIFICATION_LIMIT
     THEN Fail("CLARIFICATION_BUDGET_EXCEEDED") /\ UNCHANGED round
     ELSE Advance("clarification", "request_clarification")
  /\ UNCHANGED <<case, loaded, policy, proof, deciding, answers>>

RequestClarification == At("request_clarification") /\ Interrupt("CLARIFICATION")

\* The buyer answers the clarification.
Clarify ==
  /\ pause = "CLARIFICATION"
  /\ Continue("parse_request")
  /\ UNCHANGED <<case, intake, round, policy, proof, deciding, answers>>

\* An order of one line needs no second look at what is claimed.
LoadCaseContext ==
  /\ At("load_case_context")
  /\ loaded' = TRUE
  /\ IF Cardinality(case.lines) = 1
     THEN claimed' = case.lines /\ Continue("retrieve_policy")
     ELSE Continue("parse_request") /\ UNCHANGED claimed
  /\ UNCHANGED <<case, reason, round, policy, proof, deciding, answers>>

\* The path that applies: the confirmed one, or the default one of the reason.
PathToRetrieve == IF selection # None THEN selection.path ELSE ReasonPath[reason]

RetrievePolicy ==
  /\ At("retrieve_policy")
  /\ IF V2
     THEN /\ bundle' = PathToRetrieve
          /\ selection' = IF selection # None THEN selection
                          ELSE [path |-> PathToRetrieve, version |-> 1, consent |-> None]
     ELSE bundle' = "v1" /\ UNCHANGED selection
  /\ Continue("prepare_memory_query")
  /\ UNCHANGED <<case, intake, round, asked, evaluation, proof, deciding, answers>>

NoPolicy ==
  /\ At("retrieve_policy")
  /\ Fail("POLICY_AMBIGUOUS") \/ Fail("POLICY_NOT_FOUND")
  /\ UNCHANGED <<case, intake, round, policy, proof, deciding, answers>>

\* _resolve_initial_evidence: the attachments are resolved the first time only.
Resolved == IF case.attached /\ evidence = 0 THEN 1 ELSE evidence

\* The query for the memory, or no memory when no summary could be made.
PrepareMemoryQuery ==
  /\ At("prepare_memory_query")
  /\ evidence' = Resolved
  /\ memory' = None
  /\ Continue("retrieve_memory") \/ Continue("assess_case")
  /\ UNCHANGED <<case, intake, round, policy, assessment, deciding, answers>>

\* (fault) hits are not compared with the path.
AnyHits == {None} \cup Paths

\* _memory_matches: only hits of the present bundle are kept; none, or no answer
\* of the store, is fine as well.
Matching == {None, bundle}

RetrieveMemory ==
  /\ At("retrieve_memory")
  /\ memory' \in Matching
  /\ Continue("assess_case")
  /\ UNCHANGED <<case, intake, round, policy, evidence, assessment, deciding, answers>>

-----------------------------------------------------------------------------
(* Evidence and entitlement. *)

\* The findings a model can return: every claim pair of the policy, no other.
\* A path without claims has none that could be missing.
FindingsOf(items) ==
  IF bundle \in Paths /\ PathClaims[bundle] = {} THEN [items -> {"SUPPORTED"}]
  ELSE [items -> Findings]

\* SatisfiableBy.USER_EVIDENCE among the claims of the bundle.
UserEvidence == bundle \in {"v1", "DAMAGED_ON_ARRIVAL", "WRONG_ITEM"}

\* validate_evidence_request: something the buyer can show is open.
Askable(findings) == UserEvidence /\ \E i \in DOMAIN findings : findings[i] = "UNSUPPORTED"

\* (fault) the last round is not the last.
AskOnceMore ==
  IF round.evidence > EVIDENCE_LIMIT
  THEN Fail("EVIDENCE_BUDGET_EXCEEDED") /\ UNCHANGED round
  ELSE Advance("evidence", "request_evidence")

\* request_evidence is next when the budget allows it.
AskForEvidence ==
  IF round.evidence >= EVIDENCE_LIMIT
  THEN Fail("EVIDENCE_BUDGET_EXCEEDED") /\ UNCHANGED round
  ELSE Advance("evidence", "request_evidence")

\* Findings without enough support carry a request that is valid.
AssessmentIsValid(f) == EvidenceStatus(f) = "INSUFFICIENT" => Askable(f)

\* assess_case: the model's assessment, its validation, the evidence loop of v1.
AssessCase ==
  /\ At("assess_case")
  /\ \E f \in FindingsOf(claimed) :
       /\ AssessmentIsValid(f)
       /\ assessment' = f
       /\ IF V2 THEN Continue("evaluate_policy") /\ UNCHANGED round
          ELSE IF EvidenceStatus(f) = "INSUFFICIENT" THEN AskForEvidence
          ELSE Continue("propose_decision") /\ UNCHANGED round
  /\ UNCHANGED <<case, intake, policy, memory, evidence, deciding, answers>>

RequestEvidence == At("request_evidence") /\ Interrupt("EVIDENCE_REQUEST")

\* The buyer delivers something the bundle does not have yet.
DeliverEvidence ==
  /\ pause = "EVIDENCE_REQUEST"
  /\ evidence' = evidence + 1
  /\ Continue("prepare_memory_query")
  /\ UNCHANGED <<case, intake, round, policy, memory, assessment, deciding, answers>>

\* The one line of a v2 claim, and what the platform knows of it.
Line == CHOOSE i \in claimed : TRUE
LineFacts == case.facts[Line]

\* policy_evaluation of these findings.
PathStatus(p, finding) == EvaluatePath(LineFacts, p, selection.path, finding)

\* (fault) only the selected path is looked at.
SelectedIfOpen(finding) == {p \in {selection.path} : PathStatus(p, finding) = "ELIGIBLE"}

OpenPaths(finding) == {p \in Paths : PathStatus(p, finding) = "ELIGIBLE"}
Contradicted(finding) == ClaimContradicted(LineFacts, selection.path, selection.path, finding)

\* confirmation_request: the buyer is asked for a path with a required return.
Request(path, requirement) ==
  [path |-> path, original |-> selection.path,
   version |-> selection.version + 1, requirement |-> requirement]

\* evaluate_policy_node: propose on an open path or on counterevidence that
\* leaves none, offer the cooling-off path, ask for evidence, or give up.
EvaluatePolicy ==
  /\ At("evaluate_policy")
  /\ LET finding == assessment[Line]
         status == PathStatus(selection.path, finding) IN
     /\ ~EvaluationRaises(LineFacts, selection.path, finding, evidence)
     /\ evaluation' = [path |-> selection.path, evidence |-> evidence, finding |-> finding]
     /\ CASE status = "ELIGIBLE" ->
               Continue("propose_decision") /\ UNCHANGED <<round, asked>>
          [] /\ status # "ELIGIBLE"
             /\ selection.path = "DAMAGED_ON_ARRIVAL"
             /\ "COOLING_OFF" \in OpenPaths(finding) ->
               /\ asked' = Request("COOLING_OFF", "POLICY_RETURN_REQUIRED")
               /\ Continue("confirm_policy_path") /\ UNCHANGED round
          [] OTHER ->
               /\ UNCHANGED asked
               /\ IF status = "NEEDS_INFORMATION" /\ round.evidence < EVIDENCE_LIMIT
                  THEN Advance("evidence", "request_evidence")
                  ELSE /\ UNCHANGED round
                       /\ IF Contradicted(finding) /\ OpenPaths(finding) = {}
                          THEN Continue("propose_decision")
                          ELSE Fail("SPECIALIST_REQUIRED")
  /\ UNCHANGED <<case, intake, bundle, selection, proof, deciding, answers>>

-----------------------------------------------------------------------------
(* Consent of the buyer. *)

ConfirmPolicyPath == At("confirm_policy_path") /\ Interrupt("POLICY_CONFIRMATION")

\* confirm_policy: one answer per request_ref. A request that has been answered
\* keeps its record when the graph asks again, and an answer to it is a replay
\* without a RESUME.
Answered(request) == \E a \in answers : a.request = request
Accepted == {a.request : a \in {b \in answers : b.accepted}}

Answer(accepted) ==
  /\ pause = "POLICY_CONFIRMATION" /\ ~Answered(asked)
  /\ answers' = answers \cup {[request |-> asked, accepted |-> accepted]}

\* confirm_policy_path_node, declined: a declined alternative is not a denial.
DeclinePath ==
  /\ Answer(FALSE)
  /\ IF /\ asked.path # asked.original
        /\ EvidenceStatus(assessment) = "INSUFFICIENT"
        /\ round.evidence < EVIDENCE_LIMIT
     THEN asked' = None /\ Advance("evidence", "request_evidence")
     ELSE Fail("POLICY_CONFIRMATION_DECLINED") /\ UNCHANGED <<round, asked>>
  /\ UNCHANGED <<case, intake, bundle, selection, evaluation, proof, deciding>>

\* Accepted: everything that was concluded for the old path is concluded anew.
AcceptPath ==
  /\ Cardinality(Accepted) < MaxConsents
  /\ Answer(TRUE)
  /\ selection' = [path |-> asked.path, version |-> asked.version, consent |-> asked]
  /\ asked' = None /\ memory' = None /\ evaluation' = None
  /\ Continue("retrieve_policy")
  /\ UNCHANGED <<case, intake, round, bundle, evidence, assessment, deciding>>

-----------------------------------------------------------------------------
(* Proposal, verification and review. *)

\* _effective_return_policy of the bundle.
EffectiveReturnPolicy == IF V2 THEN ReturnPolicy[bundle] ELSE case.returns

\* What a refund may say about sending the goods back.
Requirements ==
  CASE EffectiveReturnPolicy = "REQUIRED" -> RequiredReasons
    [] EffectiveReturnPolicy = "NOT_REQUIRED" -> {Waived}
    [] EffectiveReturnPolicy = "MODEL_JUDGMENT" -> RequiredReasons \cup {Waived}

\* The evaluation a v2 handoff is bound to is the one of this very evidence.
Bound ==
  V2 => evaluation = [path |-> bundle, evidence |-> evidence, finding |-> assessment[Line]]

\* validate_proposed_decision_draft and validate_proposed_decision_handoff.
RefundIsValid(scope) ==
  /\ scope # {} /\ scope \subseteq SupportedItems(assessment)
  /\ UserEvidence => evidence > 0
  /\ V2 => scope = claimed /\ selection.path \in OpenPaths(assessment[Line])

DeclineIsValid ==
  /\ EvidenceStatus(assessment) = "SUFFICIENT_FOR_DECLINE"
  /\ UserEvidence => evidence > 0
  /\ V2 => Contradicted(assessment[Line]) /\ OpenPaths(assessment[Line]) = {}

\* The decisions a draft can be completed to.
Decisions ==
  {[action |-> "FULL_REFUND", scope |-> s, requirement |-> q] :
     s \in {t \in SUBSET claimed : RefundIsValid(t)}, q \in Requirements}
  \cup IF DeclineIsValid
       THEN {[action |-> "DECLINE", scope |-> {}, requirement |-> None]} ELSE {}

\* (fault) any earlier consent will do.
NeedsSomeConsent(d) ==
  V2 /\ d.action = "FULL_REFUND" /\ d.requirement # Waived /\ selection.consent = None

\* A v2 refund that needs the goods back rests on consent to that very return.
NeedsConsent(d) ==
  /\ V2 /\ d.action = "FULL_REFUND" /\ d.requirement # Waived
  /\ selection.consent # None => selection.consent.requirement # d.requirement

MayPropose == At("propose_decision") /\ round.propose < PROPOSE_LIMIT

ProposeBudgetExceeded ==
  /\ At("propose_decision") /\ round.propose >= PROPOSE_LIMIT
  /\ Fail("PROPOSE_BUDGET_EXCEEDED")
  /\ UNCHANGED <<case, intake, round, policy, proof, deciding, answers>>

Propose ==
  /\ MayPropose
  /\ \E d \in Decisions :
       /\ Bound /\ ~NeedsConsent(d)
       /\ handoff' = [number |-> round.propose + 1, action |-> d.action, scope |-> d.scope,
                      requirement |-> d.requirement, bundle |-> bundle,
                      evidence |-> evidence]
  /\ review' = None
  /\ Advance("propose", "external_verification")
  /\ UNCHANGED <<case, intake, policy, proof, verdicts, answers>>

\* The exit for consent returns no propose_round: this entry is not counted.
ProposeAsksConsent ==
  /\ MayPropose
  /\ \E d \in Decisions :
       Bound /\ NeedsConsent(d) /\ asked' = Request(selection.path, d.requirement)
  /\ Continue("confirm_policy_path")
  /\ UNCHANGED <<case, intake, round, bundle, selection, evaluation, proof, deciding, answers>>

\* _request_findings: those of a pending review come before the assessment; they
\* fit only the bundle they were made with.
OpenFindings == IF review # None THEN review.open /\ review.bundle = bundle ELSE Askable(assessment)

\* More evidence in place of a draft.
ProposeAsksEvidence ==
  /\ MayPropose /\ OpenFindings
  /\ IF round.evidence >= EVIDENCE_LIMIT
     THEN Fail("EVIDENCE_BUDGET_EXCEEDED") /\ Count("propose")
     ELSE /\ round' = [round EXCEPT !.propose = @ + 1, !.evidence = @ + 1]
          /\ Continue("request_evidence")
  /\ UNCHANGED <<case, intake, policy, proof, deciding, answers>>

ProposeConflict ==
  /\ MayPropose
  /\ Count("propose") /\ Fail("CONFLICTING_REVISIONS")
  /\ UNCHANGED <<case, intake, policy, proof, deciding, answers>>

VerificationPasses ==
  /\ At("external_verification")
  /\ verified' = handoff.number
  /\ Continue("reviewer")
  /\ UNCHANGED <<case, intake, round, policy, proof, handoff, review, reviewed, gate, human, answers>>

\* (fault) when the budget is used up the reviewer decides.
VerificationFailsOpen ==
  /\ At("external_verification")
  /\ IF round.verification >= VERIFICATION_LIMIT
     THEN Continue("reviewer") /\ UNCHANGED round
     ELSE Advance("verification", "propose_decision")
  /\ UNCHANGED <<case, intake, policy, proof, handoff, review, verdicts, answers>>

VerificationFails ==
  /\ At("external_verification")
  /\ IF round.verification >= VERIFICATION_LIMIT
     THEN Fail("VERIFICATION_BUDGET_EXCEEDED") /\ UNCHANGED round
     ELSE Advance("verification", "propose_decision")
  /\ UNCHANGED <<case, intake, policy, proof, handoff, review, verdicts, answers>>

VerificationUnavailable ==
  /\ At("external_verification")
  /\ Fail("VERIFICATION_UNAVAILABLE")
  /\ UNCHANGED <<case, intake, round, policy, proof, deciding, answers>>

-----------------------------------------------------------------------------
\* _scope_amount.
Amount(scope) == MapThenSumSet(LAMBDA i : case.facts[i].refundable, scope)

\* The reviewer's findings establish the selected path (v2).
Establishes(f) == V2 => selection.path \in OpenPaths(f[Line])

\* validate_review_result and the reviewer's own evaluation.
ApprovalIsValid(f) ==
  IF handoff.action = "FULL_REFUND"
  THEN handoff.scope \subseteq SupportedItems(f) /\ Establishes(f)
  ELSE EvidenceStatus(f) = "SUFFICIENT_FOR_DECLINE"

\* The snapshots the risk provider can answer with: none when it fails.
Snapshots == IF V2 /\ handoff.action = "FULL_REFUND" THEN {case.buyer, None} ELSE {None}

\* (fault) the buyer's history is not looked at.
RoutingByMoney(snapshot) ==
  MonetaryReason(handoff.action, Amount(handoff.scope), case.threshold)

Routing(snapshot) ==
  RoutingReason(MonetaryReason(handoff.action, Amount(handoff.scope), case.threshold),
                IF V2 THEN RiskReason(handoff.action, snapshot) ELSE None)

ToHuman(why) ==
  /\ gate' = why
  /\ human' = [submitted |-> FALSE, source |-> None, action |-> None]
  /\ Continue("await_human_review")

\* The reviewer sees the handoff and makes findings of its own.
ReviewerFinds(f) ==
  /\ f \in FindingsOf(claimed)
  /\ V2 => ~EvaluationRaises(LineFacts, selection.path, f[Line], evidence)
  /\ reviewed' = [handoff |-> handoff.number, eligible |-> Establishes(f)]

ReviewerApproves ==
  /\ At("reviewer")
  /\ \E f \in FindingsOf(claimed), s \in Snapshots :
       /\ ApprovalIsValid(f) /\ ReviewerFinds(f)
       /\ IF Routing(s) # None THEN ToHuman(Routing(s))
          ELSE gate' = None /\ Continue("emit_resolution_handoff") /\ UNCHANGED human
  /\ UNCHANGED <<case, intake, round, policy, proof, handoff, verified, review, answers>>

ReviewerRevises ==
  /\ At("reviewer")
  /\ \E f \in FindingsOf(claimed) :
       /\ ReviewerFinds(f)
       /\ IF round.revision >= REVISION_LIMIT
          THEN ToHuman("REVISION_BUDGET_EXCEEDED") /\ UNCHANGED review
          ELSE /\ review' = [bundle |-> bundle, open |-> Askable(f)]
               /\ gate' = None
               /\ Continue("record_revision_event") /\ UNCHANGED human
  /\ UNCHANGED <<case, intake, round, policy, proof, handoff, verified, answers>>

RecordRevisionEvent ==
  /\ At("record_revision_event")
  /\ Advance("revision", "propose_decision")
  /\ UNCHANGED <<case, intake, policy, proof, deciding, answers>>

-----------------------------------------------------------------------------
(* Human review and the ends. *)

\* await_human_review: submit once, then look for the result, else wait.
SubmitForReview ==
  /\ At("await_human_review") /\ ~human.submitted
  /\ human' = [human EXCEPT !.submitted = TRUE]
  /\ Continue("await_human_review")
  /\ UNCHANGED <<case, intake, round, policy, proof, handoff, review,
                 verified, reviewed, gate, answers>>

AwaitHumanReview ==
  /\ At("await_human_review") /\ human.submitted /\ human.source = None
  /\ Interrupt("HUMAN_REVIEW")

FetchResult ==
  /\ At("await_human_review") /\ human.submitted /\ human.source # None
  /\ Continue("emit_resolution_handoff")
  /\ UNCHANGED <<case, intake, round, policy, proof, deciding, answers>>

\* complete_for_case: what the policy still allows a human to decide. A v2 refund
\* rests on the reviewer's findings or, edited, on the human's own.
HumanMay(source, action) ==
  CASE source = "HUMAN_REJECT" -> action = "DECLINE"
    [] source = "HUMAN_APPROVE" ->
         action = handoff.action /\ (action = "FULL_REFUND" => reviewed.eligible)
    [] source = "HUMAN_EDIT" -> action = "FULL_REFUND" =>
         /\ UserEvidence => handoff.evidence > 0
         /\ V2 => \E f \in FindingsOf(claimed) : Establishes(f)

\* The result is stored and the poll resumed in one transaction.
HumanDecides ==
  /\ pause = "HUMAN_REVIEW"
  /\ \E s \in Sources \ {"REVIEWER_APPROVE"}, a \in Actions :
       HumanMay(s, a) /\ human' = [human EXCEPT !.source = s, !.action = a]
  /\ Continue("await_human_review")
  /\ UNCHANGED <<case, intake, round, policy, proof, handoff, review,
                 verified, reviewed, gate, answers>>

\* build_resolution_handoff.
Resolution ==
  IF human.source # None THEN [source |-> human.source, action |-> human.action]
  ELSE [source |-> "REVIEWER_APPROVE", action |-> handoff.action]

EmitResolutionHandoff ==
  /\ At("emit_resolution_handoff")
  /\ resolution' = Resolution
  /\ Goto("enqueue_memory_distillation") /\ UNCHANGED escalation
  /\ UNCHANGED <<case, intake, round, policy, proof, deciding, answers>>

\* The input of the memory job is assembled. (terminate_automation, the other
\* last node, only turns the state it is reached with into a handoff.)
EnqueueMemoryDistillation ==
  /\ At("enqueue_memory_distillation")
  /\ Continue("end")
  /\ UNCHANGED <<case, intake, round, policy, proof, deciding, answers>>

-----------------------------------------------------------------------------
Node ==
  \/ ParseRequest \/ ParseIncomplete \/ RequestClarification \/ LoadCaseContext
  \/ RetrievePolicy \/ NoPolicy \/ PrepareMemoryQuery \/ RetrieveMemory
  \/ AssessCase \/ RequestEvidence \/ EvaluatePolicy \/ ConfirmPolicyPath
  \/ ProposeBudgetExceeded \/ Propose \/ ProposeAsksConsent
  \/ ProposeAsksEvidence \/ ProposeConflict
  \/ VerificationPasses \/ VerificationFails \/ VerificationUnavailable
  \/ ReviewerApproves \/ ReviewerRevises \/ RecordRevisionEvent
  \/ SubmitForReview \/ AwaitHumanReview \/ FetchResult
  \/ EmitResolutionHandoff \/ EnqueueMemoryDistillation \/ NodeFails

People == Clarify \/ DeliverEvidence \/ DeclinePath \/ AcceptPath \/ HumanDecides

Next == Node \/ People

Spec == Init /\ [][Next]_vars

\* The worker runs the nodes; that people answer is what "if asked, answered"
\* means for the liveness of a case.
FairSpec == Spec /\ WF_vars(Node) /\ WF_vars(People)

-----------------------------------------------------------------------------
(* What must hold. *)

ByTheAgent == resolution # None /\ resolution.source \in {"REVIEWER_APPROVE", "HUMAN_APPROVE"}
Refunds == resolution # None /\ resolution.action = "FULL_REFUND"

\* What is released is the very proposal that was verified and reviewed last,
\* and nothing it rests on, evidence or path, has changed since it was made:
\* the loops over evidence, revision and consent all lead back to a proposal.
ApprovedIsCurrent == resolution # None =>
  /\ verified = handoff.number /\ reviewed.handoff = handoff.number
  /\ handoff.evidence = evidence /\ handoff.bundle = bundle

\* No v2 refund, whoever decides it, human editors included, is released on a
\* line that the facts of the platform keep closed: too late for its path,
\* outside the rules' validity, spent, disputed, or beyond the scope of the pilot.
RefundIsOpenByFacts == V2 /\ Refunds =>
  LET f == LineFacts IN
  /\ f.submitted \in Nat /\ f.deadline[bundle] \in Nat
  /\ f.submitted <= f.deadline[bundle] /\ f.effective[bundle] <= f.submitted
  /\ f.spent = FALSE /\ ~f.reserved /\ f.exception = "NONE_CONFIRMED" /\ f.inScope = TRUE

\* A refund that no human has seen is within the configured threshold and is
\* not that of a buyer whose history is of high risk or unknown (v2).
UnseenRefundIsHarmless ==
  Refunds /\ resolution.source = "REVIEWER_APPROVE" =>
    /\ case.threshold # None /\ ~(Amount(handoff.scope) > case.threshold)
    /\ V2 => case.buyer # None /\ RiskLevel(case.buyer) # "HIGH"

\* The buyer has agreed to what the agent's refund asks of them: to send the
\* goods back under this very requirement, and to a path that is not the one
\* their reason stands for.
ConsentedReturn == V2 /\ ByTheAgent /\ Refunds =>
  /\ handoff.requirement # Waived =>
       \E q \in Accepted : q.path = bundle /\ q.requirement = handoff.requirement
  /\ bundle # ReasonPath[reason] =>
       \E q \in Accepted : q.path = bundle /\ q.original = ReasonPath[reason]

\* The agent declines a v2 claim only when no path, the cooling-off path
\* included, would have been open to the buyer.
DeclineLeavesNoPath ==
  V2 /\ ByTheAgent /\ resolution.action = "DECLINE" =>
    \A p \in Paths : PathStatus(p, assessment[Line]) # "ELIGIBLE"

\* Whatever the models read was remembered for the path they decide on, also
\* after the path was changed in the middle of a case.
MemoryOfThePath ==
  route \in {"assess_case", "propose_decision"} => memory \in {None, bundle}

Closed == route \in {"end", "terminate_automation"}

\* A confirmation that the API has an answer to and the graph waits for again.
AsksAgain == pause = "POLICY_CONFIRMATION" /\ Answered(asked)

\* Every case ends in a resolution or with a human, whatever the models, the
\* providers and the buyer say: all loops are bounded. The one exception is the
\* confirmation of the run finding_confirmation.
CaseCloses == <>(Closed \/ AsksAgain)

\* A confirmation the graph waits for can be answered (a pause point is resumed
\* with a typed answer).
ConfirmationIsOpen == ~AsksAgain
=============================================================================
