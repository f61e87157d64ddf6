-------------------------- MODULE AgentGraphProofs --------------------------
(***************************************************************************)
(* Theorems about the agent graph of one case: its type invariant and the  *)
(* six safety invariants of AgentGraph, for every set of cases, facts,     *)
(* prices and histories. They rest on one inductive invariant, IInv, that  *)
(* says for each node of the graph what must be known when it is reached;  *)
(* every loop (evidence, revision, verification, consent) re-establishes   *)
(* it on the way back.                                                     *)
(***************************************************************************)
EXTENDS AgentGraph, TLAPS

-----------------------------------------------------------------------------
(* The inductive invariant. *)

\* Nodes at which nothing is concluded yet, nodes at which a handoff exists,
\* and nodes behind the last decision.
IntakeNodes == {"parse_request", "request_clarification", "load_case_context"}

Released == {"emit_resolution_handoff", "enqueue_memory_distillation", "end"}

Proposed ==
  {"external_verification", "reviewer", "record_revision_event",
   "await_human_review"} \cup Released

\* The facts of the platform leave the selected path open.
PathIsClear == Failures(LineFacts, bundle) = {}

PausedAtItsNode ==
  /\ pause = "CLARIFICATION" => route = "request_clarification"
  /\ pause = "EVIDENCE_REQUEST" => route = "request_evidence"
  /\ pause = "POLICY_CONFIRMATION" => route = "confirm_policy_path"
  /\ pause = "HUMAN_REVIEW" => route = "await_human_review"

\* Every delivery of evidence was paid for with a round.
RoundsCounted ==
  /\ evidence + (IF route = "request_evidence" THEN 1 ELSE 0) <= round.evidence + 1
  /\ route = "record_revision_event" => round.revision < REVISION_LIMIT

ClaimKnown ==
  /\ route \in IntakeNodes => selection = None /\ assessment = None
  /\ route = "load_case_context" => reason \in Reasons
  /\ route \notin IntakeNodes \cup {"terminate_automation"} =>
       reason \in Reasons /\ claimed # {}

\* The bundle is that of the selected path; only while the policy is retrieved
\* may the selection be newer.
PolicyKnown ==
  /\ route \notin IntakeNodes \cup {"retrieve_policy", "terminate_automation"} =>
       IF V2 THEN selection \in Selections /\ selection.path = bundle ELSE bundle = "v1"
  /\ route \in {"evaluate_policy", "confirm_policy_path"} => V2

Assessed ==
  route \in {"evaluate_policy", "confirm_policy_path", "propose_decision"} \cup Proposed =>
    assessment \in [claimed -> Findings]

MemoryFits ==
  route \notin {"prepare_memory_query", "terminate_automation"} => memory \in {None, bundle}

\* The buyer is asked about the present selection, and the only other path
\* they are ever offered is the cooling-off path in place of a damage claim.
AskedIsFitting == route = "confirm_policy_path" =>
  /\ asked \in Requests /\ asked.original = selection.path
  /\ \/ asked.path = asked.original
     \/ asked.path = "COOLING_OFF" /\ asked.original = "DAMAGED_ON_ARRIVAL"

\* The consent of a selection was given, and given for its path; a path that is
\* not that of the reason is one the buyer agreed to in place of it.
ConsentHeld == selection # None =>
  /\ selection.consent # None =>
       selection.consent \in Accepted /\ selection.consent.path = selection.path
  /\ \/ selection.path = ReasonPath[reason]
     \/ /\ selection.path = "COOLING_OFF" /\ ReasonPath[reason] = "DAMAGED_ON_ARRIVAL"
        /\ \E q \in Accepted : q.path = "COOLING_OFF" /\ q.original = "DAMAGED_ON_ARRIVAL"

HandoffCurrent == route \in Proposed =>
  handoff \in Handoffs /\ handoff.bundle = bundle /\ handoff.evidence = evidence

\* What a proposal was checked against still holds when it is decided about.
HandoffFounded == route \in Proposed /\ V2 =>
  /\ handoff.action = "FULL_REFUND" =>
       /\ PathIsClear
       /\ handoff.requirement # Waived =>
            selection.consent # None /\ selection.consent.requirement = handoff.requirement
  /\ handoff.action = "DECLINE" => OpenPaths(assessment[Line]) = {}

Examined ==
  /\ route \in Proposed \ {"external_verification"} => verified = handoff.number
  /\ route \in Released \cup {"await_human_review"} => reviewed.handoff = handoff.number

HumanSpeaks == human.source # None =>
  /\ route \in Released \cup {"await_human_review", "terminate_automation"}
  /\ human.source # "REVIEWER_APPROVE" /\ human.action \in Actions
  /\ human.source = "HUMAN_APPROVE" => human.action = handoff.action
  /\ V2 /\ human.action = "FULL_REFUND" => PathIsClear

\* What the gates let pass without a human.
Harmless ==
  /\ case.threshold # None /\ ~(Amount(handoff.scope) > case.threshold)
  /\ V2 => case.buyer # None /\ RiskLevel(case.buyer) # "HIGH"

GatesPassed ==
  route \in Released /\ human.source = None /\ handoff.action = "FULL_REFUND" => Harmless

ResolutionIsIt ==
  resolution # None => route \in {"enqueue_memory_distillation", "end"} /\ resolution = Resolution

IInv ==
  /\ TypeOK
  /\ PausedAtItsNode /\ RoundsCounted /\ ClaimKnown /\ PolicyKnown /\ Assessed
  /\ MemoryFits /\ AskedIsFitting /\ ConsentHeld /\ HandoffCurrent /\ HandoffFounded
  /\ Examined /\ HumanSpeaks /\ GatesPassed /\ ResolutionIsIt

USE DEF At, Goto, Continue, Fail, Count, Advance, Interrupt,
        vars, intake, policy, proof, deciding, verdicts, outcome

-----------------------------------------------------------------------------
(* Lemmas about the rules. *)

LEMMA NoneIsOther == None \notin PauseKinds /\ None \notin Sources
  BY NoneAssumption

\* The findings the models may return are findings.
LEMMA FindingsTyped ==
  ASSUME NEW S PROVE FindingsOf(S) \subseteq [S -> Findings]
  BY DEF FindingsOf, Findings

LEMMA ReasonPathTyped == \A r \in Reasons : ReasonPath[r] \in Paths
  BY DEF Reasons, ReasonPath, Paths

\* A path is eligible only when no trusted fact keeps it closed (evaluate_policy).
LEMMA EligibleHasNoFailure ==
  ASSUME NEW f, NEW p, NEW q, NEW finding, EvaluatePath(f, p, q, finding) = "ELIGIBLE"
  PROVE  Failures(f, p) = {}
  BY DEF EvaluatePath

\* What the absence of failures says about a line: it was handed in within the
\* window and the validity of the path, is within the pilot, and can be paid.
LEMMA NoFailureMeans ==
  ASSUME NEW f \in Facts(Nat, Nat), NEW p \in Paths, Failures(f, p) = {}
  PROVE  /\ f.submitted \in Nat /\ f.deadline[p] \in Nat
         /\ f.submitted <= f.deadline[p] /\ f.effective[p] <= f.submitted
         /\ f.spent = FALSE /\ ~f.reserved
         /\ f.exception = "NONE_CONFIRMED" /\ f.inScope = TRUE
  <1>1. \A q \in CommonPredicates : PredicateValue(f, p, q) = "PASS"
    BY DEF Failures, PathPredicates
  <1>2. Found(f.inScope # None, f.inScope) = "PASS"
    BY <1>1 DEF CommonPredicates, PredicateValue
  <1>3. Found(f.exception # "UNKNOWN", f.exception = "NONE_CONFIRMED") = "PASS"
    BY <1>1 DEF CommonPredicates, PredicateValue
  <1>4. InWindow(f, p) = "PASS"
    BY <1>1 DEF CommonPredicates, PredicateValue
  <1>5. Found(f.spent # None,
              ~f.spent /\ ~f.reserved /\ f.withinMax /\ f.refundable > 0) = "PASS"
    BY <1>1 DEF CommonPredicates, PredicateValue
  <1>6. ~(f.submitted = None \/ f.submitted < f.effective[p])
    BY DEF Failures
  <1> QED BY <1>2, <1>3, <1>4, <1>5, <1>6 DEF Found, InWindow, Facts

\* The path of the bundle is clear when it is open under any findings.
LEMMA ClearIfOpen ==
  ASSUME NEW x, selection.path = bundle, selection.path \in OpenPaths(x)
  PROVE  PathIsClear
  BY EligibleHasNoFailure DEF OpenPaths, PathStatus, PathIsClear

\* A decision a draft can be completed to is a founded refund or a founded decline.
LEMMA DecisionsFounded ==
  ASSUME NEW d \in Decisions, case \in Cases, V2 => bundle \in Paths
  PROVE  \/ /\ d.action = "FULL_REFUND" /\ RefundIsValid(d.scope)
            /\ d.scope \subseteq claimed /\ d.requirement \in RequiredReasons \cup {Waived}
         \/ /\ d.action = "DECLINE" /\ DeclineIsValid
            /\ d.scope = {} /\ d.requirement = None
  <1>1. EffectiveReturnPolicy \in {"REQUIRED", "NOT_REQUIRED", "MODEL_JUDGMENT"}
    BY CasesAssumption DEF EffectiveReturnPolicy, ReturnPolicy
  <1>2. Requirements \subseteq RequiredReasons \cup {Waived}
    BY <1>1 DEF Requirements
  <1> QED BY <1>2 DEF Decisions

\* An answer is added to the records, none is taken back.
LEMMA AnswerKept ==
  ASSUME NEW ok \in BOOLEAN, Answer(ok)
  PROVE  Accepted \subseteq Accepted' /\ (ok => asked \in Accepted')
  <1> DEFINE a == [request |-> asked, accepted |-> ok]
  <1>1. answers' = answers \cup {a}
    BY DEF Answer
  <1>2. ok => a \in {b \in answers' : b.accepted} /\ a.request = asked
    BY <1>1
  <1> QED BY <1>1, <1>2 DEF Accepted

\* The judgments of a proposal are about what the proposal leaves alone.
LEMMA FoundedStays ==
  ASSUME UNCHANGED <<case, claimed, bundle, selection, assessment>>
  PROVE  /\ V2' = V2 /\ PathIsClear' = PathIsClear
         /\ OpenPaths(assessment[Line])' = OpenPaths(assessment[Line])
  BY DEF V2, PathIsClear, OpenPaths, PathStatus, LineFacts, Line

LEMMA HarmlessStays ==
  ASSUME UNCHANGED <<case, handoff>> PROVE Harmless' = Harmless
  BY DEF Harmless, V2, Amount, MapThenSumSet, MapThenFoldSet

LEMMA AcceptedStays == ASSUME answers' = answers PROVE Accepted' = Accepted
  BY DEF Accepted

-----------------------------------------------------------------------------
(* Lemmas about single steps. *)

LEMMA PathToRetrieveTyped ==
  ASSUME At("retrieve_policy"), TypeOK, ClaimKnown
  PROVE  PathToRetrieve \in Paths
  <1>1. selection # None => selection \in Selections
    BY DEF TypeOK
  <1> QED BY <1>1, ReasonPathTyped DEF PathToRetrieve, ClaimKnown, Selections, IntakeNodes

LEMMA AnswerTyped ==
  ASSUME IInv, NEW ok \in BOOLEAN, Answer(ok)
  PROVE  answers' \subseteq [request : Requests, accepted : BOOLEAN]
  BY DEF Answer, IInv, PausedAtItsNode, AskedIsFitting, TypeOK

\* A proposal is bound to the present evidence and bundle. A v2 refund is
\* proposed on a clear path and with the consent it needs, a v2 decline when no
\* path is open.
LEMMA ProposeFounded ==
  ASSUME IInv, Propose
  PROVE  HandoffCurrent' /\ HandoffFounded'
  <1> USE DEF Propose, MayPropose
  <1>0. /\ evidence \in Nat /\ round.propose \in Nat /\ case \in Cases
        /\ claimed \subseteq Items
    BY CasesAssumption DEF IInv, TypeOK, Rounds
  <1>1. PICK d \in Decisions :
          /\ Bound /\ ~NeedsConsent(d)
          /\ handoff' = [number |-> round.propose + 1, action |-> d.action,
                         scope |-> d.scope, requirement |-> d.requirement,
                         bundle |-> bundle, evidence |-> evidence]
    OBVIOUS
  <1>2. IF V2 THEN bundle \in Paths /\ selection.path = bundle ELSE bundle = "v1"
    BY DEF IInv, PolicyKnown, IntakeNodes, Selections
  <1>3. handoff' \in Handoffs
    BY <1>0, <1>1, <1>2, DecisionsFounded
    DEF Handoffs, Actions, PROPOSE_LIMIT, VERIFICATION_LIMIT, REVISION_LIMIT
  <1>4. HandoffCurrent'
    BY <1>1, <1>3 DEF HandoffCurrent
  <1>5. V2 /\ d.action = "FULL_REFUND" => PathIsClear
    BY <1>0, <1>2, DecisionsFounded, ClearIfOpen DEF RefundIsValid
  <1>6. V2 /\ d.action = "DECLINE" => OpenPaths(assessment[Line]) = {}
    BY <1>0, <1>2, DecisionsFounded DEF DeclineIsValid
  <1>7. V2 /\ d.action = "FULL_REFUND" /\ d.requirement # Waived =>
          selection.consent # None /\ selection.consent.requirement = d.requirement
    BY <1>1 DEF NeedsConsent
  <1>8. handoff'.action = d.action /\ handoff'.requirement = d.requirement
    BY <1>1
  <1>9. HandoffFounded'
    BY <1>5, <1>6, <1>7, <1>8, FoundedStays DEF HandoffFounded
  <1> QED BY <1>4, <1>9

-----------------------------------------------------------------------------
\* The actions of Next by the part of the graph they belong to.
IntakeStep ==
  ParseRequest \/ ParseIncomplete \/ RequestClarification \/ Clarify \/ LoadCaseContext
PolicyStep == RetrievePolicy \/ NoPolicy \/ PrepareMemoryQuery \/ RetrieveMemory
EvidenceStep == AssessCase \/ RequestEvidence \/ DeliverEvidence \/ EvaluatePolicy
ConsentStep == ConfirmPolicyPath \/ DeclinePath \/ AcceptPath
ProposalStep ==
  ProposeBudgetExceeded \/ Propose \/ ProposeAsksConsent \/ ProposeAsksEvidence \/ ProposeConflict
VerificationStep == VerificationPasses \/ VerificationFails \/ VerificationUnavailable
ReviewStep == ReviewerApproves \/ ReviewerRevises \/ RecordRevisionEvent
HumanStep == SubmitForReview \/ AwaitHumanReview \/ FetchResult \/ HumanDecides
LastStep == EmitResolutionHandoff \/ EnqueueMemoryDistillation \/ NodeFails

LEMMA StepsOfNext ==
  ASSUME Next
  PROVE  \/ IntakeStep \/ PolicyStep \/ EvidenceStep \/ ConsentStep \/ ProposalStep
         \/ VerificationStep \/ ReviewStep \/ HumanStep \/ LastStep
  BY DEF Next, Node, People, IntakeStep, PolicyStep, EvidenceStep, ConsentStep,
     ProposalStep, VerificationStep, ReviewStep, HumanStep, LastStep

\* A pause is that of the node it waits in.
LEMMA KeepsPausedAtItsNode ==
  ASSUME IInv, [Next]_vars
  PROVE  PausedAtItsNode'
  <1> USE NoneIsOther DEF PauseKinds, IInv, PausedAtItsNode
  <1>1. CASE IntakeStep
    BY <1>1 DEF IntakeStep, ParseRequest, ParseIncomplete, RequestClarification,
       Clarify, LoadCaseContext
  <1>2. CASE PolicyStep
    BY <1>2 DEF PolicyStep, RetrievePolicy, PathToRetrieve, NoPolicy,
       PrepareMemoryQuery, RetrieveMemory
  <1>3. CASE EvidenceStep
    BY <1>3 DEF EvidenceStep, AssessCase, AskForEvidence, RequestEvidence,
       DeliverEvidence, EvaluatePolicy
  <1>4. CASE ConsentStep
    BY <1>4 DEF ConsentStep, ConfirmPolicyPath, DeclinePath, Answer, AcceptPath
  <1>5. CASE ProposalStep
    BY <1>5 DEF ProposalStep, ProposeBudgetExceeded, Propose, MayPropose,
       ProposeAsksConsent, ProposeAsksEvidence, ProposeConflict
  <1>6. CASE VerificationStep
    BY <1>6 DEF VerificationStep, VerificationPasses, VerificationFails,
       VerificationUnavailable
  <1>7. CASE ReviewStep
    BY <1>7 DEF ReviewStep, ReviewerApproves, ToHuman, ReviewerRevises,
       RecordRevisionEvent
  <1>8. CASE HumanStep
    BY <1>8 DEF HumanStep, SubmitForReview, AwaitHumanReview, FetchResult, HumanDecides
  <1>9. CASE LastStep
    BY <1>9 DEF LastStep, EmitResolutionHandoff, EnqueueMemoryDistillation, NodeFails,
       Nodes
  <1>10. CASE UNCHANGED vars
    BY <1>10
  <1> QED BY <1>1, <1>2, <1>3, <1>4, <1>5, <1>6, <1>7, <1>8, <1>9, <1>10, StepsOfNext DEF
     IntakeStep, PolicyStep, EvidenceStep, ConsentStep, ProposalStep, VerificationStep,
     ReviewStep, HumanStep, LastStep

\* Rounds are counted on the way to the buyer, evidence on the way back.
LEMMA KeepsRoundsCounted ==
  ASSUME IInv, [Next]_vars
  PROVE  RoundsCounted'
  <1> USE NoneIsOther DEF PauseKinds, IInv, PausedAtItsNode, RoundsCounted
  <1>0. round \in Rounds /\ evidence \in Nat
    BY DEF TypeOK
  <1>1. CASE IntakeStep
    BY <1>1, <1>0 DEF IntakeStep, ParseRequest, ParseIncomplete, RequestClarification,
       Clarify, LoadCaseContext, Rounds
  <1>2. CASE PolicyStep
    BY <1>2, <1>0 DEF PolicyStep, RetrievePolicy, PathToRetrieve, NoPolicy,
       PrepareMemoryQuery, RetrieveMemory, Rounds, Resolved
  <1>3. CASE EvidenceStep
    BY <1>3, <1>0 DEF EvidenceStep, AssessCase, AskForEvidence, RequestEvidence,
       DeliverEvidence, EvaluatePolicy, Rounds, EVIDENCE_LIMIT
  <1>4. CASE ConsentStep
    BY <1>4, <1>0 DEF ConsentStep, ConfirmPolicyPath, DeclinePath, Answer, AcceptPath,
       Rounds, EVIDENCE_LIMIT
  <1>5. CASE ProposeAsksEvidence
    <2>1. \/ round'.evidence = round.evidence + 1
          \/ route' = "terminate_automation" /\ round'.evidence = round.evidence
      BY <1>0, <1>5 DEF ProposeAsksEvidence, Rounds
    <2> QED BY <1>0, <1>5, <2>1 DEF ProposeAsksEvidence, MayPropose, Rounds, EVIDENCE_LIMIT
  <1>6. CASE ProposeBudgetExceeded \/ Propose \/ ProposeAsksConsent \/ ProposeConflict
    BY <1>6, <1>0 DEF ProposeBudgetExceeded, Propose, MayPropose, ProposeAsksConsent,
       ProposeConflict, Rounds
  <1>7. CASE VerificationStep
    BY <1>7, <1>0 DEF VerificationStep, VerificationPasses, VerificationFails,
       VerificationUnavailable, Rounds
  <1>8. CASE ReviewerRevises
    BY <1>0, <1>8 DEF ReviewerRevises, ToHuman, Rounds, REVISION_LIMIT
  <1>9. CASE ReviewerApproves \/ RecordRevisionEvent
    BY <1>9, <1>0 DEF ReviewerApproves, ToHuman, RecordRevisionEvent, Rounds
  <1>10. CASE HumanStep
    BY <1>10, <1>0 DEF HumanStep, SubmitForReview, AwaitHumanReview, FetchResult,
       HumanDecides
  <1>11. CASE LastStep
    BY <1>11, <1>0 DEF LastStep, EmitResolutionHandoff, EnqueueMemoryDistillation,
       NodeFails, Nodes, Rounds
  <1>12. CASE UNCHANGED vars
    BY <1>12, <1>0
  <1> QED BY <1>1, <1>2, <1>3, <1>4, <1>5, <1>6, <1>7, <1>8, <1>9, <1>10, <1>11, <1>12,
     StepsOfNext DEF IntakeStep, PolicyStep, EvidenceStep, ConsentStep, ProposalStep,
     VerificationStep, ReviewStep, HumanStep, LastStep

\* Behind the intake the reason and the claimed lines are known.
LEMMA KeepsClaimKnown ==
  ASSUME IInv, [Next]_vars
  PROVE  ClaimKnown'
  <1> USE NoneIsOther DEF PauseKinds, IInv, PausedAtItsNode, IntakeNodes, ClaimKnown
  <1>1. CASE ParseRequest
    BY <1>1, CasesAssumption DEF ParseRequest, TypeOK
  <1>2. CASE LoadCaseContext
    BY <1>2, CasesAssumption DEF LoadCaseContext, TypeOK
  <1>3. CASE ParseIncomplete \/ RequestClarification \/ Clarify
    BY <1>3 DEF ParseIncomplete, RequestClarification, Clarify
  <1>4. CASE PolicyStep
    BY <1>4 DEF PolicyStep, RetrievePolicy, PathToRetrieve, NoPolicy,
       PrepareMemoryQuery, RetrieveMemory
  <1>5. CASE EvidenceStep
    BY <1>5 DEF EvidenceStep, AssessCase, AskForEvidence, RequestEvidence,
       DeliverEvidence, EvaluatePolicy
  <1>6. CASE ConsentStep
    BY <1>6 DEF ConsentStep, ConfirmPolicyPath, DeclinePath, Answer, AcceptPath
  <1>7. CASE ProposalStep
    BY <1>7 DEF ProposalStep, ProposeBudgetExceeded, Propose, MayPropose,
       ProposeAsksConsent, ProposeAsksEvidence, ProposeConflict
  <1>8. CASE VerificationStep
    BY <1>8 DEF VerificationStep, VerificationPasses, VerificationFails,
       VerificationUnavailable
  <1>9. CASE ReviewStep
    BY <1>9 DEF ReviewStep, ReviewerApproves, ToHuman, ReviewerRevises,
       RecordRevisionEvent
  <1>10. CASE HumanStep
    BY <1>10 DEF HumanStep, SubmitForReview, AwaitHumanReview, FetchResult, HumanDecides
  <1>11. CASE LastStep
    BY <1>11 DEF LastStep, EmitResolutionHandoff, EnqueueMemoryDistillation, NodeFails,
       Nodes
  <1>12. CASE UNCHANGED vars
    BY <1>12
  <1> QED BY <1>1, <1>2, <1>3, <1>4, <1>5, <1>6, <1>7, <1>8, <1>9, <1>10, <1>11, <1>12,
     StepsOfNext DEF IntakeStep, PolicyStep, EvidenceStep, ConsentStep, ProposalStep,
     VerificationStep, ReviewStep, HumanStep, LastStep

\* The policy is the one of the selected path.
LEMMA KeepsPolicyKnown ==
  ASSUME IInv, [Next]_vars
  PROVE  PolicyKnown'
  <1> USE NoneIsOther DEF PauseKinds, IInv, PausedAtItsNode, IntakeNodes, PolicyKnown, V2
  <1>1. CASE IntakeStep
    BY <1>1 DEF IntakeStep, ParseRequest, ParseIncomplete, RequestClarification,
       Clarify, LoadCaseContext
  <1>2. CASE RetrievePolicy
    <2>1. PathToRetrieve \in Paths
      BY <1>2, PathToRetrieveTyped DEF RetrievePolicy
    <2>2. [path |-> PathToRetrieve, version |-> 1, consent |-> None] \in Selections
      BY <2>1 DEF Selections
    <2>3. selection # None => selection \in Selections
      BY DEF TypeOK
    <2> QED BY <1>2, <2>2, <2>3 DEF RetrievePolicy, PathToRetrieve
  <1>3. CASE NoPolicy \/ PrepareMemoryQuery \/ RetrieveMemory
    BY <1>3 DEF NoPolicy, PrepareMemoryQuery, RetrieveMemory
  <1>4. CASE EvidenceStep
    BY <1>4 DEF EvidenceStep, AssessCase, AskForEvidence, RequestEvidence,
       DeliverEvidence, EvaluatePolicy
  <1>5. CASE ConsentStep
    BY <1>5 DEF ConsentStep, ConfirmPolicyPath, DeclinePath, Answer, AcceptPath
  <1>6. CASE ProposeAsksConsent
    BY <1>6 DEF ProposeAsksConsent, MayPropose, NeedsConsent
  <1>7. CASE ProposeBudgetExceeded \/ Propose \/ ProposeAsksEvidence \/ ProposeConflict
    BY <1>7 DEF ProposeBudgetExceeded, Propose, MayPropose, ProposeAsksEvidence,
       ProposeConflict
  <1>8. CASE VerificationStep
    BY <1>8 DEF VerificationStep, VerificationPasses, VerificationFails,
       VerificationUnavailable
  <1>9. CASE ReviewStep
    BY <1>9 DEF ReviewStep, ReviewerApproves, ToHuman, ReviewerRevises,
       RecordRevisionEvent
  <1>10. CASE HumanStep
    BY <1>10 DEF HumanStep, SubmitForReview, AwaitHumanReview, FetchResult, HumanDecides
  <1>11. CASE LastStep
    BY <1>11 DEF LastStep, EmitResolutionHandoff, EnqueueMemoryDistillation, NodeFails,
       Nodes
  <1>12. CASE UNCHANGED vars
    BY <1>12
  <1> QED BY <1>1, <1>2, <1>3, <1>4, <1>5, <1>6, <1>7, <1>8, <1>9, <1>10, <1>11, <1>12,
     StepsOfNext DEF IntakeStep, PolicyStep, EvidenceStep, ConsentStep, ProposalStep,
     VerificationStep, ReviewStep, HumanStep, LastStep

\* Whoever decides has the findings on every claimed line.
LEMMA KeepsAssessed ==
  ASSUME IInv, [Next]_vars
  PROVE  Assessed'
  <1> USE NoneIsOther DEF PauseKinds, IInv, PausedAtItsNode, ClaimKnown, Proposed, Released,
     IntakeNodes, Assessed
  <1>1. CASE IntakeStep
    BY <1>1 DEF IntakeStep, ParseRequest, ParseIncomplete, RequestClarification,
       Clarify, LoadCaseContext
  <1>2. CASE PolicyStep
    BY <1>2 DEF PolicyStep, RetrievePolicy, PathToRetrieve, NoPolicy,
       PrepareMemoryQuery, RetrieveMemory
  <1>3. CASE AssessCase
    BY <1>3, FindingsTyped DEF AssessCase, AskForEvidence
  <1>4. CASE RequestEvidence \/ DeliverEvidence \/ EvaluatePolicy
    BY <1>4 DEF RequestEvidence, DeliverEvidence, EvaluatePolicy
  <1>5. CASE ConsentStep
    BY <1>5 DEF ConsentStep, ConfirmPolicyPath, DeclinePath, Answer, AcceptPath
  <1>6. CASE ProposalStep
    BY <1>6 DEF ProposalStep, ProposeBudgetExceeded, Propose, MayPropose,
       ProposeAsksConsent, ProposeAsksEvidence, ProposeConflict
  <1>7. CASE VerificationStep
    BY <1>7 DEF VerificationStep, VerificationPasses, VerificationFails,
       VerificationUnavailable
  <1>8. CASE ReviewStep
    BY <1>8 DEF ReviewStep, ReviewerApproves, ToHuman, ReviewerRevises,
       RecordRevisionEvent
  <1>9. CASE HumanStep
    BY <1>9 DEF HumanStep, SubmitForReview, AwaitHumanReview, FetchResult, HumanDecides
  <1>10. CASE LastStep
    BY <1>10 DEF LastStep, EmitResolutionHandoff, EnqueueMemoryDistillation, NodeFails,
       Nodes
  <1>11. CASE UNCHANGED vars
    BY <1>11
  <1> QED BY <1>1, <1>2, <1>3, <1>4, <1>5, <1>6, <1>7, <1>8, <1>9, <1>10, <1>11, StepsOfNext DEF
     IntakeStep, PolicyStep, EvidenceStep, ConsentStep, ProposalStep, VerificationStep,
     ReviewStep, HumanStep, LastStep

\* The memory is dropped when the path changes.
LEMMA KeepsMemoryFits ==
  ASSUME IInv, [Next]_vars
  PROVE  MemoryFits'
  <1> USE NoneIsOther DEF PauseKinds, IInv, PausedAtItsNode, MemoryFits
  <1>1. CASE IntakeStep
    BY <1>1 DEF IntakeStep, ParseRequest, ParseIncomplete, RequestClarification,
       Clarify, LoadCaseContext
  <1>2. CASE RetrieveMemory
    BY <1>2 DEF RetrieveMemory, Matching
  <1>3. CASE RetrievePolicy \/ NoPolicy \/ PrepareMemoryQuery
    BY <1>3 DEF RetrievePolicy, PathToRetrieve, NoPolicy, PrepareMemoryQuery
  <1>4. CASE EvidenceStep
    BY <1>4 DEF EvidenceStep, AssessCase, AskForEvidence, RequestEvidence,
       DeliverEvidence, EvaluatePolicy
  <1>5. CASE ConsentStep
    BY <1>5 DEF ConsentStep, ConfirmPolicyPath, DeclinePath, Answer, AcceptPath
  <1>6. CASE ProposalStep
    BY <1>6 DEF ProposalStep, ProposeBudgetExceeded, Propose, MayPropose,
       ProposeAsksConsent, ProposeAsksEvidence, ProposeConflict
  <1>7. CASE VerificationStep
    BY <1>7 DEF VerificationStep, VerificationPasses, VerificationFails,
       VerificationUnavailable
  <1>8. CASE ReviewStep
    BY <1>8 DEF ReviewStep, ReviewerApproves, ToHuman, ReviewerRevises,
       RecordRevisionEvent
  <1>9. CASE HumanStep
    BY <1>9 DEF HumanStep, SubmitForReview, AwaitHumanReview, FetchResult, HumanDecides
  <1>10. CASE LastStep
    BY <1>10 DEF LastStep, EmitResolutionHandoff, EnqueueMemoryDistillation, NodeFails,
       Nodes
  <1>11. CASE UNCHANGED vars
    BY <1>11
  <1> QED BY <1>1, <1>2, <1>3, <1>4, <1>5, <1>6, <1>7, <1>8, <1>9, <1>10, <1>11, StepsOfNext DEF
     IntakeStep, PolicyStep, EvidenceStep, ConsentStep, ProposalStep, VerificationStep,
     ReviewStep, HumanStep, LastStep

\* The buyer is asked about the present selection only.
LEMMA KeepsAskedIsFitting ==
  ASSUME IInv, [Next]_vars
  PROVE  AskedIsFitting'
  <1> USE NoneIsOther DEF PauseKinds, IInv, PausedAtItsNode, AskedIsFitting
  <1>1. CASE IntakeStep
    BY <1>1 DEF IntakeStep, ParseRequest, ParseIncomplete, RequestClarification,
       Clarify, LoadCaseContext
  <1>2. CASE PolicyStep
    BY <1>2 DEF PolicyStep, RetrievePolicy, PathToRetrieve, NoPolicy,
       PrepareMemoryQuery, RetrieveMemory
  <1>3. CASE EvaluatePolicy
    <2>1. selection \in Selections
      BY <1>3 DEF EvaluatePolicy, PolicyKnown, IntakeNodes
    <2> QED BY <1>3, <2>1, GraphAssumption
         DEF EvaluatePolicy, Request, Requests, Selections, Paths
  <1>4. CASE AssessCase \/ RequestEvidence \/ DeliverEvidence
    BY <1>4 DEF AssessCase, AskForEvidence, RequestEvidence, DeliverEvidence
  <1>5. CASE ConsentStep
    BY <1>5 DEF ConsentStep, ConfirmPolicyPath, DeclinePath, Answer, AcceptPath
  <1>6. CASE ProposeAsksConsent
    <2> PICK d \in Decisions :
          Bound /\ NeedsConsent(d) /\ asked' = Request(selection.path, d.requirement)
      BY <1>6 DEF ProposeAsksConsent
    <2>1. V2 /\ selection \in Selections /\ selection.path = bundle
      BY <1>6 DEF NeedsConsent, ProposeAsksConsent, MayPropose, PolicyKnown, IntakeNodes
    <2>2. d.requirement \in RequiredReasons
      BY <2>1, DecisionsFounded DEF NeedsConsent, TypeOK, Selections
    <2>3. asked' \in Requests
      BY <2>1, <2>2 DEF Request, Requests, Selections
    <2> QED BY <1>6, <2>3 DEF ProposeAsksConsent, Request
  <1>7. CASE ProposeBudgetExceeded \/ Propose \/ ProposeAsksEvidence \/ ProposeConflict
    BY <1>7 DEF ProposeBudgetExceeded, Propose, MayPropose, ProposeAsksEvidence,
       ProposeConflict
  <1>8. CASE VerificationStep
    BY <1>8 DEF VerificationStep, VerificationPasses, VerificationFails,
       VerificationUnavailable
  <1>9. CASE ReviewStep
    BY <1>9 DEF ReviewStep, ReviewerApproves, ToHuman, ReviewerRevises,
       RecordRevisionEvent
  <1>10. CASE HumanStep
    BY <1>10 DEF HumanStep, SubmitForReview, AwaitHumanReview, FetchResult, HumanDecides
  <1>11. CASE LastStep
    BY <1>11 DEF LastStep, EmitResolutionHandoff, EnqueueMemoryDistillation, NodeFails,
       Nodes
  <1>12. CASE UNCHANGED vars
    BY <1>12
  <1> QED BY <1>1, <1>2, <1>3, <1>4, <1>5, <1>6, <1>7, <1>8, <1>9, <1>10, <1>11, <1>12,
     StepsOfNext DEF IntakeStep, PolicyStep, EvidenceStep, ConsentStep, ProposalStep,
     VerificationStep, ReviewStep, HumanStep, LastStep

\* A selection changes only with the consent of the buyer, and consent is never
\* lost.
LEMMA KeepsConsentHeld ==
  ASSUME IInv, [Next]_vars
  PROVE  ConsentHeld'
  <1> USE NoneIsOther DEF PauseKinds, IInv, PausedAtItsNode, ClaimKnown, IntakeNodes,
     ConsentHeld
  <1>1. CASE IntakeStep
    BY <1>1, AcceptedStays DEF IntakeStep, ParseRequest, ParseIncomplete,
       RequestClarification, Clarify, LoadCaseContext
  <1>2. CASE RetrievePolicy
    <2>1. UNCHANGED <<reason, answers>>
      BY <1>2 DEF RetrievePolicy
    <2>2. selection = None /\ selection' # None =>
            selection'.path = ReasonPath[reason] /\ selection'.consent = None
      BY <1>2 DEF RetrievePolicy, PathToRetrieve
    <2>3. selection' = None \/ selection' = selection \/ selection = None
      BY <1>2 DEF RetrievePolicy
    <2> QED BY <2>1, <2>2, <2>3 DEF Accepted
  <1>3. CASE NoPolicy \/ PrepareMemoryQuery \/ RetrieveMemory
    BY <1>3, AcceptedStays DEF NoPolicy, PrepareMemoryQuery, RetrieveMemory
  <1>4. CASE EvidenceStep
    BY <1>4, AcceptedStays DEF EvidenceStep, AssessCase, AskForEvidence,
       RequestEvidence, DeliverEvidence, EvaluatePolicy
  <1>5. CASE DeclinePath
    <2>1. Accepted \subseteq Accepted' /\ UNCHANGED <<selection, reason>>
      BY <1>5, AnswerKept DEF DeclinePath
    <2> QED BY <2>1
  <1>6. CASE AcceptPath
    <2>1. route = "confirm_policy_path"
      BY <1>6 DEF AcceptPath, Answer
    <2>2. /\ asked.original = selection.path
          /\ \/ asked.path = asked.original
             \/ asked.path = "COOLING_OFF" /\ asked.original = "DAMAGED_ON_ARRIVAL"
      BY <2>1 DEF AskedIsFitting
    <2>3. Accepted \subseteq Accepted' /\ asked \in Accepted'
      BY <1>6, AnswerKept DEF AcceptPath
    <2>4. selection'.path = asked.path /\ selection'.consent = asked /\ reason' = reason
      BY <1>6 DEF AcceptPath
    <2>5. selection # None
      BY <2>1, NoneAssumption DEF PolicyKnown
    <2> QED BY <2>2, <2>3, <2>4, <2>5
  <1>7. CASE ConfirmPolicyPath
    BY <1>7, AcceptedStays DEF ConfirmPolicyPath
  <1>8. CASE ProposalStep
    BY <1>8, AcceptedStays DEF ProposalStep, ProposeBudgetExceeded, Propose, MayPropose,
       ProposeAsksConsent, ProposeAsksEvidence, ProposeConflict
  <1>9. CASE VerificationStep
    BY <1>9, AcceptedStays DEF VerificationStep, VerificationPasses, VerificationFails,
       VerificationUnavailable
  <1>10. CASE ReviewStep
    BY <1>10, AcceptedStays DEF ReviewStep, ReviewerApproves, ToHuman, ReviewerRevises,
       RecordRevisionEvent
  <1>11. CASE HumanDecides
    BY <1>11, AcceptedStays DEF HumanDecides
  <1>12. CASE SubmitForReview \/ AwaitHumanReview \/ FetchResult
    BY <1>12, AcceptedStays DEF SubmitForReview, AwaitHumanReview, FetchResult
  <1>13. CASE LastStep
    BY <1>13, AcceptedStays DEF LastStep, EmitResolutionHandoff,
       EnqueueMemoryDistillation, NodeFails, Nodes
  <1>14. CASE UNCHANGED vars
    BY <1>14, AcceptedStays
  <1> QED BY <1>1, <1>2, <1>3, <1>4, <1>5, <1>6, <1>7, <1>8, <1>9, <1>10, <1>11, <1>12, <1>13,
     <1>14, StepsOfNext DEF IntakeStep, PolicyStep, EvidenceStep, ConsentStep,
     ProposalStep, VerificationStep, ReviewStep, HumanStep, LastStep

\* A handoff is made with the evidence and the bundle of the moment, and both
\* stay until the next one is made.
LEMMA KeepsHandoffCurrent ==
  ASSUME IInv, [Next]_vars
  PROVE  HandoffCurrent'
  <1> USE NoneIsOther DEF PauseKinds, IInv, PausedAtItsNode, Proposed, Released,
     HandoffCurrent
  <1>1. CASE IntakeStep
    BY <1>1 DEF IntakeStep, ParseRequest, ParseIncomplete, RequestClarification,
       Clarify, LoadCaseContext
  <1>2. CASE PolicyStep
    BY <1>2 DEF PolicyStep, RetrievePolicy, PathToRetrieve, NoPolicy,
       PrepareMemoryQuery, RetrieveMemory
  <1>3. CASE EvidenceStep
    BY <1>3 DEF EvidenceStep, AssessCase, AskForEvidence, RequestEvidence,
       DeliverEvidence, EvaluatePolicy
  <1>4. CASE ConsentStep
    BY <1>4 DEF ConsentStep, ConfirmPolicyPath, DeclinePath, Answer, AcceptPath
  <1>5. CASE Propose
    BY <1>5, ProposeFounded
  <1>6. CASE ProposeBudgetExceeded \/ ProposeAsksConsent \/ ProposeAsksEvidence \/ ProposeConflict
    BY <1>6 DEF ProposeBudgetExceeded, ProposeAsksConsent, MayPropose,
       ProposeAsksEvidence, ProposeConflict
  <1>7. CASE VerificationStep
    BY <1>7 DEF VerificationStep, VerificationPasses, VerificationFails,
       VerificationUnavailable
  <1>8. CASE ReviewStep
    BY <1>8 DEF ReviewStep, ReviewerApproves, ToHuman, ReviewerRevises,
       RecordRevisionEvent
  <1>9. CASE HumanStep
    BY <1>9 DEF HumanStep, SubmitForReview, AwaitHumanReview, FetchResult, HumanDecides
  <1>10. CASE LastStep
    BY <1>10 DEF LastStep, EmitResolutionHandoff, EnqueueMemoryDistillation, NodeFails,
       Nodes
  <1>11. CASE UNCHANGED vars
    BY <1>11
  <1> QED BY <1>1, <1>2, <1>3, <1>4, <1>5, <1>6, <1>7, <1>8, <1>9, <1>10, <1>11, StepsOfNext DEF
     IntakeStep, PolicyStep, EvidenceStep, ConsentStep, ProposalStep, VerificationStep,
     ReviewStep, HumanStep, LastStep

\* So does what the handoff was checked against.
LEMMA KeepsHandoffFounded ==
  ASSUME IInv, [Next]_vars
  PROVE  HandoffFounded'
  <1> USE NoneIsOther DEF PauseKinds, IInv, PausedAtItsNode, Proposed, Released,
     HandoffFounded
  <1>1. CASE IntakeStep
    BY <1>1, FoundedStays DEF IntakeStep, ParseRequest, ParseIncomplete,
       RequestClarification, Clarify, LoadCaseContext
  <1>2. CASE PolicyStep
    BY <1>2, FoundedStays DEF PolicyStep, RetrievePolicy, PathToRetrieve, NoPolicy,
       PrepareMemoryQuery, RetrieveMemory
  <1>3. CASE EvidenceStep
    BY <1>3, FoundedStays DEF EvidenceStep, AssessCase, AskForEvidence, RequestEvidence,
       DeliverEvidence, EvaluatePolicy
  <1>4. CASE ConsentStep
    BY <1>4, FoundedStays DEF ConsentStep, ConfirmPolicyPath, DeclinePath, Answer,
       AcceptPath
  <1>5. CASE Propose
    BY <1>5, ProposeFounded
  <1>6. CASE ProposeBudgetExceeded \/ ProposeAsksConsent \/ ProposeAsksEvidence \/ ProposeConflict
    BY <1>6, FoundedStays DEF ProposeBudgetExceeded, ProposeAsksConsent, MayPropose,
       ProposeAsksEvidence, ProposeConflict
  <1>7. CASE VerificationStep
    BY <1>7, FoundedStays DEF VerificationStep, VerificationPasses, VerificationFails,
       VerificationUnavailable
  <1>8. CASE ReviewStep
    BY <1>8, FoundedStays DEF ReviewStep, ReviewerApproves, ToHuman, ReviewerRevises,
       RecordRevisionEvent
  <1>9. CASE HumanStep
    BY <1>9, FoundedStays DEF HumanStep, SubmitForReview, AwaitHumanReview, FetchResult,
       HumanDecides
  <1>10. CASE LastStep
    BY <1>10, FoundedStays DEF LastStep, EmitResolutionHandoff,
       EnqueueMemoryDistillation, NodeFails, Nodes
  <1>11. CASE UNCHANGED vars
    BY <1>11, FoundedStays
  <1> QED BY <1>1, <1>2, <1>3, <1>4, <1>5, <1>6, <1>7, <1>8, <1>9, <1>10, <1>11, StepsOfNext DEF
     IntakeStep, PolicyStep, EvidenceStep, ConsentStep, ProposalStep, VerificationStep,
     ReviewStep, HumanStep, LastStep

\* Verification and review are about the present handoff.
LEMMA KeepsExamined ==
  ASSUME IInv, [Next]_vars
  PROVE  Examined'
  <1> USE NoneIsOther DEF PauseKinds, IInv, PausedAtItsNode, Proposed, Released, Examined
  <1>1. CASE IntakeStep
    BY <1>1 DEF IntakeStep, ParseRequest, ParseIncomplete, RequestClarification,
       Clarify, LoadCaseContext
  <1>2. CASE PolicyStep
    BY <1>2 DEF PolicyStep, RetrievePolicy, PathToRetrieve, NoPolicy,
       PrepareMemoryQuery, RetrieveMemory
  <1>3. CASE EvidenceStep
    BY <1>3 DEF EvidenceStep, AssessCase, AskForEvidence, RequestEvidence,
       DeliverEvidence, EvaluatePolicy
  <1>4. CASE ConsentStep
    BY <1>4 DEF ConsentStep, ConfirmPolicyPath, DeclinePath, Answer, AcceptPath
  <1>5. CASE ProposalStep
    BY <1>5 DEF ProposalStep, ProposeBudgetExceeded, Propose, MayPropose,
       ProposeAsksConsent, ProposeAsksEvidence, ProposeConflict
  <1>6. CASE VerificationStep
    BY <1>6 DEF VerificationStep, VerificationPasses, VerificationFails,
       VerificationUnavailable
  <1>7. CASE ReviewerApproves
    BY <1>7 DEF ReviewerApproves, ReviewerFinds, ToHuman
  <1>8. CASE ReviewerRevises
    BY <1>8 DEF ReviewerRevises, ReviewerFinds, ToHuman
  <1>9. CASE RecordRevisionEvent
    BY <1>9 DEF RecordRevisionEvent
  <1>10. CASE HumanStep
    BY <1>10 DEF HumanStep, SubmitForReview, AwaitHumanReview, FetchResult, HumanDecides
  <1>11. CASE LastStep
    BY <1>11 DEF LastStep, EmitResolutionHandoff, EnqueueMemoryDistillation, NodeFails,
       Nodes
  <1>12. CASE UNCHANGED vars
    BY <1>12
  <1> QED BY <1>1, <1>2, <1>3, <1>4, <1>5, <1>6, <1>7, <1>8, <1>9, <1>10, <1>11, <1>12,
     StepsOfNext DEF IntakeStep, PolicyStep, EvidenceStep, ConsentStep, ProposalStep,
     VerificationStep, ReviewStep, HumanStep, LastStep

\* A human decides once, last, and within the policy.
LEMMA KeepsHumanSpeaks ==
  ASSUME IInv, [Next]_vars
  PROVE  HumanSpeaks'
  <1> USE NoneIsOther DEF PauseKinds, IInv, PausedAtItsNode, Released, HumanSpeaks
  <1>0. human \in [submitted : BOOLEAN, source : Sources \cup {None},
                   action : Actions \cup {None}]
    BY DEF TypeOK
  <1>1. CASE IntakeStep
    BY <1>1, <1>0, FoundedStays DEF IntakeStep, ParseRequest, ParseIncomplete,
       RequestClarification, Clarify, LoadCaseContext
  <1>2. CASE PolicyStep
    BY <1>2, <1>0, FoundedStays DEF PolicyStep, RetrievePolicy, PathToRetrieve,
       NoPolicy, PrepareMemoryQuery, RetrieveMemory
  <1>3. CASE EvidenceStep
    BY <1>3, <1>0, FoundedStays DEF EvidenceStep, AssessCase, AskForEvidence,
       RequestEvidence, DeliverEvidence, EvaluatePolicy
  <1>4. CASE ConsentStep
    BY <1>4, <1>0, FoundedStays DEF ConsentStep, ConfirmPolicyPath, DeclinePath, Answer,
       AcceptPath
  <1>5. CASE ProposalStep
    BY <1>5, <1>0, FoundedStays DEF ProposalStep, ProposeBudgetExceeded, Propose,
       MayPropose, ProposeAsksConsent, ProposeAsksEvidence, ProposeConflict
  <1>6. CASE VerificationStep
    BY <1>6, <1>0, FoundedStays DEF VerificationStep, VerificationPasses,
       VerificationFails, VerificationUnavailable
  <1>7. CASE ReviewStep
    BY <1>7, <1>0, FoundedStays DEF ReviewStep, ReviewerApproves, ToHuman,
       ReviewerRevises, RecordRevisionEvent
  <1>8. CASE HumanDecides
    <2> PICK s \in Sources \ {"REVIEWER_APPROVE"}, a \in Actions :
          HumanMay(s, a) /\ human' = [human EXCEPT !.source = s, !.action = a]
      BY <1>8 DEF HumanDecides
    <2>1. human'.source = s /\ human'.action = a
      BY <1>0
    <2>2. s = "HUMAN_APPROVE" => a = handoff.action
      BY DEF HumanMay
    <2>3. V2 /\ a = "FULL_REFUND" => PathIsClear
      BY <1>8, ClearIfOpen DEF HumanDecides, HumanMay, PolicyKnown, IntakeNodes,
         Establishes, HandoffFounded, Proposed, Sources
    <2> QED BY <1>8, <2>1, <2>2, <2>3, FoundedStays DEF HumanDecides
  <1>9. CASE SubmitForReview \/ AwaitHumanReview \/ FetchResult
    BY <1>9, <1>0, FoundedStays DEF SubmitForReview, AwaitHumanReview, FetchResult
  <1>10. CASE LastStep
    BY <1>10, <1>0, FoundedStays DEF LastStep, EmitResolutionHandoff,
       EnqueueMemoryDistillation, NodeFails, Nodes
  <1>11. CASE UNCHANGED vars
    BY <1>11, <1>0, FoundedStays
  <1> QED BY <1>1, <1>2, <1>3, <1>4, <1>5, <1>6, <1>7, <1>8, <1>9, <1>10, <1>11, StepsOfNext DEF
     IntakeStep, PolicyStep, EvidenceStep, ConsentStep, ProposalStep, VerificationStep,
     ReviewStep, HumanStep, LastStep

\* Only the gates let a refund pass without a human.
LEMMA KeepsGatesPassed ==
  ASSUME IInv, [Next]_vars
  PROVE  GatesPassed'
  <1> USE NoneIsOther DEF PauseKinds, IInv, PausedAtItsNode, Released, GatesPassed
  <1>1. CASE IntakeStep
    BY <1>1, HarmlessStays DEF IntakeStep, ParseRequest, ParseIncomplete,
       RequestClarification, Clarify, LoadCaseContext
  <1>2. CASE PolicyStep
    BY <1>2, HarmlessStays DEF PolicyStep, RetrievePolicy, PathToRetrieve, NoPolicy,
       PrepareMemoryQuery, RetrieveMemory
  <1>3. CASE EvidenceStep
    BY <1>3, HarmlessStays DEF EvidenceStep, AssessCase, AskForEvidence,
       RequestEvidence, DeliverEvidence, EvaluatePolicy
  <1>4. CASE ConsentStep
    BY <1>4, HarmlessStays DEF ConsentStep, ConfirmPolicyPath, DeclinePath, Answer,
       AcceptPath
  <1>5. CASE ProposalStep
    BY <1>5, HarmlessStays DEF ProposalStep, ProposeBudgetExceeded, Propose, MayPropose,
       ProposeAsksConsent, ProposeAsksEvidence, ProposeConflict
  <1>6. CASE VerificationStep
    BY <1>6, HarmlessStays DEF VerificationStep, VerificationPasses, VerificationFails,
       VerificationUnavailable
  <1>7. CASE ReviewerApproves
    <2> PICK s \in Snapshots :
          IF Routing(s) # None THEN ToHuman(Routing(s))
          ELSE gate' = None /\ Continue("emit_resolution_handoff") /\ UNCHANGED human
      BY <1>7 DEF ReviewerApproves
    <2>1. CASE Routing(s) # None
      BY <2>1 DEF ToHuman
    <2>2. CASE Routing(s) = None
      <3>1. handoff.action = "FULL_REFUND" => Harmless
        BY <2>2, NoneAssumption DEF Snapshots, Routing, RoutingReason, MonetaryReason,
           RiskReason, RoutingReasons, Harmless
      <3> QED BY <1>7, <2>2, <3>1, HarmlessStays DEF ReviewerApproves
    <2> QED BY <2>1, <2>2
  <1>8. CASE ReviewerRevises \/ RecordRevisionEvent
    BY <1>8, HarmlessStays DEF ReviewerRevises, ToHuman, RecordRevisionEvent
  <1>9. CASE FetchResult
    BY <1>9 DEF FetchResult
  <1>10. CASE SubmitForReview \/ AwaitHumanReview \/ HumanDecides
    BY <1>10, HarmlessStays DEF SubmitForReview, AwaitHumanReview, HumanDecides
  <1>11. CASE LastStep
    BY <1>11, HarmlessStays DEF LastStep, EmitResolutionHandoff,
       EnqueueMemoryDistillation, NodeFails, Nodes
  <1>12. CASE UNCHANGED vars
    BY <1>12, HarmlessStays
  <1> QED BY <1>1, <1>2, <1>3, <1>4, <1>5, <1>6, <1>7, <1>8, <1>9, <1>10, <1>11, <1>12,
     StepsOfNext DEF IntakeStep, PolicyStep, EvidenceStep, ConsentStep, ProposalStep,
     VerificationStep, ReviewStep, HumanStep, LastStep

\* The resolution is built from the decision that stands, and is not touched again.
LEMMA KeepsResolutionIsIt ==
  ASSUME IInv, [Next]_vars
  PROVE  ResolutionIsIt'
  <1> USE NoneIsOther DEF PauseKinds, IInv, PausedAtItsNode, ResolutionIsIt, Resolution
  <1>1. CASE IntakeStep
    BY <1>1 DEF IntakeStep, ParseRequest, ParseIncomplete, RequestClarification,
       Clarify, LoadCaseContext
  <1>2. CASE PolicyStep
    BY <1>2 DEF PolicyStep, RetrievePolicy, PathToRetrieve, NoPolicy,
       PrepareMemoryQuery, RetrieveMemory
  <1>3. CASE EvidenceStep
    BY <1>3 DEF EvidenceStep, AssessCase, AskForEvidence, RequestEvidence,
       DeliverEvidence, EvaluatePolicy
  <1>4. CASE ConsentStep
    BY <1>4 DEF ConsentStep, ConfirmPolicyPath, DeclinePath, Answer, AcceptPath
  <1>5. CASE ProposalStep
    BY <1>5 DEF ProposalStep, ProposeBudgetExceeded, Propose, MayPropose,
       ProposeAsksConsent, ProposeAsksEvidence, ProposeConflict
  <1>6. CASE VerificationStep
    BY <1>6 DEF VerificationStep, VerificationPasses, VerificationFails,
       VerificationUnavailable
  <1>7. CASE ReviewStep
    BY <1>7 DEF ReviewStep, ReviewerApproves, ToHuman, ReviewerRevises,
       RecordRevisionEvent
  <1>8. CASE HumanStep
    BY <1>8 DEF HumanStep, SubmitForReview, AwaitHumanReview, FetchResult, HumanDecides
  <1>9. CASE LastStep
    BY <1>9 DEF LastStep, EmitResolutionHandoff, EnqueueMemoryDistillation, NodeFails,
       Nodes
  <1>10. CASE UNCHANGED vars
    BY <1>10
  <1> QED BY <1>1, <1>2, <1>3, <1>4, <1>5, <1>6, <1>7, <1>8, <1>9, <1>10, StepsOfNext DEF
     IntakeStep, PolicyStep, EvidenceStep, ConsentStep, ProposalStep, VerificationStep,
     ReviewStep, HumanStep, LastStep

-----------------------------------------------------------------------------
(* Types. *)

LEMMA NobodySpoke ==
  [submitted |-> FALSE, source |-> None, action |-> None]
    \in [submitted : BOOLEAN, source : Sources \cup {None}, action : Actions \cup {None}]
  OBVIOUS

\* Every action keeps the types; the rounds stay within their limits.
LEMMA KeepsTypeOK ==
  ASSUME IInv, [Next]_vars
  PROVE  TypeOK'
  <1> USE NoneIsOther DEF TypeOK, IInv
  <1>1. CASE ParseRequest
    <2>1. assessment' = None
      BY <1>1 DEF ParseRequest, ClaimKnown, IntakeNodes
    <2> QED BY <1>1, <2>1, CasesAssumption DEF ParseRequest, Nodes
  <1>2. CASE ParseIncomplete
    <2>1. assessment' = None
      BY <1>2 DEF ParseIncomplete, ClaimKnown, IntakeNodes
    <2>2. round' \in Rounds
      BY <1>2 DEF ParseIncomplete, Rounds, CLARIFICATION_LIMIT
    <2> QED BY <1>2, <2>1, <2>2 DEF ParseIncomplete, Nodes, EscalationReasons
  <1>3. CASE RequestClarification
    BY <1>3 DEF RequestClarification, Nodes, PauseKinds, EscalationReasons
  <1>4. CASE Clarify
    BY <1>4 DEF Clarify, Nodes, PauseKinds, EscalationReasons
  <1>5. CASE LoadCaseContext
    <2>1. assessment' = None
      BY <1>5 DEF LoadCaseContext, ClaimKnown, IntakeNodes
    <2> QED BY <1>5, <2>1 DEF LoadCaseContext, Nodes
  <1>6. CASE RetrievePolicy
    <2>1. bundle' \in Paths \cup {"v1", None} /\ selection' \in Selections \cup {None}
      BY <1>6, PathToRetrieveTyped DEF RetrievePolicy, Selections
    <2> QED BY <1>6, <2>1 DEF RetrievePolicy, Nodes
  <1>7. CASE NoPolicy
    BY <1>7 DEF NoPolicy, Nodes, PauseKinds, EscalationReasons
  <1>8. CASE PrepareMemoryQuery
    <2>1. evidence' \in 0..(EVIDENCE_LIMIT + 1)
      BY <1>8 DEF PrepareMemoryQuery, Resolved, EVIDENCE_LIMIT
    <2> QED BY <1>8, <2>1 DEF PrepareMemoryQuery, Nodes
  <1>9. CASE RetrieveMemory
    BY <1>9 DEF RetrieveMemory, Matching, Nodes
  <1>10. CASE AssessCase
    <2>1. round' \in Rounds
      BY <1>10 DEF AssessCase, AskForEvidence, Rounds, EVIDENCE_LIMIT
    <2>2. (assessment \in [claimed -> Findings])'
      BY <1>10, FindingsTyped DEF AssessCase
    <2>3. /\ route' \in Nodes /\ pause' = None
          /\ escalation' \in EscalationReasons \cup {None} /\ resolution' = resolution
      BY <1>10 DEF AssessCase, AskForEvidence, Nodes, EscalationReasons
    <2> QED BY <1>10, <2>1, <2>2, <2>3 DEF AssessCase
  <1>11. CASE RequestEvidence
    BY <1>11 DEF RequestEvidence, Nodes, PauseKinds, EscalationReasons
  <1>12. CASE DeliverEvidence
    <2>1. evidence' \in 0..(EVIDENCE_LIMIT + 1)
      BY <1>12 DEF DeliverEvidence, EVIDENCE_LIMIT, Rounds, RoundsCounted, PausedAtItsNode
    <2> QED BY <1>12, <2>1 DEF DeliverEvidence, Nodes
  <1>13. CASE EvaluatePolicy
    <2>1. round' \in Rounds
      BY <1>13 DEF EvaluatePolicy, Rounds, EVIDENCE_LIMIT
    <2>2. /\ route' \in Nodes /\ pause' = None
          /\ escalation' \in EscalationReasons \cup {None} /\ resolution' = resolution
      BY <1>13 DEF EvaluatePolicy, Nodes, EscalationReasons
    <2>3. selection \in Selections /\ assessment[Line] \in Findings
      BY <1>13 DEF EvaluatePolicy, PolicyKnown, Assessed, ClaimKnown, IntakeNodes, Line
    <2>4. (evaluation \in [path : Paths, evidence : Nat, finding : Findings])'
      BY <1>13, <2>3 DEF EvaluatePolicy, Selections
    <2>5. asked' \in Requests \cup {None}
      BY <1>13, <2>3, GraphAssumption DEF EvaluatePolicy, Selections, Requests, Request, Paths
    <2> QED BY <1>13, <2>1, <2>2, <2>4, <2>5 DEF EvaluatePolicy
  <1>14. CASE ConfirmPolicyPath
    BY <1>14 DEF ConfirmPolicyPath, Nodes, PauseKinds, EscalationReasons
  <1>15. CASE DeclinePath
    <2>1. round' \in Rounds
      BY <1>15 DEF DeclinePath, Rounds, EVIDENCE_LIMIT
    <2>2. answers' \subseteq [request : Requests, accepted : BOOLEAN]
      BY <1>15, AnswerTyped DEF DeclinePath
    <2> QED BY <1>15, <2>1, <2>2 DEF DeclinePath, Nodes, EscalationReasons
  <1>16. CASE AcceptPath
    <2>1. asked \in Requests
      BY <1>16 DEF AcceptPath, Answer, PausedAtItsNode, AskedIsFitting
    <2>2. answers' \subseteq [request : Requests, accepted : BOOLEAN]
      BY <1>16, AnswerTyped DEF AcceptPath
    <2>3. selection' \in Selections
      BY <1>16, <2>1 DEF AcceptPath, Selections, Requests
    <2> QED BY <1>16, <2>2, <2>3 DEF AcceptPath, Nodes
  <1>17. CASE ProposeBudgetExceeded
    BY <1>17 DEF ProposeBudgetExceeded, Nodes, PauseKinds, EscalationReasons
  <1>18. CASE Propose
    <2>1. handoff' \in Handoffs
      BY <1>18, ProposeFounded DEF HandoffCurrent, Propose, Proposed
    <2>2. round' \in Rounds
      BY <1>18 DEF Propose, MayPropose, Rounds, PROPOSE_LIMIT, VERIFICATION_LIMIT,
         REVISION_LIMIT
    <2> QED BY <1>18, <2>1, <2>2 DEF Propose, Nodes
  <1>19. CASE ProposeAsksConsent
    <2>1. asked' \in Requests
      BY <1>19, KeepsAskedIsFitting DEF Next, Node, AskedIsFitting, ProposeAsksConsent
    <2> QED BY <1>19, <2>1 DEF ProposeAsksConsent, Nodes
  <1>20. CASE ProposeAsksEvidence
    <2>1. CASE round.evidence >= EVIDENCE_LIMIT
      <3>1. round' = [round EXCEPT !["propose"] = @ + 1] /\ round.propose < PROPOSE_LIMIT
        BY <1>20, <2>1 DEF ProposeAsksEvidence, MayPropose
      <3>2. round' \in Rounds
        BY <3>1 DEF Rounds, PROPOSE_LIMIT, VERIFICATION_LIMIT, REVISION_LIMIT
      <3> QED BY <1>20, <2>1, <3>2 DEF ProposeAsksEvidence, Nodes, EscalationReasons
    <2>2. CASE ~(round.evidence >= EVIDENCE_LIMIT)
      <3>1. /\ round' = [round EXCEPT !.propose = @ + 1, !.evidence = @ + 1]
            /\ round.propose < PROPOSE_LIMIT
        BY <1>20, <2>2 DEF ProposeAsksEvidence, MayPropose
      <3>2. round' = [clarification |-> round.clarification, evidence |-> round.evidence + 1,
                      verification |-> round.verification, revision |-> round.revision,
                      propose |-> round.propose + 1]
        BY <3>1 DEF Rounds
      <3>3. round' \in Rounds
        BY <2>2, <3>1, <3>2 DEF Rounds, EVIDENCE_LIMIT, PROPOSE_LIMIT, VERIFICATION_LIMIT,
           REVISION_LIMIT
      <3> QED BY <1>20, <2>2, <3>3 DEF ProposeAsksEvidence, Nodes
    <2> QED BY <2>1, <2>2
  <1>21. CASE ProposeConflict
    <2>1. round' \in Rounds
      BY <1>21 DEF ProposeConflict, MayPropose, Rounds, PROPOSE_LIMIT, VERIFICATION_LIMIT,
         REVISION_LIMIT
    <2> QED BY <1>21, <2>1 DEF ProposeConflict, Nodes, EscalationReasons
  <1>22. CASE VerificationPasses
    <2>1. handoff \in Handoffs
      BY <1>22 DEF HandoffCurrent, Proposed, VerificationPasses
    <2> QED BY <1>22, <2>1 DEF VerificationPasses, Nodes, Handoffs, PROPOSE_LIMIT
  <1>23. CASE VerificationFails
    <2>1. round' \in Rounds
      BY <1>23 DEF VerificationFails, Rounds, VERIFICATION_LIMIT
    <2> QED BY <1>23, <2>1 DEF VerificationFails, Nodes, EscalationReasons
  <1>24. CASE VerificationUnavailable
    BY <1>24 DEF VerificationUnavailable, Nodes, PauseKinds, EscalationReasons
  <1>25. CASE ReviewerApproves
    <2>1. handoff \in Handoffs /\ bundle \in Paths \cup {"v1"}
      BY <1>25 DEF HandoffCurrent, Handoffs, Proposed, ReviewerApproves
    <2>2. reviewed' \in [handoff : 1..PROPOSE_LIMIT, eligible : BOOLEAN]
      BY <1>25, <2>1 DEF ReviewerApproves, ReviewerFinds, Handoffs, Establishes
    <2>3. gate' \in RoutingReasons \cup {None}
      BY <1>25 DEF ReviewerApproves, ToHuman, Routing, RoutingReason, MonetaryReason,
         RiskReason, RoutingReasons
    <2>4. human' \in [submitted : BOOLEAN, source : Sources \cup {None},
                      action : Actions \cup {None}]
      <3>1. \/ human' = human
            \/ human' = [submitted |-> FALSE, source |-> None, action |-> None]
        BY <1>25 DEF ReviewerApproves, ToHuman
      <3> QED BY <3>1, NobodySpoke
    <2>5. route' \in Nodes /\ pause' = None /\ UNCHANGED outcome
      BY <1>25 DEF ReviewerApproves, ToHuman, Nodes
    <2>6. review' = review
      BY <1>25 DEF ReviewerApproves
    <2>7. UNCHANGED <<case, intake, round, policy, proof, handoff, verified, answers>>
      BY <1>25 DEF ReviewerApproves
    <2> QED BY <2>2, <2>3, <2>4, <2>5, <2>6, <2>7
  <1>26. CASE ReviewerRevises
    <2>1. handoff \in Handoffs /\ bundle \in Paths \cup {"v1"}
      BY <1>26 DEF HandoffCurrent, Handoffs, Proposed, ReviewerRevises
    <2>2. reviewed' \in [handoff : 1..PROPOSE_LIMIT, eligible : BOOLEAN]
      BY <1>26, <2>1 DEF ReviewerRevises, ReviewerFinds, Handoffs, Establishes
    <2>3. gate' \in RoutingReasons \cup {None}
      BY <1>26 DEF ReviewerRevises, ToHuman, RoutingReasons
    <2>4. human' \in [submitted : BOOLEAN, source : Sources \cup {None},
                      action : Actions \cup {None}]
      <3>1. \/ human' = human
            \/ human' = [submitted |-> FALSE, source |-> None, action |-> None]
        BY <1>26 DEF ReviewerRevises, ToHuman
      <3> QED BY <3>1, NobodySpoke
    <2>5. route' \in Nodes /\ pause' = None /\ UNCHANGED outcome
      BY <1>26 DEF ReviewerRevises, ToHuman, Nodes
    <2>6. review' = review \/ review' \in [bundle : Paths \cup {"v1"}, open : BOOLEAN]
      <3> PICK f \in FindingsOf(claimed) :
            review' = review \/ review' = [bundle |-> bundle, open |-> Askable(f)]
        BY <1>26 DEF ReviewerRevises
      <3>1. Askable(f) \in BOOLEAN
        BY DEF Askable
      <3> QED BY <2>1, <3>1
    <2>7. UNCHANGED <<case, intake, round, policy, proof, handoff, verified, answers>>
      BY <1>26 DEF ReviewerRevises
    <2> QED BY <2>2, <2>3, <2>4, <2>5, <2>6, <2>7
  <1>27. CASE RecordRevisionEvent
    <2>1. round' \in Rounds
      BY <1>27 DEF RecordRevisionEvent, Rounds, REVISION_LIMIT, RoundsCounted
    <2> QED BY <1>27, <2>1 DEF RecordRevisionEvent, Nodes
  <1>28. CASE SubmitForReview
    <2>1. human' \in [submitted : BOOLEAN, source : Sources \cup {None},
                      action : Actions \cup {None}]
      BY <1>28 DEF SubmitForReview
    <2> QED BY <1>28, <2>1 DEF SubmitForReview, Nodes
  <1>29. CASE AwaitHumanReview
    BY <1>29 DEF AwaitHumanReview, Nodes, PauseKinds, EscalationReasons
  <1>30. CASE FetchResult
    BY <1>30 DEF FetchResult, Nodes, PauseKinds, EscalationReasons
  <1>31. CASE HumanDecides
    <2>1. human' \in [submitted : BOOLEAN, source : Sources \cup {None},
                      action : Actions \cup {None}]
      BY <1>31 DEF HumanDecides
    <2> QED BY <1>31, <2>1 DEF HumanDecides, Nodes
  <1>32. CASE EmitResolutionHandoff
    <2>1. resolution' \in [source : Sources, action : Actions]
      BY <1>32 DEF EmitResolutionHandoff, Resolution, HumanSpeaks, HandoffCurrent, Proposed,
         Released, Handoffs, Sources
    <2> QED BY <1>32, <2>1 DEF EmitResolutionHandoff, Nodes
  <1>33. CASE EnqueueMemoryDistillation
    BY <1>33 DEF EnqueueMemoryDistillation, Nodes, PauseKinds, EscalationReasons
  <1>34. CASE NodeFails
    <2>1. round' \in Rounds
      BY <1>34 DEF NodeFails, Rounds, PROPOSE_LIMIT, VERIFICATION_LIMIT, REVISION_LIMIT
    <2> QED BY <1>34, <2>1 DEF NodeFails, Nodes, EscalationReasons
  <1>35. CASE UNCHANGED vars
    BY <1>35
  <1> QED BY <1>1, <1>2, <1>3, <1>4, <1>5, <1>6, <1>7, <1>8, <1>9, <1>10, <1>11, <1>12,
     <1>13, <1>14, <1>15, <1>16, <1>17, <1>18, <1>19, <1>20, <1>21, <1>22, <1>23, <1>24,
     <1>25, <1>26, <1>27, <1>28, <1>29, <1>30, <1>31, <1>32, <1>33, <1>34, <1>35
       DEF Next, Node, People

-----------------------------------------------------------------------------
(* The theorems. *)

LEMMA InitIInv == Init => IInv
  <1> SUFFICES ASSUME Init PROVE IInv
    OBVIOUS
  <1> USE NoneIsOther DEF Init
  <1>1. TypeOK
    <2>1. round \in Rounds
      BY DEF Rounds, CLARIFICATION_LIMIT, EVIDENCE_LIMIT, VERIFICATION_LIMIT,
         REVISION_LIMIT, PROPOSE_LIMIT
    <2>2. human \in [submitted : BOOLEAN, source : Sources \cup {None},
                     action : Actions \cup {None}]
      OBVIOUS
    <2>3. route \in Nodes /\ evidence \in 0..(EVIDENCE_LIMIT + 1) /\ verified \in 0..PROPOSE_LIMIT
      BY DEF Nodes, EVIDENCE_LIMIT, PROPOSE_LIMIT, VERIFICATION_LIMIT, REVISION_LIMIT
    <2> QED BY <2>1, <2>2, <2>3 DEF TypeOK
  <1>2. PausedAtItsNode /\ RoundsCounted
    BY DEF PausedAtItsNode, PauseKinds, RoundsCounted
  <1>3. ClaimKnown /\ PolicyKnown /\ Assessed
    BY DEF ClaimKnown, PolicyKnown, Assessed, IntakeNodes, Proposed, Released
  <1>4. MemoryFits /\ AskedIsFitting /\ ConsentHeld
    BY DEF MemoryFits, AskedIsFitting, ConsentHeld
  <1>5. HandoffCurrent /\ HandoffFounded /\ Examined
    BY DEF HandoffCurrent, HandoffFounded, Examined, Proposed, Released
  <1>6. HumanSpeaks /\ GatesPassed /\ ResolutionIsIt
    BY DEF HumanSpeaks, GatesPassed, ResolutionIsIt, Released
  <1> QED BY <1>1, <1>2, <1>3, <1>4, <1>5, <1>6 DEF IInv

LEMMA StepIInv == IInv /\ [Next]_vars => IInv'
  <1> SUFFICES ASSUME IInv, [Next]_vars PROVE IInv'
    OBVIOUS
  <1> QED BY KeepsTypeOK, KeepsPausedAtItsNode, KeepsRoundsCounted, KeepsClaimKnown,
       KeepsPolicyKnown, KeepsAssessed, KeepsMemoryFits, KeepsAskedIsFitting,
       KeepsConsentHeld, KeepsHandoffCurrent, KeepsHandoffFounded, KeepsExamined,
       KeepsHumanSpeaks, KeepsGatesPassed, KeepsResolutionIsIt DEF IInv

THEOREM Invariance == Spec => []IInv
  BY InitIInv, StepIInv, PTL DEF Spec

\* The state of a case keeps its types: rounds stay within their limits, the
\* evidence within what the rounds allow, findings are about the claimed lines.
THEOREM TypeSafe == Spec => []TypeOK
  BY Invariance, PTL DEF IInv

\* What is released was verified and reviewed last, and nothing it rests on has
\* changed since it was proposed (emit_resolution_handoff_node).
THEOREM ReleasesTheCurrent == Spec => []ApprovedIsCurrent
  <1>1. IInv => ApprovedIsCurrent
    BY DEF IInv, ApprovedIsCurrent, ResolutionIsIt, Examined, HandoffCurrent, Proposed, Released
  <1> QED BY <1>1, Invariance, PTL

\* Facts of the line of a v2 case.
LEMMA LineFactsTyped ==
  ASSUME IInv, V2, route \in Proposed
  PROVE  LineFacts \in Facts(Nat, Nat) /\ bundle \in Paths
  <1>1. claimed # {} /\ claimed \subseteq case.lines /\ case \in Cases
    BY DEF IInv, TypeOK, ClaimKnown, Proposed, Released, IntakeNodes
  <1>2. Line \in case.lines
    BY <1>1 DEF Line
  <1>3. bundle \in Paths
    BY DEF IInv, PolicyKnown, Proposed, Released, IntakeNodes, Selections
  <1> QED BY <1>1, <1>2, <1>3, CasesAssumption DEF LineFacts

\* No v2 refund is released on a line that the facts of the platform keep
\* closed, whoever decides it (evaluate_policy, validate_human_review_edit).
THEOREM ReleasesOpenRefunds == Spec => []RefundIsOpenByFacts
  <1>1. ASSUME IInv PROVE RefundIsOpenByFacts
    <2> SUFFICES ASSUME V2, Refunds
                 PROVE  LET f == LineFacts IN
                        /\ f.submitted \in Nat /\ f.deadline[bundle] \in Nat
                        /\ f.submitted <= f.deadline[bundle] /\ f.effective[bundle] <= f.submitted
                        /\ f.spent = FALSE /\ ~f.reserved /\ f.exception = "NONE_CONFIRMED"
                        /\ f.inScope = TRUE
      BY DEF RefundIsOpenByFacts
    <2>1. route \in Proposed /\ Resolution.action = "FULL_REFUND"
      BY <1>1 DEF IInv, ResolutionIsIt, Refunds, Proposed, Released
    <2>2. PathIsClear
      BY <1>1, <2>1 DEF IInv, Resolution, HumanSpeaks, HandoffFounded
    <2> QED BY <1>1, <2>1, <2>2, LineFactsTyped, NoFailureMeans DEF PathIsClear
  <1> QED BY <1>1, Invariance, PTL

\* A refund that no human has seen is within the threshold, and its buyer is
\* known and not of high risk (reviewer_node, evaluate_review_gate,
\* evaluate_user_risk).
THEOREM ReleasesHarmlessUnseen == Spec => []UnseenRefundIsHarmless
  <1>1. ASSUME IInv PROVE UnseenRefundIsHarmless
    <2> SUFFICES ASSUME Refunds, resolution.source = "REVIEWER_APPROVE" PROVE Harmless
      BY DEF UnseenRefundIsHarmless, Harmless
    <2>1. route \in Released /\ resolution = Resolution
      BY <1>1 DEF IInv, ResolutionIsIt, Refunds, Released
    <2>2. human.source = None
      BY <1>1, <2>1 DEF IInv, Resolution, HumanSpeaks
    <2>3. handoff.action = "FULL_REFUND"
      BY <2>1, <2>2 DEF Resolution, Refunds
    <2> QED BY <1>1, <2>1, <2>2, <2>3 DEF IInv, GatesPassed
  <1> QED BY <1>1, Invariance, PTL

\* What the agent decides itself is what its handoff says.
LEMMA TheAgentsAction ==
  ASSUME IInv, ByTheAgent
  PROVE  /\ route \in Proposed /\ resolution.action = handoff.action
  <1>1. route \in Proposed /\ resolution = Resolution
    BY DEF IInv, ResolutionIsIt, ByTheAgent, Proposed, Released
  <1>2. human.source # None => human.action = handoff.action
    BY <1>1 DEF IInv, HumanSpeaks, ByTheAgent, Resolution
  <1> QED BY <1>1, <1>2 DEF Resolution

\* The buyer has agreed to the return and to the path of the agent's refund
\* (confirm_policy_path_node, propose_decision_node).
THEOREM ReleasesConsented == Spec => []ConsentedReturn
  <1>1. ASSUME IInv PROVE ConsentedReturn
    <2> SUFFICES ASSUME V2, ByTheAgent, Refunds
                 PROVE  /\ handoff.requirement # Waived =>
                             \E q \in Accepted :
                               q.path = bundle /\ q.requirement = handoff.requirement
                        /\ bundle # ReasonPath[reason] =>
                             \E q \in Accepted : q.path = bundle /\ q.original = ReasonPath[reason]
      BY DEF ConsentedReturn
    <2>1. route \in Proposed /\ handoff.action = "FULL_REFUND"
      BY <1>1, TheAgentsAction DEF Refunds
    <2>2. selection \in Selections /\ selection.path = bundle
      BY <1>1, <2>1 DEF IInv, PolicyKnown, IntakeNodes, Proposed, Released
    <2>3. selection # None
      BY <2>2, NoneAssumption
    <2>4. handoff.requirement # Waived =>
            selection.consent # None /\ selection.consent.requirement = handoff.requirement
      BY <1>1, <2>1 DEF IInv, HandoffFounded
    <2> QED BY <1>1, <2>2, <2>3, <2>4 DEF IInv, ConsentHeld
  <1> QED BY <1>1, Invariance, PTL

\* The agent declines a v2 claim only when no path would have been open
\* (validate_proposed_decision_handoff, evaluate_policy_node).
THEOREM DeclinesTheHopeless == Spec => []DeclineLeavesNoPath
  <1>1. ASSUME IInv PROVE DeclineLeavesNoPath
    <2> SUFFICES ASSUME V2, ByTheAgent, resolution.action = "DECLINE"
                 PROVE  OpenPaths(assessment[Line]) = {}
      BY DEF DeclineLeavesNoPath, OpenPaths
    <2> QED BY <1>1, TheAgentsAction DEF IInv, HandoffFounded
  <1> QED BY <1>1, Invariance, PTL

\* The memory that is read was matched with the present bundle
\* (prepare_memory_query_node, confirm_policy_path_node).
THEOREM ReadsFittingMemory == Spec => []MemoryOfThePath
  <1>1. IInv => MemoryOfThePath
    BY DEF IInv, MemoryFits, MemoryOfThePath
  <1> QED BY <1>1, Invariance, PTL
=============================================================================
