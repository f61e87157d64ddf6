--------------------------- MODULE PolicyEvaluation ---------------------------
(***************************************************************************)
(* The deterministic rules that decide what a v2 claim is entitled to      *)
(* (contracts/policy_v2.py) and the three-valued evidence rule of v1       *)
(* (contracts/validation.py). Pure operators over the facts of one order   *)
(* line and the findings about its claims. The definition marked (fault)   *)
(* is a slip that the properties of AgentGraph must catch.                 *)
(*                                                                         *)
(* A finding stands for all claims of one path about one line: SUPPORTED   *)
(* when each is, CONTRADICTED when one is, otherwise UNSUPPORTED.          *)
(***************************************************************************)
EXTENDS Naturals, FiniteSets

CONSTANT None

Paths == {"COOLING_OFF", "DAMAGED_ON_ARRIVAL", "WRONG_ITEM", "UNDELIVERED_ITEM"}

Findings == {"SUPPORTED", "UNSUPPORTED", "CONTRADICTED"}

\* PATH_CLAIMS: what the findings must establish before a path is open.
PathClaims == [p \in Paths |->
  CASE p = "COOLING_OFF"        -> {}
    [] p = "DAMAGED_ON_ARRIVAL" -> {"ITEM_PHYSICALLY_DAMAGED", "DAMAGE_PRESENT_ON_ARRIVAL"}
    [] p = "WRONG_ITEM"         -> {"WRONG_ITEM_RECEIVED"}
    [] p = "UNDELIVERED_ITEM"   -> {"ITEM_CONFIRMED_UNDELIVERED"}]

CommonPredicates ==
  {"TRANSACTION_IN_SCOPE", "SINGLE_REFUNDABLE_ITEM", "NO_EXCEPTION_ESTABLISHED",
   "WITHIN_PATH_WINDOW", "PAYMENT_SCOPE_AVAILABLE"}

\* PATH_PREDICATES: the trusted facts each path rests on.
PathPredicates == [p \in Paths |->
  CommonPredicates \cup
  CASE p = "COOLING_OFF"        -> {"RECEIPT_CONFIRMED"}
    [] p = "DAMAGED_ON_ARRIVAL" -> {}
    [] p = "WRONG_ITEM"         -> {"PURCHASE_SPEC_AVAILABLE"}
    [] p = "UNDELIVERED_ITEM"   -> {"NONDELIVERY_CONFIRMED", "NO_PENDING_SPLIT_DELIVERY"}]

\* REASON_PATH.
ReasonPath == [r \in {"CHANGED_MIND", "ITEM_DAMAGED", "WRONG_ITEM", "MISSING_ITEM"} |->
  CASE r = "CHANGED_MIND" -> "COOLING_OFF"
    [] r = "ITEM_DAMAGED" -> "DAMAGED_ON_ARRIVAL"
    [] r = "WRONG_ITEM"   -> "WRONG_ITEM"
    [] r = "MISSING_ITEM" -> "UNDELIVERED_ITEM"]

\* PolicyPath._fixed_logic: what a path says about sending the item back.
ReturnPolicy == [p \in Paths |->
  CASE p = "DAMAGED_ON_ARRIVAL" -> "MODEL_JUDGMENT"
    [] p = "UNDELIVERED_ITEM"   -> "NOT_REQUIRED"
    [] OTHER                    -> "REQUIRED"]

\* One order line with what the platform knows of it. None is "not known".
Facts(Instants, Money) ==
  [inScope : BOOLEAN \cup {None},       \* platform, seller, product, market
   single : BOOLEAN,                    \* quantity and returnable quantity 1, no bundle
   exception : {"NONE_CONFIRMED", "ESTABLISHED", "UNKNOWN", "DISPUTED"},
   submitted : Instants \cup {None},    \* first_valid_submitted_at
   deadline : [Paths -> Instants \cup {None}],
   effective : [Paths -> Instants],     \* effective_from
   expiry : [Paths -> Instants \cup {None}],     \* effective_to
   delivery : {"RECEIVED", "CONFIRMED_UNDELIVERED", "IN_TRANSIT", "UNKNOWN"},
   receipt : BOOLEAN,                   \* received_at and shipment_refs present
   investigated : BOOLEAN,              \* investigation_ref present
   split : BOOLEAN \cup {None},         \* pending_split_delivery
   spec : BOOLEAN,                      \* transaction version, sku, specification
   spent : BOOLEAN \cup {None},         \* cancelled or refunded
   reserved : BOOLEAN,                  \* reserved for another case
   withinMax : BOOLEAN,                 \* not above refundable_amount_max
   refundable : Money]

\* found(): a predicate whose facts are missing is neither true nor false.
Found(known, holds) == IF ~known THEN "UNKNOWN" ELSE IF holds THEN "PASS" ELSE "FAIL"

\* (fault) a day of grace.
InWindowLate(f, p) ==
  Found(f.deadline[p] # None /\ f.submitted # None, f.submitted <= f.deadline[p] + 1)

InWindow(f, p) ==
  Found(f.deadline[p] # None /\ f.submitted # None, f.submitted <= f.deadline[p])

\* _predicate_values.
PredicateValue(f, p, q) ==
  CASE q = "TRANSACTION_IN_SCOPE" -> Found(f.inScope # None, f.inScope)
    [] q = "SINGLE_REFUNDABLE_ITEM" -> Found(TRUE, f.single)
    [] q = "NO_EXCEPTION_ESTABLISHED" ->
         Found(f.exception # "UNKNOWN", f.exception = "NONE_CONFIRMED")
    [] q = "WITHIN_PATH_WINDOW" -> InWindow(f, p)
    [] q = "PAYMENT_SCOPE_AVAILABLE" ->
         Found(f.spent # None,
               ~f.spent /\ ~f.reserved /\ f.withinMax /\ f.refundable > 0)
    [] q = "RECEIPT_CONFIRMED" ->
         Found(f.delivery # "UNKNOWN", f.delivery = "RECEIVED" /\ f.receipt)
    [] q = "PURCHASE_SPEC_AVAILABLE" -> Found(TRUE, f.spec)
    [] q = "NONDELIVERY_CONFIRMED" ->
         Found(f.delivery # "UNKNOWN",
               f.delivery = "CONFIRMED_UNDELIVERED" /\ f.investigated)
    [] q = "NO_PENDING_SPLIT_DELIVERY" -> Found(f.split # None, ~f.split)

Failures(f, p) ==
  {q \in PathPredicates[p] : PredicateValue(f, p, q) # "PASS"}
  \cup IF \/ f.submitted = None
          \/ f.submitted < f.effective[p]
          \/ f.expiry[p] # None /\ f.submitted > f.expiry[p]
       THEN {"PATH_NOT_EFFECTIVE"} ELSE {}

\* The findings are about the claims of the selected path; those of another
\* path are not established. Non-delivery is a fact of the system.
FindingOn(p, selected, finding) ==
  CASE PathClaims[p] = {} \/ p = "UNDELIVERED_ITEM" -> "SUPPORTED"
    [] p = selected -> finding
    [] OTHER -> "UNSUPPORTED"

\* evaluate_policy for one line and path.
EvaluatePath(f, p, selected, finding) ==
  LET failures == Failures(f, p)
      status == FindingOn(p, selected, finding) IN
  IF failures # {}
  THEN IF /\ failures = {"WITHIN_PATH_WINDOW"}
          /\ InWindow(f, p) = "FAIL"
          /\ p = "COOLING_OFF"
       THEN "INELIGIBLE" ELSE "SPECIALIST_REQUIRED"
  ELSE CASE status = "CONTRADICTED" -> "INELIGIBLE"
         [] status = "UNSUPPORTED"  -> "NEEDS_INFORMATION"
         [] OTHER                   -> "ELIGIBLE"

\* reason_codes == ["CLAIM_CONTRADICTED"].
ClaimContradicted(f, p, selected, finding) ==
  Failures(f, p) = {} /\ FindingOn(p, selected, finding) = "CONTRADICTED"

\* evaluate_policy raises: a finding about an open path that contradicts the
\* delivery record, or one that cites no evidence of the case.
EvaluationRaises(f, selected, finding, evidence) ==
  /\ Failures(f, selected) = {}
  /\ PathClaims[selected] # {}
  /\ IF selected = "UNDELIVERED_ITEM" THEN finding # "SUPPORTED"
     ELSE finding # "UNSUPPORTED" /\ evidence = 0

-----------------------------------------------------------------------------
(* Several lines of one claim: findings is a function from the claimed lines. *)

\* expected_evidence_status.
EvidenceStatus(findings) ==
  CASE \E i \in DOMAIN findings : findings[i] = "SUPPORTED" -> "SUFFICIENT_FOR_APPROVAL"
    [] \A i \in DOMAIN findings : findings[i] = "CONTRADICTED" -> "SUFFICIENT_FOR_DECLINE"
    [] OTHER -> "INSUFFICIENT"

\* _supported_item_ids.
SupportedItems(findings) == {i \in DOMAIN findings : findings[i] = "SUPPORTED"}
=============================================================================
