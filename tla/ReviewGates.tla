----------------------------- MODULE ReviewGates -----------------------------
(***************************************************************************)
(* The gates between an approved refund and its automatic release: the     *)
(* monetary threshold of the currency (contracts/review_gates.py) and the  *)
(* risk score of the buyer (contracts/user_risk.py). Pure operators with   *)
(* the versioned default configuration.                                    *)
(***************************************************************************)
EXTENDS Integers

CONSTANT None

\* evaluate_review_gate: the reason for a human, or None. threshold is None for
\* a currency that is not configured.
MonetaryReason(action, amount, threshold) ==
  CASE action = "DECLINE"  -> None
    [] threshold = None    -> "CURRENCY_THRESHOLD_UNCONFIGURED"
    [] amount > threshold  -> "HIGH_VALUE_ITEM"
    [] OTHER               -> None

\* UserRiskSnapshot: counts of the 90 days before the case was opened.
RiskSnapshots(Counts) ==
  {s \in [accountAge : Counts, orders : Counts, sameReason : Counts, refunded : Counts] :
     s.refunded <= s.orders}

\* The rules of user-risk:1.0 with their points.
RepeatedClaims(s) == s.sameReason >= 3
HighRefundRate(s) == s.orders >= 5 /\ 100 * s.refunded >= 40 * s.orders
NewAccountClaims(s) == s.accountAge <= 30 /\ s.sameReason >= 2

RiskScore(s) ==
  (IF RepeatedClaims(s) THEN 40 ELSE 0)
  + (IF HighRefundRate(s) THEN 25 ELSE 0)
  + (IF NewAccountClaims(s) THEN 30 ELSE 0)

RiskLevel(s) ==
  CASE RiskScore(s) <= 39 -> "LOW" [] RiskScore(s) <= 59 -> "MEDIUM" [] OTHER -> "HIGH"

\* evaluate_user_risk, unavailable_user_risk_gate, not_applicable_user_risk_gate:
\* the reason for a human, or None. snapshot is None when there is none.
RiskReason(action, snapshot) ==
  CASE action = "DECLINE" -> None
    [] snapshot = None -> "USER_RISK_UNAVAILABLE"
    [] snapshot # None -> IF RiskLevel(snapshot) = "HIGH" THEN "HIGH_USER_RISK" ELSE None

\* The reviewer's routing reason: money comes first.
RoutingReason(monetary, risk) == IF monetary # None THEN monetary ELSE risk
=============================================================================
