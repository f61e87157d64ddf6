------------------------------- MODULE UserRisk -------------------------------
(***************************************************************************)
(* The history of one buyer and the snapshots the agent judges his risk by *)
(* (apps/api: capabilities/user_risk.py). A review that approves a v2      *)
(* refund asks for the snapshot of its case; the refund executor and the   *)
(* human review read it again by its reference.                            *)
(*                                                                         *)
(* prepare_snapshot is one transaction of several statements under READ    *)
(* COMMITTED. It locks its case and, when it makes a snapshot, the profile *)
(* of the buyer; the refund ledger takes neither lock, so that refunds     *)
(* commit between its two counts. Days are few, and the seeded events of a *)
(* persona are left out. The definition marked (fault) is a slip that the  *)
(* property must catch.                                                    *)
(***************************************************************************)
EXTENDS Naturals, FiniteSets

CONSTANTS
  RiskCases,     \* v2 cases of the buyer
  OpenedAt,      \* the day a case is opened: as_of of its snapshots
  OrderOf,       \* the order of a case
  RiskCalls,     \* calls of prepare_snapshot
  AskedOf,       \* the case and the reason code of a call
  Window,        \* length of the history that counts: 90 days
  Orders,        \* orders_90d of the buyer's profile
  LastDay,       \* bound
  NoSnapshot

ASSUME RiskAssumption ==
  /\ IsFiniteSet(RiskCases)
  /\ OpenedAt \in [RiskCases -> Nat]
  /\ \A r \in RiskCalls : AskedOf[r].case \in RiskCases
  /\ Window \in Nat /\ Orders \in Nat /\ LastDay \in Nat

VARIABLES
  today,
  profile,       \* whether user_risk_profiles has the buyer, older than his cases
  history,       \* user_risk_events
  snapshots,     \* user_risk_snapshots
  call,          \* where a call is
  counted,       \* its first count
  given          \* the snapshot it has returned, NoSnapshot if none

riskVars == <<today, profile, history, snapshots, call, counted, given>>

RiskInit ==
  /\ today = 0
  /\ profile \in BOOLEAN
  /\ history = {}
  /\ snapshots = {}
  /\ call = [r \in RiskCalls |-> "new"]
  /\ counted = [r \in RiskCalls |-> 0]
  /\ given = [r \in RiskCalls |-> NoSnapshot]

-----------------------------------------------------------------------------
Claim(q) == [case |-> q.case, type |-> "CLAIM_REGISTERED", reason |-> q.reason,
             order |-> OrderOf[q.case], at |-> OpenedAt[q.case]]
Refund(c, reason) == [case |-> c, type |-> "REFUND_SUCCEEDED", reason |-> reason,
                      order |-> OrderOf[c], at |-> today]

\* append_risk_event: unique per case and type; a replay must bring the same event.
Appendable(e) == \A f \in history : f.case = e.case /\ f.type = e.type => f = e

\* The events a snapshot of the case counts.
Prior(c, type) ==
  {e \in history : /\ e.case # c
                   /\ e.type = type
                   /\ e.at + Window >= OpenedAt[c]
                   /\ e.at < OpenedAt[c]}
ClaimCount(q) == Cardinality({e \in Prior(q.case, "CLAIM_REGISTERED") : e.reason = q.reason})
RefundCount(q) == Cardinality({e.order : e \in Prior(q.case, "REFUND_SUCCEEDED")})

\* The locks of the case and of the profile, held to the end of the transaction.
Making == {r \in RiskCalls : call[r] \in {"claims", "refunds"}}
LockedCase(c) == \E r \in Making : AskedOf[r].case = c

\* (fault) the history is counted anew for every call.
NeverStored(q) == {}

\* The snapshot of a case, a reason and the opening of the case.
StoredFor(q) == {s \in snapshots : s.case = q.case /\ s.reason = q.reason}

\* The answer goes to the agent or is lost, which it takes for an unavailable provider.
Give(r, s) ==
  /\ call' = [call EXCEPT ![r] = "done"]
  /\ given' = [given EXCEPT ![r] = s] \/ UNCHANGED given

FailCall(r) ==
  /\ call' = [call EXCEPT ![r] = "done"]
  /\ UNCHANGED <<history, snapshots, counted, given>>

\* prepare_snapshot up to its own claim: the stored snapshot is returned as it is, and
\* a new one waits for the profile; no profile and a claim for another reason raise.
PrepareSnapshot(r) ==
  LET q == AskedOf[r] IN
  /\ call[r] = "new"
  /\ OpenedAt[q.case] <= today
  /\ ~LockedCase(q.case)
  /\ \/ /\ StoredFor(q) # {}
        /\ \E s \in StoredFor(q) : Give(r, s)
        /\ UNCHANGED <<history, snapshots, counted>>
     \/ /\ StoredFor(q) = {} /\ Making = {}
        /\ ~profile \/ ~Appendable(Claim(q))
        /\ FailCall(r)
     \/ /\ StoredFor(q) = {} /\ Making = {}
        /\ profile /\ Appendable(Claim(q))
        /\ call' = [call EXCEPT ![r] = "claims"]
        /\ UNCHANGED <<history, snapshots, counted, given>>
  /\ UNCHANGED <<today, profile>>

CountClaims(r) ==
  /\ call[r] = "claims"
  /\ counted' = [counted EXCEPT ![r] = ClaimCount(AskedOf[r])]
  /\ call' = [call EXCEPT ![r] = "refunds"]
  /\ UNCHANGED <<today, profile, history, snapshots, given>>

\* The second count and the commit. More refunds than orders violate the contract.
StoreSnapshot(r) ==
  LET q == AskedOf[r]
      s == [case |-> q.case, reason |-> q.reason,
            claims |-> counted[r], refunds |-> RefundCount(q)] IN
  /\ call[r] = "refunds"
  /\ IF s.refunds > Orders
     THEN FailCall(r)
     ELSE /\ history' = history \cup {Claim(q)}
          /\ snapshots' = snapshots \cup {s}
          /\ Give(r, s)
          /\ UNCHANGED counted
  /\ UNCHANGED <<today, profile>>

\* The API dies or loses the database: the transaction is rolled back.
CallFails(r) ==
  /\ call[r] \in {"claims", "refunds"}
  /\ FailCall(r)
  /\ UNCHANGED <<today, profile>>

\* complete of the refund ledger, once for a refund that was paid.
RecordRefund(c, reason) ==
  /\ OpenedAt[c] <= today
  /\ \A e \in history : ~(e.case = c /\ e.type = "REFUND_SUCCEEDED")
  /\ history' = history \cup {Refund(c, reason)}
  /\ UNCHANGED <<today, profile, snapshots, call, counted, given>>

NextDay ==
  /\ today < LastDay
  /\ today' = today + 1
  /\ UNCHANGED <<profile, history, snapshots, call, counted, given>>

-----------------------------------------------------------------------------
RiskNext ==
  \/ \E r \in RiskCalls : \/ PrepareSnapshot(r) \/ CountClaims(r)
                          \/ StoreSnapshot(r) \/ CallFails(r)
  \/ \E c \in RiskCases, reason \in {AskedOf[r].reason : r \in RiskCalls} :
       RecordRefund(c, reason)
  \/ NextDay

RiskSpec == RiskInit /\ [][RiskNext]_riskVars

-----------------------------------------------------------------------------
\* The risk an approval was decided on is the risk the executor and the reviewer
\* find: whatever claims and refunds the buyer adds between a call and its retries,
\* or whose answer is lost, the snapshot of a case and reason is one and is the one
\* that was given. It counts no more than the cases opened before its own within the
\* window, never its own; and a case registers one claim.
RiskIsSettled ==
  /\ \A r \in RiskCalls : given[r] # NoSnapshot => StoredFor(AskedOf[r]) = {given[r]}
  /\ \A s \in snapshots :
       LET before == {c \in RiskCases : OpenedAt[c] < OpenedAt[s.case]} IN
       /\ s.claims <= Cardinality({c \in before : OpenedAt[c] + Window >= OpenedAt[s.case]})
       /\ s.refunds <= Cardinality({OrderOf[c] : c \in before})
  /\ \A e, f \in history : e.case = f.case /\ e.type = f.type => e = f
=============================================================================
