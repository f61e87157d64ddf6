------------------------------ MODULE MCCaseApi ------------------------------
(* Instance of the API's state machines for TLC: CaseStream with two cases,   *)
(* one of them watched, and two dispatchers; CaseWorkspace; PolicyStore;      *)
(* UserRisk; ActivityTrace. They share no state but the case that exists. One *)
(* scene is chosen at the start: a client that follows the watched case,      *)
(* dispatchers that fail, a second case that competes for the image, the      *)
(* screen of a case, its feed, the policy store, the history of a buyer, or   *)
(* the trace.                                                                 *)
EXTENDS CaseStream, CaseWorkspace, PolicyStore, UserRisk, ActivityTrace, TLC

CONSTANTS k1, k2, i1, d1, d2

VARIABLE scene

allVars == <<vars, screenVars, policyVars, riskVars, traceVars, scene>>

-----------------------------------------------------------------------------
(* Two versions of a v1 family, and the v2 document.                          *)

Clause(id, returns) ==
  [id |-> id, from |-> 1, to |-> 0, markets |-> {}, reasons |-> {"ITEM_DAMAGED"},
   categories |-> {}, actions |-> {"FULL_REFUND"}, returns |-> returns]
Document(family, version, v2, clause) ==
  [family |-> family, version |-> version, source |-> family, v2 |-> v2,
   clauses |-> {clause}]
MCLibrary ==
  {Document("RETURNS", "1", FALSE, Clause(1, "REQUIRED")),
   Document("RETURNS", "2", FALSE, Clause(2, "NOT_REQUIRED")),
   Document("DEMO", "v2.0", TRUE, Clause(3, "REQUIRED"))}

Asked(schema) == [schema |-> schema, opened |-> 2, market |-> "TW",
                  reason |-> "ITEM_DAMAGED", categories |-> {"c"}]
MCRequests == {Asked("v1"), Asked("v2")}
MCReaders == {"run", "rerun", "v1"}
MCRequestOf == [r \in MCReaders |-> Asked(IF r = "v1" THEN "v1" ELSE "v2")]
MCVerifiers == {"call", "retry"}
MCHandoffOf == [v \in MCVerifiers |-> "run"]

\* Documents of one schema, those of v1 under one model; verification begins when
\* retrievals have ended, and what it does not read rests.
MCPolicy ==
  /\ \A d, e \in DOMAIN docs' : d.v2 = e.v2
  /\ \A d \in DOMAIN docs' : d.v2 \/ docs'[d].model = "m1"
  /\ verifier' # verifier \/ \A v \in Verifiers : verifier[v] = "new"
  /\ verifier' # verifier => \A r \in Readers : phase[r] \in {"done", "failed"}

-----------------------------------------------------------------------------
(* A case that is only refunded, one that is judged for two reasons, and a    *)
(* late one judged twice; both earlier refunds are more than the orders.      *)

MCOpenedAt == ("paid" :> 0) @@ ("first" :> 1) @@ ("last" :> 3)
MCOrderOf == ("paid" :> "o1") @@ ("first" :> "o2") @@ ("last" :> "o3")
Judged(c, reason) == [case |-> c, reason |-> reason]
MCAskedOf ==
  ("first" :> Judged("first", "ITEM_DAMAGED")) @@ ("other" :> Judged("first", "WRONG_ITEM"))
  @@ ("last" :> Judged("last", "ITEM_DAMAGED")) @@ ("again" :> Judged("last", "ITEM_DAMAGED"))
MCRisk == \A e \in history' \ history : e.type = "REFUND_SUCCEEDED" => e.reason = "ITEM_DAMAGED"

-----------------------------------------------------------------------------
MCInit ==
  /\ Init /\ WorkspaceInit /\ PolicyInit /\ RiskInit /\ TraceInit
  /\ scene \in {"client", "failures", "rival", "screen", "feed", "policy", "risk", "trace"}
  /\ scene # "risk" => profile
  /\ scene # "policy" => configured = "m1"

Noted == \E c \in Cases : \E n \in DOMAIN log'[c] : log'[c][n].type = "node"

MCCases ==
  /\ Next
  /\ scene # "client" => UNCHANGED streamVars /\ ~Noted
  /\ scene # "failures" => UNCHANGED faults /\ dispatcher'[d2] = Idle
  /\ scene = "rival" => status'[k2] \in {None, "OBSERVING"} /\ agent'[k2] = "idle"
  /\ scene # "rival" => /\ UNCHANGED <<image, records>> /\ status'[k2] = None
                        /\ Len(outbox') < MaxCommands

MCNext ==
  \/ /\ scene \in {"client", "failures", "rival"}
     /\ MCCases
     /\ UNCHANGED <<screenVars, policyVars, riskVars, traceVars, scene>>
  \/ /\ scene = "screen"
     /\ CaseNext
     /\ UNCHANGED <<vars, policyVars, riskVars, traceVars, scene>>
  \/ /\ scene = "feed"
     /\ FeedNext
     /\ UNCHANGED <<vars, policyVars, riskVars, traceVars, scene>>
  \/ /\ scene = "policy"
     /\ PolicyNext /\ MCPolicy
     /\ UNCHANGED <<vars, screenVars, riskVars, traceVars, scene>>
  \/ /\ scene = "risk"
     /\ RiskNext /\ MCRisk
     /\ UNCHANGED <<vars, screenVars, policyVars, traceVars, scene>>
  \/ /\ scene = "trace"
     /\ TraceNext
     /\ UNCHANGED <<vars, screenVars, policyVars, riskVars, scene>>

MCSpec == MCInit /\ [][MCNext]_allVars /\ Fairness /\ TraceFairness
=============================================================================
