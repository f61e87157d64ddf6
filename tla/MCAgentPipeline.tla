-------------------------- MODULE MCAgentPipeline ---------------------------
(* A small instance of AgentPipeline for TLC. *)
EXTENDS AgentPipeline, TLC

CONSTANTS w1, w2, b1, b2

MCWorkers == {w1, w2}
MCBridges == {b1, b2}
MCOneBridge == {b1}
\* A status that leads back to the agent only, and one that leads to a refund.
MCKinds == {"CLARIFICATION", "HUMAN_REVIEW"}
Symmetry == Permutations({w1, w2}) \cup Permutations({b1, b2})
=============================================================================
