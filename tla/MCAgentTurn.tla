----------------------------- MODULE MCAgentTurn -----------------------------
(* A thread of the agent whose model may delete two schedules in one message. *)
EXTENDS AgentTurn, TLC

Spec == AgentInit /\ [][AgentNext]_agentVars
=============================================================================
