------------------------------- MODULE MCLlmCall -------------------------------
(***************************************************************************)
(* Calls through the providers and through the ranking's chain.            *)
(***************************************************************************)
EXTENDS LlmCall, TLC

Spec == LlmInit /\ [][LlmNext]_llmVars
=============================================================================
