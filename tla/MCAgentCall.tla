----------------------------- MODULE MCAgentCall -----------------------------
(* The agent's payments for TLC: the constants have the values the .cfg names. *)
EXTENDS AgentCall
CONSTANTS s1, s2, k1, k2, none
=============================================================================
