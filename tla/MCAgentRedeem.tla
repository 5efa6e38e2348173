---------------------------- MODULE MCAgentRedeem ----------------------------
(* The agent's redeems; ids are interchangeable, and so are vaults.           *)
EXTENDS AgentRedeem, TLC

MCSymmetry == Permutations(Ids) \cup Permutations(Vaults)
=============================================================================
