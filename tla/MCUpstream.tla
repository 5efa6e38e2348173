------------------------------ MODULE MCUpstream ------------------------------
(* An origin and two relay services, one of them on a chain nobody wired up, and two
   requests at a time. *)
EXTENDS Upstream, TLC
CONSTANTS s1, s2, r1, r2, sepolia, other
MCChainOf == (r1 :> sepolia) @@ (r2 :> other)
MCAmounts == {1, 2}
Symmetries == Permutations({s1, s2})
=============================================================================
