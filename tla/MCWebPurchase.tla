---------------------------- MODULE MCWebPurchase ----------------------------
(* Two clicks on two services over two connections. *)
EXTENDS WebPurchase, TLC
CONSTANTS r1, r2, s1, s2
Symmetries == Permutations({r1, r2}) \cup Permutations({s1, s2})
=============================================================================
