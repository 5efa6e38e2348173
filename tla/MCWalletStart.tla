---------------------------- MODULE MCWalletStart ----------------------------
(* Two commands that overlap, two of the parts, and a password that an operator sets. *)
EXTENDS WalletStart, TLC
CONSTANTS c1, c2, own, shielded, dust
Symmetries == Permutations({c1, c2}) \cup Permutations({shielded, dust})

\* Bound of the run: commands that overlap are followed until one of them ends, because
\* nothing is claimed of what comes after.
WhileBothRun == overlapped => \A c \in Commands : Alive(c)
=============================================================================
