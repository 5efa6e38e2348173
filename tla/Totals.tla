------------------------------- MODULE Totals -------------------------------
(***************************************************************************)
(* The sum of a function whose values are natural numbers, by counting its *)
(* units: a definition without recursion, so that what a step does to a    *)
(* sum follows from the cardinalities of the sets it adds or removes.      *)
(***************************************************************************)
EXTENDS Integers, FiniteSets

Units(f) == UNION {{x} \X (1..f[x]) : x \in DOMAIN f}
Total(f) == Cardinality(Units(f))
=============================================================================
