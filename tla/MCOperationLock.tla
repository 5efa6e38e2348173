--------------------------- MODULE MCOperationLock ---------------------------
(* The operation lock; process ids are interchangeable.                       *)
EXTENDS OperationLock, TLC

MCSymmetry == Permutations(Pids)
=============================================================================
