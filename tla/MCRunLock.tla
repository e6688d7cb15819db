----------------------------- MODULE MCRunLock -----------------------------
(* RunLock with a few process ids, which are interchangeable.              *)
EXTENDS RunLock, TLC

RunSymmetry == Permutations(Runs)
=============================================================================
