----------------------------- MODULE MCExposure -----------------------------
(* Runs of expose.sh start and stop, several of them one after another or at *)
(* the same time.                                                            *)
EXTENDS Exposure, TLC

\* Runs are told apart by nothing but their progress.
RunSymmetry == Permutations(Runs)
=============================================================================
