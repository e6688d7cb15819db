----------------------------- MODULE MCExternal -----------------------------
(* Runs of external.sh and of serve.sh by hand, one after another and at the *)
(* same time, with faults, kills and one reading of the operator's status.   *)
EXTENDS External
=============================================================================
