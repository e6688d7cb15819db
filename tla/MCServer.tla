------------------------------ MODULE MCServer ------------------------------
(* Server with two runs of serve.sh, two process ids and one port.           *)
EXTENDS Server
=============================================================================
