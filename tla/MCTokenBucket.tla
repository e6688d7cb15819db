--------------------------- MODULE MCTokenBucket ---------------------------
(* TokenBucket on a small clock: every window of at most MaxTime units.    *)
EXTENDS TokenBucket
=============================================================================
