--------------------------- MODULE MCWatchedMirror --------------------------
(* WatchedMirror on a small folder for TLC.  It extends the proofs so that *)
(* TLC evaluates their assumptions and checks the very formulas proved.    *)
EXTENDS WatchedMirrorProofs
=============================================================================
