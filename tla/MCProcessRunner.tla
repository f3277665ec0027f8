--------------------------- MODULE MCProcessRunner ---------------------------
(* Three commands, one of them without a timeout (as the game's wrapper is). *)
EXTENDS ProcessRunner
=============================================================================
