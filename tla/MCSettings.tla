----------------------------- MODULE MCSettings -----------------------------
(* Two accounts, so that one can take the place of the other, and two       *)
(* faults or outside changes.                                               *)
EXTENDS Settings
=============================================================================
