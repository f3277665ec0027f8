----------------------------- MODULE GameFiles -----------------------------
(***************************************************************************)
(* What an installation of the game consists of.                           *)
(***************************************************************************)
CONSTANT
  Files       \* paths of game files
=============================================================================
