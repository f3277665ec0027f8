---------------------------- MODULE MCPrelaunch ----------------------------
(***************************************************************************)
(* Prelaunch with one game or two, and two or three operations at a time.  *)
(***************************************************************************)
EXTENDS Prelaunch

OneGame  == {"playtest"}
TwoGames == {"playtest", "alicia2"}
TwoIds   == 1 .. 2
ThreeIds == 1 .. 3
=============================================================================
