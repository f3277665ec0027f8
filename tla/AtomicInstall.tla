---------------------------- MODULE AtomicInstall ----------------------------
(***************************************************************************)
(* What Courier promises of an installed game while it updates or repairs  *)
(* it: the files, version.json and the managed manifest change together,   *)
(* from what was there to the release, or not at all.  If it loses the     *)
(* record of a change it has begun, it gives the change up half way.       *)
(***************************************************************************)
CONSTANTS
  Entries,    \* the paths under the installation directory that matter
  Contents,   \* what may be at a path
  Nothing,    \* nothing is there
  Target      \* the installation a finished update leaves

VARIABLES
  installed,
  abandoned   \* the record is lost, and the change about to be given up

Init == installed \in [Entries -> Contents] /\ abandoned = FALSE

Switch == ~abandoned /\ UNCHANGED abandoned /\ installed' = Target

\* A path that the change has not come to, has finished with, or has only emptied.
Torn(whole) ==
  {torn \in [Entries -> Contents] :
     \A e \in Entries : torn[e] \in {whole[e], Target[e], Nothing}}

LoseRecord == ~abandoned /\ abandoned' /\ UNCHANGED installed

\* The record may yet be found in order by the next operation.
KeepRecord == abandoned /\ ~abandoned' /\ UNCHANGED installed

GiveUp == abandoned /\ ~abandoned' /\ installed' \in Torn(installed)

Spec == Init /\ [][Switch \/ LoseRecord \/ KeepRecord \/ GiveUp]_<<installed, abandoned>>
=============================================================================
