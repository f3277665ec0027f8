--------------------------- MODULE MCCourierUpdate ---------------------------
(* Three files: the release has two of them, and the third is obsolete.      *)
EXTENDS CourierUpdate
=============================================================================
