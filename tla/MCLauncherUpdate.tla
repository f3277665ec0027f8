-------------------------- MODULE MCLauncherUpdate --------------------------
(***************************************************************************)
(* A launcher 0.3, its successor 0.4.0, the candidate before that one, and *)
(* a release with a higher number that was withdrawn more than a year ago. *)
(***************************************************************************)
EXTENDS LauncherUpdate

Word(n) == [numeric |-> FALSE, key |-> n]
Num(n)  == [numeric |-> TRUE, key |-> n]

FourReleases == {"old", "candidate", "new", "lost"}
Numbers == [old       |-> [core |-> <<0, 3>>,    pre |-> <<>>],
            candidate |-> [core |-> <<0, 4>>,    pre |-> <<Word(1), Num(2)>>],
            new       |-> [core |-> <<0, 4, 0>>, pre |-> <<>>],
            lost      |-> [core |-> <<0, 5>>,    pre |-> <<>>]]
OnlyNew  == {"new"}
OnlyLost == {"lost"}
Published == {{"old", "candidate", "new"}, {"old", "candidate", "lost"}, {"old"}}
=============================================================================
