-------------------------- MODULE MCIntegrityWatch --------------------------
(***************************************************************************)
(* A game of two files, one of which DXVK replaces, in two builds; c1 and  *)
(* c2 have the same length.                                                *)
(***************************************************************************)
EXTENDS IntegrityWatch, TLC

MCFiles    == {"client", "d3dx9", "d3dx9.bak", "d3d9"}
\* What others may write, apart from removing a file.
MCContents == [client |-> {"c1", "c2", "cut"}, d3dx9 |-> {}, d3d9 |-> {"c1"}] @@
              ("d3dx9.bak" :> {})
MCSize(c)  == IF c = "cut" THEN 1 ELSE 2
MCBuilds   == {"b1", "b2"}
MCManifest == [b1 |-> [client |-> "c1", d3dx9 |-> "c1"],
               b2 |-> [client |-> "c2", d3dx9 |-> "c1"]]
MCBackup   == [d3dx9 |-> "d3dx9.bak"]
=============================================================================
