---------------------------- MODULE MCPrefixSetup ----------------------------
(* One launcher installation: its prefix, marker and DXVK setting survive *)
(* the restarts that reset the number of runs.                            *)
EXTENDS PrefixDialog
=============================================================================
