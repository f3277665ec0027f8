--------------------------- MODULE MCGameSession ---------------------------
(* One launcher process with a bounded number of launches; GameSession's *)
(* limits are scaled down so that every one of them is reached.          *)
EXTENDS GameSession
=============================================================================
