----------------------------- MODULE GamePhases -----------------------------
(***************************************************************************)
(* src/runtime/GamePhase.cpp: the phases of a game session and the table   *)
(* of transitions that GameSession::transition() accepts.                  *)
(***************************************************************************)

Phases == {"Idle", "Preflight", "CleaningPrefix", "FirstLaunchSetup", "Launching",
           "Running", "MonitoringUncertain", "Finished"}

\* Successors(from): the `to` for which is_valid_game_transition(from, to),
\* besides `from` itself.
Successors ==
  [Idle                |-> {"Preflight", "Running"},
   Preflight           |-> {"CleaningPrefix", "FirstLaunchSetup", "Running", "Finished"},
   CleaningPrefix      |-> {"FirstLaunchSetup", "Finished"},
   FirstLaunchSetup    |-> {"Launching", "Finished"},
   Launching           |-> {"Running", "Finished"},
   Running             |-> {"MonitoringUncertain", "Finished"},
   MonitoringUncertain |-> {},
   Finished            |-> {"Idle"}]

IsValidTransition(from, to) == from = to \/ to \in Successors[from]

StartingPhases == {"Preflight", "CleaningPrefix", "FirstLaunchSetup", "Launching"}
WatchedPhases  == {"Launching", "Running"}
=============================================================================
