---------------------------- MODULE GameLifecycle ----------------------------
(***************************************************************************)
(* What GameSession promises the user interface and the runner: the order  *)
(* of the lifecycle callbacks, and what becomes of the command that the    *)
(* session runs.  A session that is starting may be given up, and then its *)
(* command is cancelled; a game that has been confirmed only exits or is   *)
(* lost sight of, and its command is not touched while it is watched.      *)
(***************************************************************************)

VARIABLES
  stage,     \* "idle", "starting", "running" or "uncertain"
  notice,    \* the last lifecycle callback
  command    \* the session's command: "none", "live" or "doomed"

lifecycle == <<stage, notice, command>>

Commands == {"none", "live", "doomed"}

Init == stage = "idle" /\ notice = "none" /\ command = "none"

Start ==
  /\ stage = "idle"
  /\ command = "none"
  /\ stage' = "starting"
  /\ notice' = "starting"
  /\ UNCHANGED command

\* One command follows another.
Work ==
  /\ stage = "starting"
  /\ command' \in Commands
  /\ UNCHANGED <<stage, notice>>

\* The game is seen: started by this launch, or there already.
Confirm ==
  /\ stage = "starting" \/ (stage = "idle" /\ command = "none")
  /\ stage' = "running"
  /\ notice' = "started"
  /\ UNCHANGED command

\* A launch is given up, at once or later; nothing of it is left running.
Fail ==
  /\ stage \in {"idle", "starting"}
  /\ stage' = "idle"
  /\ notice' = "failed"
  /\ command' \in {"none", "doomed"}

Exit ==
  /\ stage = "running"
  /\ stage' = "idle"
  /\ notice' = "exited"
  /\ command' \in {"none", "doomed"}

Lose ==
  /\ stage = "running"
  /\ stage' = "uncertain"
  /\ notice' = "uncertain"
  /\ UNCHANGED command

\* The command ends by itself, or at last.
End ==
  /\ command' = "none"
  /\ UNCHANGED <<stage, notice>>

Restart == stage' = "idle" /\ notice' = "none" /\ command' = "none"

Next ==
  \/ Start
  \/ Work
  \/ Confirm
  \/ Fail
  \/ Exit
  \/ Lose
  \/ End
  \/ Restart

Spec == Init /\ [][Next]_lifecycle
=============================================================================
