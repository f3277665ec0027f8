---------------------------- MODULE ProcessRunner ----------------------------
(***************************************************************************)
(* src/runtime/ProcessRunner.cpp: a QProcess, a timeout timer and a        *)
(* force-kill timer, driven by the Qt event loop.  The operating system    *)
(* may hand out a process id again once its process is gone.               *)
(***************************************************************************)
EXTENDS Command, Naturals

CONSTANTS Commands,     \* the commands clients submit, each at most once
          TimedCommands,\* those whose Request carries timeout_ms > 0
          Pids          \* process ids the operating system uses

ASSUME CommandsAssumption == NoJob \notin Commands /\ TimedCommands \subseteq Commands
ASSUME ProcessesAssumption == Pids \subseteq Nat \ {0} /\ Pids # {}

NoProcess == 0

VARIABLES
  active,          \* active_
  emitted,         \* terminal_emitted_
  request,         \* the command behind request_ and completion_
  hasStarted,      \* current_.started
  forced,          \* forced_outcome_
  timeoutTimer,    \* timeout_timer_ is running
  killTimer,       \* force_kill_timer_ is running
  killPid,         \* force_kill_process_id_
  state,           \* process_->state()
  pid,             \* process_->processId()
  signal,          \* the strongest signal sent to the process
  answer           \* what the clients' completions have been called with

runner     == <<active, emitted, request, hasStarted, forced>>
timers     == <<timeoutTimer, killTimer, killPid>>
process    == <<state, pid, signal>>
runnerVars == <<runner, timers, process, answer>>

NotSubmitted == [started |-> FALSE, outcome |-> "not submitted"]
Pending      == [started |-> FALSE, outcome |-> "pending"]

RunnerTypeOK ==
  /\ active \in BOOLEAN
  /\ emitted \in BOOLEAN
  /\ request \in Commands \cup {NoJob}
  /\ hasStarted \in BOOLEAN
  /\ forced \in ForcedOutcomes \cup {Unforced}
  /\ timeoutTimer \in BOOLEAN
  /\ killTimer \in BOOLEAN
  /\ killPid \in Pids \cup {NoProcess}
  /\ state \in {"NotRunning", "Starting", "Running"}
  /\ pid \in Pids \cup {NoProcess}
  /\ pid = NoProcess <=> state = "NotRunning"
  /\ signal \in {"none", "TERM", "KILL"}
  /\ answer \in [Commands -> {NotSubmitted, Pending} \cup [started : BOOLEAN, outcome : Outcomes]]

RunnerInit ==
  /\ active = FALSE
  /\ emitted = FALSE
  /\ request = NoJob
  /\ hasStarted = FALSE
  /\ forced = Unforced
  /\ timeoutTimer = FALSE
  /\ killTimer = FALSE
  /\ killPid = NoProcess
  /\ state = "NotRunning"
  /\ pid = NoProcess
  /\ signal = "none"
  /\ answer = [c \in Commands |-> NotSubmitted]

\* `if (!active_ || terminal_emitted_) return;`, the guard of every handler.
Listening == active /\ ~emitted

(***************************************************************************)
(* Operations called by clients                                            *)
(***************************************************************************)

\* `if (active_) return false;`
CanSubmit == ~active

\* start(): refused while active_ (and when the executable cannot be prepared,
\* which changes nothing).
Start(c) ==
  /\ CanSubmit
  /\ answer[c] = NotSubmitted
  /\ active' = TRUE
  /\ emitted' = FALSE
  /\ request' = c
  /\ hasStarted' = FALSE
  /\ forced' = Unforced
  /\ timeoutTimer' = (c \in TimedCommands)
  /\ killTimer' = FALSE
  /\ killPid' = NoProcess
  /\ state' = "Starting"
  /\ pid' \in Pids
  /\ signal' = "none"
  /\ answer' = [answer EXCEPT ![c] = Pending]

\* (mutant of ArmForceKill: the request to terminate is all there is)
NoForceKill == UNCHANGED <<killTimer, killPid>>

\* The process that is to be killed is remembered by its id.
ArmForceKill == killTimer' = TRUE /\ killPid' = pid

\* The common part of terminate() and of the timeout handler: a process that is
\* still starting is killed, a running one gets SIGTERM and three seconds.
ForceOut(outcome) ==
  /\ forced' = outcome
  /\ \/ /\ state = "Starting"
        /\ signal' = "KILL"
        /\ UNCHANGED <<killTimer, killPid>>
     \/ /\ state # "Starting"
        /\ signal' = IF signal = "KILL" THEN "KILL" ELSE "TERM"
        /\ ArmForceKill
  /\ UNCHANGED <<active, emitted, request, hasStarted, state, pid, answer>>

\* terminate() and cancel().
Terminate(outcome) ==
  /\ Listening
  /\ ForceOut(outcome)
  /\ UNCHANGED timeoutTimer

(***************************************************************************)
(* Slots of the Qt objects                                                 *)
(***************************************************************************)

OnTimeout ==
  /\ timeoutTimer
  /\ timeoutTimer' = FALSE
  /\ Listening
  /\ ForceOut("TimedOut")

OnForceKill ==
  /\ killTimer
  /\ killTimer' = FALSE
  /\ killPid' = NoProcess
  /\ signal' = IF killPid # NoProcess /\ state # "NotRunning" /\ pid = killPid THEN "KILL" ELSE signal
  /\ UNCHANGED <<runner, timeoutTimer, state, pid, answer>>

OnStarted ==
  /\ state = "Starting"
  /\ state' = "Running"
  /\ hasStarted' = (hasStarted \/ Listening)
  /\ UNCHANGED <<active, emitted, request, forced, timers, pid, signal, answer>>

\* (mutant of StopTimers: the force-kill timer survives the command)
StopTimeoutOnly == timeoutTimer' = FALSE /\ UNCHANGED <<killTimer, killPid>>

StopTimers == timeoutTimer' = FALSE /\ killTimer' = FALSE /\ killPid' = NoProcess

\* finish(): both timers stop, the completion is called once, the slot is free.
Finish(outcome) ==
  /\ emitted' = TRUE
  /\ StopTimers
  /\ answer' = [answer EXCEPT ![request] = [started |-> hasStarted, outcome |-> outcome]]
  /\ request' = NoJob
  /\ active' = FALSE
  /\ UNCHANGED <<hasStarted, forced>>

ProcessGone == state' = "NotRunning" /\ pid' = NoProcess /\ signal' = "none"

\* errorOccurred(FailedToStart).
OnFailedToStart ==
  /\ state = "Starting"
  /\ ProcessGone
  /\ Listening
  /\ Finish(IF forced = Unforced THEN "FailedToStart" ELSE forced)

\* How a process may end: a killed one has crashed, as far as Qt can tell.
Exits == IF signal = "KILL" THEN {"crash"} ELSE {"zero", "nonzero", "crash"}

\* (mutant of ExitOutcome: how the process ended wins over why it was ended)
ExitOutcomeUnforced(exit) ==
  IF exit = "crash" THEN "Crashed" ELSE IF exit = "nonzero" THEN "NonZeroExit" ELSE "Success"

\* finished(): an outcome that was forced stands.
ExitOutcome(exit) ==
  IF forced # Unforced     THEN forced
  ELSE IF exit = "crash"   THEN "Crashed"
  ELSE IF exit = "nonzero" THEN "NonZeroExit"
                           ELSE "Success"

OnFinished ==
  /\ state = "Running"
  /\ ProcessGone
  /\ Listening
  /\ \E exit \in Exits : Finish(ExitOutcome(exit))

RunnerNext ==
  \/ \E c \in Commands : Start(c)
  \/ Terminate("Cancelled")
  \/ OnTimeout
  \/ OnForceKill
  \/ OnStarted
  \/ OnFailedToStart
  \/ OnFinished

(***************************************************************************)
(* Timers fire; the operating system settles a start one way or the other  *)
(* and buries a process that was killed.  Nothing makes an unsignalled     *)
(* process, or one that ignores SIGTERM, end.                              *)
(***************************************************************************)
RunnerFairness ==
  /\ WF_runnerVars(OnTimeout)
  /\ WF_runnerVars(OnForceKill)
  /\ WF_runnerVars(OnStarted \/ OnFailedToStart)
  /\ WF_runnerVars(signal = "KILL" /\ OnFinished)

RunnerSpec == RunnerInit /\ [][RunnerNext]_runnerVars /\ RunnerFairness

(***************************************************************************)
(* Properties                                                              *)
(***************************************************************************)

\* The running slot and the answers agree: the command that holds the runner is
\* the only one still waiting for its completion, and a runner that reports
\* itself free has no process left (start() relies on it: it restarts process_).
OneHolder ==
  /\ \A c \in Commands : answer[c] = Pending <=> (active /\ request = c)
  /\ active <=> state # "NotRunning"

\* A pending force-kill is aimed at the process of the command that was
\* terminated, never at a process started later, even when the operating system
\* has reused the id.
ForceKillAimed ==
  killTimer => /\ Listening
               /\ forced # Unforced
               /\ killPid = pid
               /\ state = "Running"

\* Whatever is going on in the runner is about the one command that holds it: its completion,
\* its process, its timers (start(), terminate(), finish()).
RunnerServesHolder == RunnerTypeOK /\ OneHolder /\ ForceKillAimed

\* A command with a timeout, and one that was cancelled, is answered, whatever its process
\* does (the timers of start() and terminate()).
CommandsAnswered ==
  /\ \A c \in TimedCommands : (answer[c] = Pending) ~> (answer[c] # Pending)
  /\ (active /\ forced # Unforced) ~> ~active

\* The runner implements the slot its clients are written against.
Slot == INSTANCE CommandSlot WITH
  slot <- IF active THEN [job |-> request, gen |-> 0, started |-> hasStarted, forced |-> forced]
          ELSE FreeSlot
SlotSpec == Slot!Spec
=============================================================================
