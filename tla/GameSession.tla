----------------------------- MODULE GameSession -----------------------------
(***************************************************************************)
(* src/runtime/GameSession.cpp: starting Alicia, watching it, and noticing *)
(* that it has ended.  Everything runs on the Qt event loop, so a handler  *)
(* is one step; between two handlers the operating system, the game and    *)
(* the user may do anything.  Three event sources drive the session:       *)
(*   - the ProcessRunner (`slot`), which runs the stages of a launch and   *)
(*     then the Wine wrapper, and answers each command once;               *)
(*   - the probe process, one at a time, which lists processes to see      *)
(*     whether Alicia.exe is there, with its own timeout;                  *)
(*   - the monitor timer, which asks for the next probe.                   *)
(* Time is abstracted: a timer that is armed may fire at any moment.       *)
(***************************************************************************)
EXTENDS Command, GamePhases, Naturals

CONSTANTS
  HostPrimary,           \* k_primary_probe_is_host: TRUE on Linux, FALSE on macOS
  GamePids,              \* process ids Alicia.exe may get
  MaxGeneration,         \* bound on the launches of one launcher process
  StartAttemptLimit,     \* k_start_max_attempts (or 180 with the Proton injector)
  ProbeFailureLimit,     \* k_probe_failure_limit
  AttachedFailureLimit,  \* k_attached_probe_failure_limit
  MissingLimit           \* k_missing_confirmation_limit

ASSUME PlatformAssumption == HostPrimary \in BOOLEAN
ASSUME PidsAssumption     == GamePids \subseteq Nat \ {0}
ASSUME BoundAssumption    == MaxGeneration \in Nat
ASSUME LimitsAssumption   ==
  /\ StartAttemptLimit \in Nat \ {0}
  /\ ProbeFailureLimit \in Nat \ {0}
  /\ AttachedFailureLimit \in Nat \ {0}
  /\ MissingLimit \in Nat \ {0}

NoPid == 0

\* tasklist reports Wine's process ids, ps those of the host: on macOS the two
\* numbers a running Alicia.exe has are different.
HostPid(pid) == IF HostPrimary \/ pid = NoPid THEN pid ELSE pid + 1000
ProcessIds   == {NoPid} \cup GamePids \cup {HostPid(pid) : pid \in GamePids}

VARIABLES
  phase,          \* phase_
  generation,     \* generation_
  launch,         \* launch_: absent, holding the login token, or scrubbed of it
  registryFile,   \* the file pending_registry_file_ names, on disk
  wrapper,        \* wrapper_state_
  attempts,       \* verification_attempts_
  probeFailures,  \* probe_failures_
  missing,        \* missing_probes_
  trackedPid,     \* tracked_game_process_.pid
  trackedHost,    \* tracked_host_process_.pid, NoPid when not resolved
  monitor,        \* monitor_timer_ is armed
  probe,          \* probe_process_ and probe_completion_
  slot,           \* the ProcessRunner
  game,           \* external: the pid of Alicia.exe, NoPid when it is not running
  announced,      \* the last lifecycle callback the user interface got
  absences        \* history: successful probes since Alicia was last sighted

counters == <<attempts, probeFailures, missing>>
tracked  == <<trackedPid, trackedHost>>
session  == <<phase, generation, launch, registryFile, wrapper, counters, tracked, monitor>>
vars     == <<session, probe, slot, game, announced, absences>>

(***************************************************************************)
(* The probe.  `for` says which completion probe_completion_ holds; a      *)
(* lifecycle probe on macOS asks tasklist first (host = FALSE) and ps next. *)
(* The probe timeout timer is armed exactly while a completion is held.    *)
(***************************************************************************)
Purposes == {"preflight", "poll", "detect", "hostpid"}

Probes ==
  {p \in [proc : {"NotRunning", "Running", "Killed"}, for : Purposes \cup {"none"},
           host : BOOLEAN, tasklistOk : BOOLEAN, gen : Nat, expected : ProcessIds,
           sampled : BOOLEAN, seen : ProcessIds] :
     p.proc = "Running" <=> p.for # "none"}

IdleProbe ==
  [proc |-> "NotRunning", for |-> "none", host |-> FALSE, tasklistOk |-> FALSE,
   gen |-> 0, expected |-> NoPid, sampled |-> FALSE, seen |-> NoPid]

KilledProbe == [IdleProbe EXCEPT !.proc = "Killed"]

\* Both start functions refuse while a completion is held or the process is
\* still there, killed or not.
CanStart(p) == p.for = "none" /\ p.proc = "NotRunning"

HostProbe(purpose, expected, g) ==
  [IdleProbe EXCEPT !.proc = "Running", !.for = purpose, !.host = TRUE,
                    !.expected = expected, !.gen = g]

\* start_game_lifecycle_probe(): ps on Linux; on macOS tasklist, or ps when
\* tasklist cannot be started at all.
LifecycleProbes(purpose, g) ==
  {[HostProbe(purpose, NoPid, g) EXCEPT !.host = h] : h \in {HostPrimary, TRUE}}

\* (mutant of Stopped: the completion is not dropped)
StoppedKeepsCompletion(p) ==
  IF p.proc = "NotRunning" THEN IdleProbe ELSE [p EXCEPT !.proc = "Killed"]

\* stop_probe(), the probe part.
Stopped(p) == IF p.proc = "NotRunning" THEN IdleProbe ELSE KilledProbe

\* refresh_game_host_diagnostics(), called with `host` as the known host pid.
Refreshed(p, pid, host, g) ==
  IF host = NoPid /\ CanStart(p) THEN HostProbe("hostpid", pid, g) ELSE p

\* is_busy().
SessionBusy == phase # "Idle" \/ probe.for # "none" \/ probe.proc # "NotRunning"

StageJobs == {"kill", "wait", "query", "import"}
Jobs      == StageJobs \cup {"game", "other"}

ModesOK ==
  /\ phase \in Phases \ {"Finished"}
  /\ launch \in {"none", "held", "scrubbed"}
  /\ registryFile \in {"absent", "pending", "orphaned"}
  /\ wrapper \in {"NotStarted", "Running", "Finished"}
  /\ announced \in {"none", "starting", "started", "exited", "failed", "uncertain"}
  /\ monitor \in BOOLEAN

CountersOK ==
  /\ generation \in Nat
  /\ attempts \in Nat
  /\ probeFailures \in Nat
  /\ missing \in Nat
  /\ absences \in Nat

ProcessesOK ==
  /\ trackedPid \in ProcessIds
  /\ trackedHost \in ProcessIds
  /\ probe \in Probes
  /\ slot \in Slots(Jobs, Nat)
  /\ game \in GamePids \cup {NoPid}

\* The transient phase Finished is never left behind by a handler.
TypeOK == ModesOK /\ CountersOK /\ ProcessesOK

SessionInit ==
  /\ phase = "Idle"
  /\ generation = 0
  /\ launch = "none"
  /\ wrapper = "NotStarted"
  /\ attempts = 0
  /\ probeFailures = 0
  /\ missing = 0
  /\ trackedPid = NoPid
  /\ trackedHost = NoPid
  /\ monitor = FALSE
  /\ probe = IdleProbe
  /\ slot = FreeSlot
  /\ announced = "none"
  /\ absences = 0

Init ==
  /\ SessionInit
  /\ registryFile = "absent"
  /\ game \in GamePids \cup {NoPid}

(***************************************************************************)
(* Ways a session ends.  Parameters are the probe, the slot and the        *)
(* generation as the calling handler left them.                            *)
(***************************************************************************)

\* (mutant of NoRegistryFile: the file is left behind)
RegistryFileLeft == registryFile

\* QFile::remove(pending_registry_file_), when there is one.
NoRegistryFile == IF registryFile = "pending" THEN "absent" ELSE registryFile

\* clear_session_state(), stop_probe() included.
ClearSession(p, g) ==
  /\ generation' = g + 1
  /\ launch' = "none"
  /\ registryFile' = NoRegistryFile
  /\ wrapper' = "NotStarted"
  /\ attempts' = 0
  /\ probeFailures' = 0
  /\ missing' = 0
  /\ trackedPid' = NoPid
  /\ trackedHost' = NoPid
  /\ monitor' = FALSE
  /\ probe' = Stopped(p)

\* fail_game_launch() past its guard.
Abandon(p, s, g) ==
  /\ phase' = "Idle"
  /\ ClearSession(p, g)
  /\ slot' = Terminated(s, "Cancelled")
  /\ announced' = "failed"

FailLaunch(p, s) ==
  /\ phase \notin {"Idle", "Finished", "MonitoringUncertain"}
  /\ IsValidTransition(phase, "Finished")
  /\ Abandon(p, s, generation)

\* stop_monitoring_uncertain(): the runner keeps the wrapper, the phase stays.
StopMonitoringUncertain(p) ==
  /\ phase = "Running"
  /\ IsValidTransition(phase, "MonitoringUncertain")
  /\ phase' = "MonitoringUncertain"
  /\ ClearSession(p, generation)
  /\ announced' = "uncertain"
  /\ UNCHANGED slot

\* finish_game_session().
FinishGameSession(p) ==
  /\ phase = "Running"
  /\ IsValidTransition(phase, "Finished")
  /\ phase' = "Idle"
  /\ ClearSession(p, generation)
  /\ slot' = Terminated(slot, "Cancelled")
  /\ announced' = "exited"

(***************************************************************************)
(* Attaching to an observed game                                           *)
(***************************************************************************)

\* (mutant of Scrubbed: the login stays)
NotScrubbed == launch

\* launch_->user.clear(); launch_->token.clear();
Scrubbed == IF launch = "none" THEN "none" ELSE "scrubbed"

\* attach_to_game_process().
Attach(p, pid, g) ==
  /\ phase \in {"Idle", "Preflight", "Launching"}
  /\ IsValidTransition(phase, "Running")
  /\ phase' = "Running"
  /\ generation' = g
  /\ launch' = Scrubbed
  /\ probeFailures' = 0
  /\ missing' = 0
  /\ trackedPid' = pid
  /\ trackedHost' = IF HostPrimary THEN pid ELSE NoPid
  /\ monitor' = TRUE
  /\ probe' = Refreshed(p, pid, IF HostPrimary THEN pid ELSE NoPid, g)
  /\ announced' = "started"
  /\ UNCHANGED <<registryFile, wrapper, attempts, slot>>

(***************************************************************************)
(* The stages of a launch                                                  *)
(***************************************************************************)

\* run_game(), past its checks of the runtime, the login and the game folder
\* (each of which only reports an error): begin_preflight() and its probe.
RunGame ==
  /\ ~SessionBusy
  /\ ~Busy(slot)
  /\ generation < MaxGeneration
  /\ IsValidTransition(phase, "Preflight")
  /\ \/ /\ phase' = "Preflight"
        /\ generation' = generation + 1
        /\ launch' = "held"
        /\ probe' \in LifecycleProbes("preflight", generation + 1)
        /\ announced' = "starting"
        /\ UNCHANGED <<registryFile, wrapper, counters, tracked, monitor, slot>>
     \/ Abandon(probe, slot, generation + 1)       \* the probe cannot be started
  /\ absences' = 0
  /\ UNCHANGED game

\* The lambda start_wrapper of launch_game_process(): the wrapper is given to the runner, or
\* refused, in the phase that transition(Launching), which resets the counters, has begun.
\* The import that called it has removed its registry file.
StartWrapper(p, s) ==
  \/ /\ ~Busy(s)
     /\ IsValidTransition(phase, "Launching")
     /\ phase' = "Launching"
     /\ slot' = Accepted("game", generation)
     /\ wrapper' = "NotStarted"
     /\ attempts' = 0
     /\ probeFailures' = 0
     /\ missing' = 0
     /\ trackedPid' = NoPid
     /\ trackedHost' = NoPid
     /\ registryFile' = NoRegistryFile
     /\ probe' = p
     /\ UNCHANGED <<generation, launch, monitor, announced>>
  \/ FailLaunch(p, s)

\* What launch_game_process() looks at first: the path of the executable in the prefix, the
\* log hook and the launch arguments; on macOS also the game's own libraries and, for one
\* compatibility profile, the configuration that it patches.
LaunchRefused(p, s)    == FailLaunch(p, s)
MacLaunchRefused(p, s) == ~HostPrimary /\ FailLaunch(p, s)

\* The wrapper is umu-run, which may be missing; there is no Proton on macOS.
LaunchWithProton(p, s) == HostPrimary /\ (FailLaunch(p, s) \/ StartWrapper(p, s))

\* The wrapper is Wine, with the environment and, on macOS, the audio helper, of which a
\* launch is independent.
LaunchWithWine(p, s) == StartWrapper(p, s)

\* launch_pending_game() and launch_game_process().
LaunchPendingGame(p, s) ==
  /\ phase = "FirstLaunchSetup"
  /\ launch # "none"
  /\ \/ LaunchRefused(p, s)
     \/ MacLaunchRefused(p, s)
     \/ LaunchWithProton(p, s)
     \/ LaunchWithWine(p, s)

\* A stage command is handed to the runner in phase `next`, or the launch fails:
\* run_stage_command() was refused or its program is missing.
StartStage(next, job, p, s) ==
  \/ /\ ~Busy(s)
     /\ IsValidTransition(phase, next)
     /\ phase' = next
     /\ slot' = Accepted(job, generation)
     /\ probe' = p
     /\ UNCHANGED <<generation, launch, registryFile, wrapper, counters, tracked,
                    monitor, announced>>
  \/ FailLaunch(p, s)

BeginFirstLaunchSetup(p, s) ==
  /\ launch # "none"
  /\ phase \in {"Preflight", "CleaningPrefix"}
  /\ StartStage("FirstLaunchSetup", "query", p, s)

\* clean_stale_prefix_processes(): `wineserver -k`, skipped when the runtime has
\* no wineserver.
CleanStalePrefixProcesses(p, s) ==
  /\ phase = "Preflight"
  /\ \/ BeginFirstLaunchSetup(p, s)
     \/ StartStage("CleaningPrefix", "kill", p, s)

(***************************************************************************)
(* Completions the runner calls.  run_stage_command() wraps each of them:  *)
(* it is heard only in its own generation and phase.                       *)
(***************************************************************************)

StagePhases(job) ==
  CASE job \in {"kill", "wait"}    -> {"CleaningPrefix"}
    [] job \in {"query", "import"} -> {"FirstLaunchSetup"}
    [] job = "game"                -> WatchedPhases
    [] OTHER                       -> {}

Current == Busy(slot) /\ slot.gen = generation /\ phase \in StagePhases(slot.job)

Completion(job) == Current /\ slot.job = job /\ UNCHANGED <<game, absences>>

Settled == {"Success", "NonZeroExit"}     \* the outcomes of a stage that ran to its end

\* The completion of `wineserver -k`; wait_for_prefix_shutdown().
CleanupDone ==
  /\ Completion("kill")
  /\ \E result \in Results(slot) :
       IF result.outcome \in Settled
       THEN StartStage("CleaningPrefix", "wait", probe, FreeSlot)
       ELSE FailLaunch(probe, FreeSlot)

\* The completion of `wineserver -w`.
ShutdownDone ==
  /\ Completion("wait")
  /\ \E result \in Results(slot) :
       IF result.outcome \in Settled
       THEN BeginFirstLaunchSetup(probe, FreeSlot)
       ELSE FailLaunch(probe, FreeSlot)

\* handle_first_launch_query(): without an import when the settings are there
\* already (never on macOS), else with the file written and the import started.
QueryDone ==
  /\ Completion("query")
  /\ \E result \in Results(slot) :
       \/ /\ result.outcome \in Settled
          /\ HostPrimary
          /\ LaunchPendingGame(probe, FreeSlot)
       \/ /\ result.outcome \in Settled
          /\ slot' = Accepted("import", generation)
          /\ registryFile' = "pending"
          /\ UNCHANGED <<phase, generation, launch, wrapper, counters, tracked, monitor,
                         probe, announced>>
       \/ FailLaunch(probe, FreeSlot)

\* The completion of the registry import.
ImportDone ==
  /\ Completion("import")
  /\ \E result \in Results(slot) :
       IF result.outcome = "Success"
       THEN LaunchPendingGame(probe, FreeSlot)
       ELSE FailLaunch(probe, FreeSlot)

\* handle_wrapper_finished(): the end of the wrapper says nothing about the game.
WrapperFinishes ==
  /\ Completion("game")
  /\ \E result \in Results(slot) :
       IF ~result.started /\ result.outcome = "FailedToStart"
       THEN FailLaunch(probe, FreeSlot)
       ELSE /\ wrapper' = "Finished"
            /\ monitor' = TRUE
            /\ slot' = FreeSlot
            /\ UNCHANGED <<phase, generation, launch, registryFile, counters, tracked,
                           probe, announced>>

\* A command that an earlier session, the setup job or run_command() left.
StaleCommandDone ==
  /\ Busy(slot)
  /\ ~Current
  /\ slot' = FreeSlot
  /\ UNCHANGED <<session, probe, game, announced, absences>>

Settles == CleanupDone \/ ShutdownDone \/ QueryDone \/ ImportDone \/ WrapperFinishes
           \/ StaleCommandDone

\* QProcess::started; for the wrapper, Request::started and then
\* begin_game_verification().
SlotBegins ==
  /\ Busy(slot)
  /\ ~slot.started
  /\ slot' = Began(slot)
  /\ LET verified == slot.job = "game" /\ slot.gen = generation /\ phase = "Launching"
     IN  /\ wrapper' = IF verified THEN "Running" ELSE wrapper
         /\ monitor' = (monitor \/ verified)
  /\ UNCHANGED <<phase, generation, launch, registryFile, counters, tracked, probe, game,
                 announced, absences>>

\* Every command but the wrapper has a timeout.
SlotTimesOut ==
  /\ Busy(slot)
  /\ slot.job # "game"
  /\ slot.forced # "TimedOut"
  /\ slot' = Doomed(slot, "TimedOut")
  /\ UNCHANGED <<session, probe, game, announced, absences>>

\* The setup job or Shell::run_command() gets the runner.
OtherCommandStarts ==
  /\ ~SessionBusy
  /\ ~Busy(slot)
  /\ slot' = Accepted("other", generation)
  /\ UNCHANGED <<session, probe, game, announced, absences>>

(***************************************************************************)
(* What a probe's answer does.  `q` is the probe the answer leaves behind: *)
(* gone, or killed and not gone yet.                                       *)
(***************************************************************************)

Keep(q) == probe' = q /\ UNCHANGED <<session, slot, announced>>

\* (mutant of Rearm: the timer is forgotten)
NoRearm(q) ==
  /\ monitor' = FALSE
  /\ probe' = q
  /\ UNCHANGED <<phase, generation, launch, registryFile, wrapper, missing, tracked, slot,
                 announced>>

\* The monitor timer is started again and nothing else changes.
Rearm(q) ==
  /\ monitor' = TRUE
  /\ probe' = q
  /\ UNCHANGED <<phase, generation, launch, registryFile, wrapper, missing, tracked, slot,
                 announced>>

\* (mutant of PreflightAnswered: a running game is not looked at)
PreflightBlind(q, ok, seen) ==
  IF ~ok THEN FailLaunch(q, slot) ELSE CleanStalePrefixProcesses(q, slot)

PreflightAnswered(q, ok, seen) ==
  IF ~ok               THEN FailLaunch(q, slot)
  ELSE IF seen # NoPid THEN Attach(q, seen, generation)
                       ELSE CleanStalePrefixProcesses(q, slot)

\* on_probe_failure().
OnProbeFailure(q) ==
  LET failures == probeFailures + 1
      exhausted == failures >= ProbeFailureLimit
  IN  \/ exhausted /\ phase = "Launching" /\ FailLaunch(q, slot)
      \/ exhausted /\ failures >= AttachedFailureLimit /\ StopMonitoringUncertain(q)
      \/ /\ ~(exhausted /\ (phase = "Launching" \/ failures >= AttachedFailureLimit))
         /\ probeFailures' = failures
         /\ UNCHANGED attempts
         /\ Rearm(q)

\* on_process_seen() in phase Running.
OnProcessSeen(q, seen) ==
  LET host == IF HostPrimary THEN seen ELSE IF seen = trackedPid THEN trackedHost ELSE NoPid
  IN  /\ probeFailures' = 0
      /\ missing' = 0
      /\ trackedPid' = seen
      /\ trackedHost' = host
      /\ probe' = Refreshed(q, seen, host, generation)
      /\ monitor' = TRUE
      /\ UNCHANGED <<phase, generation, launch, registryFile, wrapper, attempts, slot,
                     announced>>

\* (mutant of Missed: absences are not counted)
MissedUncounted == missing

\* ++missing_probes_.
Missed == missing + 1

\* (mutant of Gone: off by one)
GoneTooSoon(n) == n + 1 >= MissingLimit

Gone(n) == n >= MissingLimit

\* on_process_missing().
OnProcessMissing(q) ==
  IF Gone(Missed)
  THEN FinishGameSession(q)
  ELSE /\ missing' = Missed
       /\ monitor' = TRUE
       /\ probe' = q
       /\ UNCHANGED <<phase, generation, launch, registryFile, wrapper, attempts,
                      probeFailures, tracked, slot, announced>>

\* (mutant of Tried: attempts are not counted)
TriedUncounted == attempts

\* ++verification_attempts_.
Tried == attempts + 1

\* on_still_launching(): the launch is given up on its last attempt, on macOS also
\* when the absolute timeout has passed, and when the wrapper has been gone for
\* the grace period.
OnStillLaunching(q) ==
  \/ /\ Tried >= StartAttemptLimit \/ wrapper = "Finished" \/ ~HostPrimary
     /\ FailLaunch(q, slot)
  \/ /\ Tried < StartAttemptLimit
     /\ attempts' = Tried
     /\ UNCHANGED probeFailures
     /\ Rearm(q)

\* on_probe_result().
PollAnswered(q, ok, seen) ==
  IF ~ok                       THEN OnProbeFailure(q)
  ELSE IF seen # NoPid         THEN IF phase = "Launching" THEN Attach(q, seen, generation)
                                                           ELSE OnProcessSeen(q, seen)
  ELSE IF phase = "Running"    THEN OnProcessMissing(q)
                               ELSE OnStillLaunching(q)

\* The completion of refresh_game_host_diagnostics().
HostPidAnswered(q, seen) ==
  /\ trackedHost' = seen
  /\ probe' = q
  /\ UNCHANGED <<phase, generation, launch, registryFile, wrapper, counters, trackedPid,
                 monitor, slot, announced>>

\* The conditions under which a completion acts at all.
Heeded(ok, seen) ==
  \/ probe.for = "preflight" /\ probe.gen = generation /\ phase = "Preflight"
  \/ probe.for = "poll"      /\ probe.gen = generation /\ phase \in WatchedPhases
  \/ probe.for = "detect"    /\ ok /\ seen # NoPid /\ phase = "Idle" /\ ~Busy(slot)
  \/ probe.for = "hostpid"   /\ ok /\ seen # NoPid /\ phase = "Running"
                             /\ trackedPid = probe.expected

\* History: the successful probes since the last sighting, up to the limit.
Absences(ok, seen) ==
  IF ok /\ seen # NoPid               THEN 0
  ELSE IF ok /\ absences < MissingLimit THEN absences + 1
                                       ELSE absences

\* The completion probe_completion_ was started with gets the final answer.
Deliver(q, ok, seen) ==
  /\ IF ~Heeded(ok, seen) THEN Keep(q)
     ELSE \/ probe.for = "preflight" /\ PreflightAnswered(q, ok, seen)
          \/ probe.for = "poll"      /\ PollAnswered(q, ok, seen)
          \/ probe.for = "detect"    /\ Attach(q, seen, generation + 1)
          \/ probe.for = "hostpid"   /\ HostPidAnswered(q, seen)
  /\ absences' = IF probe.for = "hostpid" THEN absences ELSE Absences(ok, seen)

\* probe_completion_ is called; the first stage on macOS falls back to ps unless
\* tasklist saw the game or ps cannot be started.
Answer(q, ok, seen) ==
  /\ \/ probe.host          /\ Deliver(q, ok \/ probe.tasklistOk, seen)
     \/ ~probe.host /\ seen # NoPid /\ Deliver(q, TRUE, seen)
     \/ /\ ~probe.host /\ seen = NoPid /\ CanStart(q)
        /\ Keep([HostProbe(probe.for, probe.expected, probe.gen) EXCEPT !.tasklistOk = ok])
        /\ UNCHANGED absences
     \/ ~probe.host /\ seen = NoPid /\ ~CanStart(q) /\ Deliver(q, ok, NoPid)
  /\ UNCHANGED game

(***************************************************************************)
(* Slots of the probe process and of the two timers                        *)
(***************************************************************************)

\* The listing is taken now; it reaches the launcher when the process ends.
ProbeSamples ==
  /\ probe.proc = "Running"
  /\ ~probe.sampled
  /\ probe' = [probe EXCEPT !.sampled = TRUE,
                            !.seen = IF probe.host THEN HostPid(game) ELSE game]
  /\ UNCHANGED <<session, slot, game, announced, absences>>

\* finished(): a process that failed may have printed nothing.
ProbeExits ==
  /\ probe.proc = "Running"
  /\ probe.sampled
  /\ \E ok \in BOOLEAN, seen \in {probe.seen, NoPid} :
       /\ ok => seen = probe.seen
       /\ Answer(IdleProbe, ok, seen)

\* errorOccurred(FailedToStart).
ProbeFailsToStart ==
  /\ probe.proc = "Running"
  /\ ~probe.sampled
  /\ Answer(IdleProbe, FALSE, NoPid)

\* The process is killed, and is still there when the completion is called.
ProbeTimeout ==
  /\ probe.for # "none"
  /\ Answer(KilledProbe, FALSE, NoPid)

\* finished() or errorOccurred() with no completion held.
KilledProbeGone ==
  /\ probe.proc = "Killed"
  /\ probe' = IdleProbe
  /\ UNCHANGED <<session, slot, game, announced, absences>>

\* poll_game_process(): while another probe is active the timer is merely started
\* again.
PollGame ==
  /\ monitor
  /\ phase \in WatchedPhases
  /\ CanStart(probe)
  /\ monitor' = FALSE
  /\ probe' \in LifecycleProbes("poll", generation)
  /\ UNCHANGED <<phase, generation, launch, registryFile, wrapper, counters, tracked,
                 slot, game, announced, absences>>

(***************************************************************************)
(* The user, the operating system and the game                             *)
(***************************************************************************)

\* detect_existing_game(), called once after the window is shown.
DetectExistingGame ==
  /\ phase = "Idle"
  /\ ~Busy(slot)
  /\ CanStart(probe)
  /\ generation < MaxGeneration
  /\ probe' = HostProbe("detect", NoPid, generation)
  /\ UNCHANGED <<session, slot, game, announced, absences>>

\* Shell::cancel_current(): the session if it is busy, else the runner.
Cancel ==
  /\ UNCHANGED <<game, absences>>
  /\ \/ /\ phase = "Idle" /\ SessionBusy
        /\ probe' = Stopped(probe)
        /\ monitor' = FALSE
        /\ UNCHANGED <<phase, generation, launch, registryFile, wrapper, counters, tracked,
                       slot, announced>>
     \/ /\ phase \in StartingPhases
        /\ FailLaunch(probe, slot)
     \/ /\ ~SessionBusy /\ Busy(slot)
        /\ slot' = Doomed(slot, "Cancelled")
        /\ UNCHANGED <<session, probe, announced>>

GameAppears ==
  /\ game = NoPid
  /\ game' \in GamePids
  /\ UNCHANGED <<session, probe, slot, announced, absences>>

GameExits ==
  /\ game # NoPid
  /\ game' = NoPid
  /\ UNCHANGED <<session, probe, slot, announced, absences>>

\* The launcher ends at any point and is started again: the game lives on, and so
\* does a registry file that was waiting for its import.
Restart ==
  /\ phase' = "Idle"
  /\ generation' = 0
  /\ launch' = "none"
  /\ registryFile' = IF registryFile = "pending" THEN "orphaned" ELSE registryFile
  /\ wrapper' = "NotStarted"
  /\ attempts' = 0
  /\ probeFailures' = 0
  /\ missing' = 0
  /\ trackedPid' = NoPid
  /\ trackedHost' = NoPid
  /\ monitor' = FALSE
  /\ probe' = IdleProbe
  /\ slot' = FreeSlot
  /\ announced' = "none"
  /\ absences' = 0
  /\ UNCHANGED game

Next ==
  \/ RunGame
  \/ CleanupDone
  \/ ShutdownDone
  \/ QueryDone
  \/ ImportDone
  \/ WrapperFinishes
  \/ StaleCommandDone
  \/ SlotBegins
  \/ SlotTimesOut
  \/ OtherCommandStarts
  \/ ProbeSamples
  \/ ProbeExits
  \/ ProbeFailsToStart
  \/ ProbeTimeout
  \/ KilledProbeGone
  \/ PollGame
  \/ DetectExistingGame
  \/ Cancel
  \/ GameAppears
  \/ GameExits
  \/ Restart

(***************************************************************************)
(* Timers fire, a killed probe goes away, and the runner keeps the promise *)
(* of CommandSlot: a start is settled, a command with a timeout and one    *)
(* that was cancelled are answered.  Nothing is assumed of the wrapper,    *)
(* of the game, of the user, or of a probe that its timeout does not end.  *)
(***************************************************************************)
Fairness ==
  /\ WF_vars(PollGame)
  /\ WF_vars(ProbeTimeout)
  /\ WF_vars(KilledProbeGone)
  /\ WF_vars(~slot.started /\ (SlotBegins \/ Settles))
  /\ WF_vars((slot.job # "game" \/ slot.forced # Unforced) /\ Settles)

Spec == Init /\ [][Next]_vars /\ Fairness

(***************************************************************************)
(* Properties                                                              *)
(***************************************************************************)

\* In every phase that is not at rest something is on its way that will call the
\* session again: no failed start, refused poll or late answer leaves a launch
\* that only restarting the launcher ends.
NeverStranded ==
  /\ phase = "Preflight" => probe.for = "preflight"
  /\ phase = "CleaningPrefix" => Current /\ slot.job \in {"kill", "wait"}
  /\ phase = "FirstLaunchSetup" => Current /\ slot.job \in {"query", "import"}
  /\ phase = "Launching" =>
       \/ monitor
       \/ probe.for = "poll"
       \/ Current /\ slot.job = "game" /\ ~slot.started
  /\ phase = "Running" => monitor \/ probe.for = "poll"

\* A probe's answer never reaches a session other than the one that asked: at the
\* end of a session stop_probe() drops its completion, so the generation guards of
\* the completions are never what saves the next session.
ProbeBelongsToSession ==
  /\ probe.for = "preflight" => probe.gen = generation /\ phase = "Preflight"
  /\ probe.for = "poll"      => probe.gen = generation /\ phase \in WatchedPhases
  /\ probe.for = "detect"    => phase = "Idle"
  /\ probe.for = "hostpid"   => phase = "Running"

\* A command that no session waits for any more is on its way out, so that it
\* cannot hold the runner for ever; only the wrapper of a game that the launcher
\* has lost sight of is left alone.
LeftCommandsDoomed ==
  Busy(slot) /\ slot.job # "other" /\ ~Current
    => slot.forced # Unforced \/ phase = "MonitoringUncertain"

\* The login token is kept only while a launch still needs it.
TokenScrubbed == launch = "held" => phase \in StartingPhases

\* The registry file is on disk only while its import runs: every way out of the
\* import, of the launch and of the session removes it.
RegistryFileOwned ==
  registryFile = "pending" => phase = "FirstLaunchSetup" /\ Current /\ slot.job = "import"

\* What a session leaves behind harms no later one: its probe answers nobody else, its command
\* is on its way out, and the secrets it was given are gone (stop_probe, clear_session_state
\* and the ways out of every stage of a launch).
NothingOutlivesSession ==
  ProbeBelongsToSession /\ LeftCommandsDoomed /\ TokenScrubbed /\ RegistryFileOwned

\* Prefix processes are killed only when a probe of this very launch has found no
\* game ("This safety check prevents terminating an active game session").
CleanOnlyAfterAbsence ==
  [][slot.job # "kill" /\ slot'.job = "kill" => absences' > 0]_vars

Reports(callback) == announced # callback /\ announced' = callback
CancelsCommand    == slot.forced # "Cancelled" /\ slot'.forced = "Cancelled"

\* A game the launcher has confirmed is reported gone, and its wrapper cancelled,
\* only when k_missing_confirmation_limit probes in a row have not found it,
\* however failed probes, late samples and process changes are interleaved.
ExitConfirmed ==
  [][phase = "Running" /\ (Reports("exited") \/ CancelsCommand)
       => absences' >= MissingLimit]_vars

\* What is irrevocable is done on evidence of this launch only: processes are killed, an exit
\* is reported and the wrapper cancelled after absences that were observed
\* (clean_stale_prefix_processes, on_process_missing).
ActsOnAbsence == CleanOnlyAfterAbsence /\ ExitConfirmed

\* A launch ends: in a running game or back in Idle.
LaunchResolves == (phase \in StartingPhases) ~> (phase \notin StartingPhases)

\* The end of the game is noticed.
ExitNoticed ==
  (phase = "Running" /\ game = NoPid) ~> (phase # "Running" \/ game # NoPid)

\* Nobody waits for ever: not the user for the end of a launch, not the launcher for the end
\* of the game, through failed, refused and timed out probes (poll_game_process,
\* on_probe_failure, the two stages of the probe on macOS).
NobodyHangs == LaunchResolves /\ ExitNoticed

\* What GameLifecycle sees of the session.
Stage ==
  CASE phase = "Idle"                -> "idle"
    [] phase = "Running"             -> "running"
    [] phase = "MonitoringUncertain" -> "uncertain"
    [] OTHER                         -> "starting"

SessionCommand ==
  IF slot.job \in {NoJob, "other"} THEN "none"
  ELSE IF slot.forced = Unforced   THEN "live"
                                   ELSE "doomed"

\* The session implements the lifecycle that the user interface is written against.
Lifecycle == INSTANCE GameLifecycle WITH
  stage <- Stage, notice <- announced, command <- SessionCommand
LifecycleSpec == Lifecycle!Spec
=============================================================================
