----------------------------- MODULE PrefixSetup -----------------------------
(***************************************************************************)
(* src/runtime/PrefixSetupJob.cpp: creating the Wine (or Proton) prefix    *)
(* and its components, and switching DXVK on in a prefix that is ready.    *)
(* A job is a queue of commands run one at a time through the runner; when *)
(* the queue is empty the prefix is inspected, again and again if need be, *)
(* and the marker file is written that lets InstallState take the prefix   *)
(* for ready.  The marker is removed before the first command that may     *)
(* leave the prefix in pieces.  The prefix, the marker and the DXVK        *)
(* setting survive the launcher.                                           *)
(***************************************************************************)
EXTENDS Command, Naturals, Sequences

CONSTANTS
  Runtimes,            \* "wine" and "proton" on Linux, "macos" for Wine on macOS
  ValidationRetries,   \* k_prefix_validation_retries
  MaxGeneration        \* bound on generation_, which every run raises twice

ASSUME RuntimesAssumption == Runtimes \subseteq {"wine", "proton", "macos"}
ASSUME RetriesAssumption == ValidationRetries \in Nat
ASSUME BoundAssumption   == MaxGeneration \in Nat

(***************************************************************************)
(* The commands, with the flags their SetupCommand carries.                *)
(***************************************************************************)
Commands         == {"version", "wineboot", "registry", "umu", "components", "optionalDxvk", "dxvk"}
Inspects         == {"wineboot", "umu"}               \* inspect_components_after
InvalidatesDxvk  == {"wineboot", "umu", "registry", "dxvk"}   \* (mutant of Invalidates)
Invalidates      == {"wineboot", "umu", "registry"}   \* invalidates_marker
OptionalCommands == {"optionalDxvk"}                  \* optional_failure
SucceedsIfReady  == {"umu"}                           \* succeeds_if_prefix_ready

\* What an inspection of the prefix can find: a valid structure, the required
\* components, DXVK's files and overrides.
Parts == {"structure", "components", "dxvk"}

Kinds   == {"None", "Setup", "Dxvk"}
Answers == {"none", "ok", "failed"}

VARIABLES
  runtime,      \* the kind of the selected runtime
  job,          \* active_, kind_, queue_, index_, generation_, marker_invalidated_
  retries,      \* the single-shot timers of finalize() that have not fired
  slot,         \* the ProcessRunner
  useDxvk,      \* Config::use_dxvk
  prefix,       \* the parts an inspection finds
  late,         \* external: the parts Wine has yet to write to the registry files
  marker,       \* the marker file: none, or of the selected runtime or another one
  reported,     \* the last wine_setup_finished since the user asked for something
  cancelled     \* history: the command of the active job that cancel() was last called on

disk == <<prefix, late>>
vars == <<runtime, job, retries, slot, useDxvk, disk, marker, reported, cancelled>>

SetupQueue ==
  CASE runtime = "wine"   -> <<"version", "wineboot">>
    [] runtime = "proton" -> <<"umu">>
    [] runtime = "macos"  -> <<"version", "wineboot", "registry", "registry", "registry">>

\* component_exists(): a part is looked for where the architecture of the prefix puts it.
Found(part) == part \in prefix

\* prefix_structure_valid() and dxvk_installed(): the files, and the overrides in the registry.
StructureValid == Found("structure")
DxvkInstalled  == Found("dxvk")

\* required_components_present(): macOS asks for nothing but a valid structure.
RequiredPart == IF runtime = "macos" THEN "structure" ELSE "components"

Idle(generation) ==
  [active |-> FALSE, kind |-> "None", queue |-> <<>>, index |-> 0,
   generation |-> generation, invalidated |-> FALSE]

Init ==
  /\ runtime \in Runtimes
  /\ job = Idle(0)
  /\ retries = {}
  /\ slot = FreeSlot
  /\ useDxvk \in BOOLEAN
  /\ prefix = {} /\ late = {}
  /\ marker = "none"
  /\ reported = "none"
  /\ cancelled = NoJob

(***************************************************************************)
(* The ways a job ends.  `j` is the job at the point of the call and       *)
(* `dxvk` the DXVK setting.                                                *)
(***************************************************************************)

\* reset_state()
ResetState(j) ==
  /\ job' = Idle(j.generation + 1)
  /\ cancelled' = NoJob

\* finish_optional_dxvk_failure(): wine_setup_finished(true).
FinishOptionalDxvkFailure(j) ==
  /\ ResetState(j)
  /\ useDxvk' = FALSE
  /\ reported' = "ok"

\* finish_failure()
FinishFailure(j, dxvk) ==
  \/ /\ j.kind = "Dxvk"
     /\ FinishOptionalDxvkFailure(j)
  \/ /\ j.kind # "Dxvk"
     /\ ResetState(j)
     /\ useDxvk' = dxvk
     /\ reported' = "failed"

(***************************************************************************)
(* finalize(), with `left` attempts remaining and the timers in `others`.  *)
(***************************************************************************)

\* (mutant of DxvkSettled: DXVK that cannot be seen stays switched on)
DxvkTrusted(dxvk) == dxvk

\* What finalize() leaves of the setting once no attempt remains.
DxvkSettled(dxvk) == dxvk /\ (runtime = "proton" \/ DxvkInstalled)

\* required_components_present()
RequiredPresent == Found(RequiredPart)

\* Not there yet: look again in half a second.
LookAgain(j, left, dxvk, others) ==
  /\ left > 0
  /\ DxvkSettled(dxvk) # dxvk \/ ~RequiredPresent
  /\ retries' = others \cup {[gen |-> j.generation, left |-> left - 1, kind |-> j.kind]}
  /\ job' = [j EXCEPT !.queue = <<>>, !.index = 0]
  /\ useDxvk' = dxvk
  /\ UNCHANGED <<marker, reported, cancelled>>

\* Without the DXVK it was about, without the components, or when
\* write_marker() fails.
GiveUp(j, left, dxvk, others) ==
  /\ left = 0 \/ (DxvkSettled(dxvk) = dxvk /\ RequiredPresent)
  /\ FinishFailure(j, DxvkSettled(dxvk))
  /\ retries' = others
  /\ UNCHANGED marker

MarkReady(j, left, dxvk, others) ==
  /\ RequiredPresent
  /\ DxvkSettled(dxvk) = dxvk \/ (left = 0 /\ j.kind # "Dxvk")
  /\ ResetState(j)
  /\ marker' = "current"
  /\ useDxvk' = DxvkSettled(dxvk)
  /\ reported' = "ok"
  /\ retries' = others

Finalize(j, left, dxvk, others) ==
  \/ LookAgain(j, left, dxvk, others)
  \/ GiveUp(j, left, dxvk, others)
  \/ MarkReady(j, left, dxvk, others)

(***************************************************************************)
(* advance() from the command at j.index.                                  *)
(***************************************************************************)

\* The optional commands from j.index up to `next` could not be started: each is
\* skipped, and DXVK is switched off.
SkippedTo(j, next) ==
  \A i \in j.index .. next - 1 : j.queue[i] \in OptionalCommands

DxvkAfterSkips(j, next, dxvk) == dxvk /\ next = j.index

MustInvalidate(j) == j.queue[j.index] \in Invalidates /\ ~j.invalidated

\* remove_marker(), which may fail when there is a marker.
RemoveMarkerFails(j) == MustInvalidate(j) /\ marker # "none"

\* (mutant of MarkerAt: the marker is left where it is)
MarkerKept(j) == marker

MarkerAt(j) == IF MustInvalidate(j) THEN "none" ELSE marker

StartCommand(j, dxvk) ==
  LET command == j.queue[j.index] IN
  /\ useDxvk' = dxvk
  /\ marker' = MarkerAt(j)
  /\ job' = [j EXCEPT !.invalidated = @ \/ command \in Invalidates]
  /\ slot' = Accepted(command, j.generation)
  /\ UNCHANGED <<retries, reported, cancelled>>

\* The runner refuses a command that cannot be skipped, or the marker is there to
\* stay.
CannotStart(j, dxvk) ==
  /\ FinishFailure(j, dxvk)
  /\ \/ /\ RemoveMarkerFails(j)
        /\ UNCHANGED marker
     \/ /\ j.queue[j.index] \notin OptionalCommands
        /\ marker' = MarkerAt(j)
  /\ slot' = FreeSlot
  /\ UNCHANGED retries

Advance(j, dxvk) ==
  \E next \in j.index .. Len(j.queue) + 1 :
    LET at   == [j EXCEPT !.index = next]
        left == DxvkAfterSkips(j, next, dxvk)
    IN  /\ SkippedTo(j, next)
        /\ IF next > Len(j.queue)
           THEN Finalize(at, ValidationRetries, left, retries) /\ slot' = FreeSlot
           ELSE StartCommand(at, left) \/ CannotStart(at, left)

(***************************************************************************)
(* The completion of a command.                                            *)
(***************************************************************************)

\* queue_missing_components(): what is to be installed after the command at
\* j.index, and what has become of the DXVK setting.  The installer (umu-run or
\* winetricks) may be unavailable: a plan without DXVK if that is all it was for.
WantsDxvk(dxvk) == runtime = "wine" /\ dxvk /\ ~DxvkInstalled
WantsComponents == runtime # "macos" /\ ~RequiredPresent

Plan(dxvk) ==
  (IF WantsComponents THEN <<"components">> ELSE <<>>)
    \o (IF WantsDxvk(dxvk) THEN <<"optionalDxvk">> ELSE <<>>)

WithPlan(j, plan) ==
  [j EXCEPT !.queue = SubSeq(@, 1, j.index) \o plan \o SubSeq(@, j.index + 1, Len(@))]

NextCommand(j) == [j EXCEPT !.index = @ + 1]

Continue(j, dxvk) ==
  \/ /\ j.queue[j.index] \notin Inspects
     /\ Advance(NextCommand(j), dxvk)
  \/ /\ j.queue[j.index] \in Inspects
     /\ \/ Advance(NextCommand(WithPlan(j, Plan(dxvk))), dxvk)
        \/ /\ WantsDxvk(dxvk) /\ ~WantsComponents
           /\ Advance(NextCommand(j), FALSE)
        \/ /\ WantsComponents
           /\ FinishFailure(j, dxvk)
           /\ slot' = FreeSlot
           /\ UNCHANGED <<retries, marker>>

\* A failed command that the job does not have to take for a failure.
ReadyAllTheSame == slot.job \in SucceedsIfReady /\ StructureValid

\* The completion belongs to the run that is active.
Current == job.active /\ slot.gen = job.generation

\* The handler of a completion, for a command of this job.
OnCompletion(ok) ==
  \/ /\ ok \/ ReadyAllTheSame
     /\ Continue(job, useDxvk)
  \/ /\ ~ok /\ ~ReadyAllTheSame
     /\ slot.job \in OptionalCommands
     /\ Advance(NextCommand(job), FALSE)
  \/ /\ ~ok /\ ~ReadyAllTheSame
     /\ slot.job \notin OptionalCommands
     /\ FinishFailure(job, useDxvk)
     /\ slot' = FreeSlot
     /\ UNCHANGED <<retries, marker>>

CommandDone ==
  /\ slot.job \in Commands
  /\ UNCHANGED disk
  /\ \/ /\ Current
        /\ \E result \in Results(slot) : OnCompletion(result.outcome = "Success")
     \/ /\ ~Current
        /\ slot' = FreeSlot
        /\ UNCHANGED <<job, retries, useDxvk, marker, reported, cancelled>>
  /\ UNCHANGED runtime

SlotBegins ==
  /\ Busy(slot)
  /\ ~slot.started
  /\ slot' = Began(slot)
  /\ UNCHANGED <<job, retries, useDxvk, disk, marker, reported, cancelled>>
  /\ UNCHANGED runtime

SlotTimesOut ==
  /\ Busy(slot)
  /\ slot.started /\ slot.forced = Unforced
  /\ slot' = Doomed(slot, "TimedOut")
  /\ UNCHANGED <<job, retries, useDxvk, disk, marker, reported, cancelled>>
  /\ UNCHANGED runtime

\* (mutant of RetryIsCurrent: the generation is captured before the run raises it)
RetryOfLastRun(retry) == job.active /\ retry.gen + 1 = job.generation

\* The guard of the single-shot timer of finalize().
RetryIsCurrent(retry) == job.active /\ retry.gen = job.generation

Retry ==
  \E retry \in retries :
    LET others == retries \ {retry} IN
    /\ UNCHANGED <<runtime, slot, disk>>
    /\ \/ /\ RetryIsCurrent(retry)
          /\ Finalize([job EXCEPT !.kind = retry.kind], retry.left, useDxvk, others)
       \/ /\ ~RetryIsCurrent(retry)
          /\ retries' = others
          /\ UNCHANGED <<job, useDxvk, marker, reported, cancelled>>

(***************************************************************************)
(* The user, whom Shell refuses while a job or anything else is under way. *)
(***************************************************************************)

CanRun == job.generation + 2 <= MaxGeneration

\* Shell::is_busy()
ShellBusy == job.active \/ Busy(slot)

\* setup_entry_is_busy(): wine_setup_finished(false), and nothing else.
Rejected(dxvk) ==
  /\ ShellBusy
  /\ useDxvk' = dxvk
  /\ reported' = "failed"
  /\ UNCHANGED <<job, retries, slot, disk, marker, cancelled>>

\* run_setup()
Prepared(k, commands) ==
  [active |-> TRUE, kind |-> k, queue |-> commands, index |-> 1,
   generation |-> job.generation + 1, invalidated |-> FALSE]

\* setup(): setup_wine() or setup_proton().  The runtime may be missing, or the
\* prefix directory may not be creatable.
Setup ==
  /\ \/ Rejected(useDxvk)
     \/ /\ ~ShellBusy /\ CanRun
        /\ \/ /\ reported' = "failed"
              /\ UNCHANGED <<job, retries, slot, useDxvk, disk, marker, cancelled>>
           \/ /\ Advance(Prepared("Setup", SetupQueue), useDxvk)
              /\ UNCHANGED disk
  /\ UNCHANGED runtime

\* The switch in the settings, and sync_dxvk(): a job when Wine has a ready prefix
\* without DXVK and winetricks is there.
DxvkApplies == ~useDxvk /\ runtime = "wine"
DxvkPrefixReady == marker = "current" /\ RequiredPresent

ToggleDxvk ==
  /\ runtime # "macos"
  /\ \/ Rejected(~useDxvk)
     \/ /\ ~ShellBusy
        /\ ~DxvkApplies \/ (DxvkPrefixReady /\ DxvkInstalled)
        /\ useDxvk' = ~useDxvk
        /\ reported' = "none"
        /\ UNCHANGED <<job, retries, slot, disk, marker, cancelled>>
     \/ \* the prefix is not ready, or winetricks is missing
        /\ ~ShellBusy /\ DxvkApplies /\ CanRun
        /\ DxvkPrefixReady => ~DxvkInstalled
        /\ FinishOptionalDxvkFailure([job EXCEPT !.active = TRUE, !.kind = "Dxvk"])
        /\ UNCHANGED <<retries, slot, disk, marker>>
     \/ /\ ~ShellBusy /\ DxvkApplies /\ CanRun
        /\ DxvkPrefixReady /\ ~DxvkInstalled
        /\ Advance(Prepared("Dxvk", <<"dxvk">>), TRUE)
        /\ UNCHANGED disk
  /\ UNCHANGED runtime

\* cancel(): the command that runs is cancelled; without one the job ends here.
Cancel ==
  /\ job.active
  /\ \/ /\ Busy(slot)
        /\ slot' = Terminated(slot, "Cancelled")
        /\ cancelled' = slot.job
        /\ UNCHANGED <<job, retries, useDxvk, disk, marker, reported>>
     \/ /\ ~Busy(slot)
        /\ FinishFailure(job, useDxvk)
        /\ UNCHANGED <<retries, slot, disk, marker>>
  /\ UNCHANGED runtime

\* Another runtime of the kind is selected in the settings, or the first one again: the
\* marker is valid for the one whose path it names.
SelectRuntime ==
  /\ ~job.active
  /\ marker # "none"
  /\ marker' \in {"current", "other"}
  /\ UNCHANGED <<job, retries, slot, useDxvk, disk, reported, cancelled>>
  /\ UNCHANGED runtime

\* A game session, or Shell::run_command(), has the runner.
OtherCommand ==
  /\ UNCHANGED <<job, retries, useDxvk, disk, marker, reported, cancelled>>
  /\ \/ /\ ~job.active /\ ~Busy(slot)
        /\ slot' = Accepted("other", 0)
     \/ /\ slot.job = "other"
        /\ slot' = FreeSlot
  /\ UNCHANGED runtime

(***************************************************************************)
(* The prefix.  A command that invalidates the marker may take the prefix  *)
(* through any state; the installers add parts, at once or when Wine       *)
(* writes its registry files.                                              *)
(***************************************************************************)
Installs(command) ==
  CASE command = "components"                -> {"components"}
    [] command \in {"optionalDxvk", "dxvk"}  -> {"dxvk"}
    [] OTHER                                 -> {}

CommandWorks ==
  /\ slot.started
  /\ \/ /\ slot.job \in Invalidates
        /\ prefix' \in SUBSET Parts
        /\ late' \in SUBSET (Parts \ prefix')
     \/ /\ Installs(slot.job) # {}
        /\ \/ prefix' = prefix \cup Installs(slot.job) /\ late' = late
           \/ prefix' = prefix /\ late' = late \cup (Installs(slot.job) \ prefix)
  /\ UNCHANGED <<job, retries, slot, useDxvk, marker, reported, cancelled>>
  /\ UNCHANGED runtime

RegistryWritten ==
  /\ late # {}
  /\ prefix' = prefix \cup late
  /\ late' = {}
  /\ UNCHANGED <<job, retries, slot, useDxvk, marker, reported, cancelled>>
  /\ UNCHANGED runtime

\* The launcher ends at any point; its command ends with it.
Restart ==
  /\ job' = Idle(0)
  /\ retries' = {}
  /\ slot' = FreeSlot
  /\ reported' = "none"
  /\ cancelled' = NoJob
  /\ UNCHANGED <<useDxvk, disk, marker>>
  /\ UNCHANGED runtime

Next ==
  \/ CommandDone
  \/ SlotBegins
  \/ SlotTimesOut
  \/ Retry
  \/ Setup
  \/ ToggleDxvk
  \/ Cancel
  \/ SelectRuntime
  \/ OtherCommand
  \/ CommandWorks
  \/ RegistryWritten
  \/ Restart

(***************************************************************************)
(* Timers fire and the runner keeps CommandSlot's promise: every command   *)
(* of a job has a timeout.                                                 *)
(***************************************************************************)
Fairness ==
  /\ WF_vars(Retry)
  /\ WF_vars(~slot.started /\ (SlotBegins \/ CommandDone))
  /\ WF_vars(CommandDone)

Spec == Init /\ [][Next]_vars /\ Fairness

(***************************************************************************)
(* Properties                                                              *)
(***************************************************************************)
TypeOK ==
  /\ runtime \in Runtimes
  /\ job \in [active : BOOLEAN, kind : Kinds, queue : Seq(Commands), index : Nat,
              generation : Nat, invalidated : BOOLEAN]
  /\ retries \in SUBSET [gen : Nat, left : Nat, kind : Kinds]
  /\ slot \in Slots(Commands \cup {"other"}, Nat)
  /\ useDxvk \in BOOLEAN
  /\ prefix \in SUBSET Parts /\ late \in SUBSET Parts
  /\ marker \in {"none", "current", "other"}
  /\ reported \in Answers
  /\ cancelled \in Commands \cup {NoJob}

\* An active job waits for exactly one thing: the command it has given to the
\* runner, or the timer of its next validation.  Nothing an earlier run has left
\* behind counts, and no command of a job outlives it.
OneEventPending ==
  LET mine == {retry \in retries : retry.gen = job.generation} IN
  /\ slot.job \in Commands => Current
  /\ job.active /\ Busy(slot) => slot.job = job.queue[job.index] /\ mine = {}
  /\ job.active /\ ~Busy(slot) => \E retry \in retries : mine = {retry}

\* Whoever finds a marker finds the required components, whatever was cancelled, failed, timed
\* out or was killed since it was written; and there is none while a command runs that may
\* leave the prefix in pieces, so that a launcher that dies in the middle of it finds a prefix
\* to set up (write_ready_marker, invalidate_marker, finalize).
MarkerTruth ==
  /\ marker # "none" => RequiredPresent
  /\ slot.job \in Invalidates => marker = "none"

\* What a job is and what the disk says of it fit together, whatever ended it or its launcher
\* (run_setup, advance, finalize, reset_state).
JobAndMarkerAgree == TypeOK /\ OneEventPending /\ MarkerTruth

Reports(answer) == reported # answer /\ reported' = answer

\* A setup (not a mere DXVK job) reports success only with the marker written, and leaves
\* DXVK on only where it is installed or Proton brings it; one that was cancelled does not
\* report success, but for the two cases in which cancel() stops a command and not the
\* setup: umu-run in a prefix that is there, and DXVK, which is optional.
SetupSuccessEarned ==
  [][job.kind = "Setup" /\ Reports("ok")
       => /\ marker' = "current"
          /\ useDxvk' => runtime = "proton" \/ "dxvk" \in prefix'
          /\ cancelled \in {NoJob} \cup SucceedsIfReady \cup OptionalCommands]_vars

\* A DXVK job never costs a ready prefix its marker, from its first command on.
DxvkKeepsMarker ==
  [][job'.kind = "Dxvk" /\ marker = "current" => marker' = "current"]_vars

\* Every job ends: each validation has a successor or an end, and no failure, refusal
\* or cancel leaves `active_` set with nothing on its way.
SetupResolves == job.active ~> ~job.active
=============================================================================
