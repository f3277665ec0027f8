# A verification project for the Story of Alicia launcher

The launcher (`src/`, C++/Qt with a Swift network part) installs, updates and
starts the game Alicia on Linux and macOS, through Wine or Proton.  This
directory holds TLA+ models of the parts of it that keep state and are hard to
test, the TLC configurations that check them on small instances, and theorems
about them that TLAPS has checked for every instance.

Every definition of a model is translated from the source; `PROJECT.json` names
the lines ("map"), the runs, the mutants (a plausible bug for each property,
which the property must catch), the hazards with the properties that cover
them, and the theorems.

Contents: [inventory](#inventory), [the modules](#the-modules),
[what the runs check](#what-the-runs-check), [bounds](#bounds),
[fairness](#fairness), [what is proved](#what-is-proved),
[known divergences](#known-divergences), [not modelled](#not-modelled), [plan](#plan).

## Inventory

Two worlds meet in the launcher.  Everything in C++ runs on one Qt event loop:
a handler is never interrupted by another one, a Qt signal calls its slots
before `emit` returns, and what comes from outside (a process that exits, a
timer, a file change, a callback of a Swift thread) is queued to the loop.  The
Swift part (`network/*.swift`) runs tasks on its own threads and reaches the
loop only through queued calls.

| component (source) | state | operations | correct when |
|---|---|---|---|
| process runner (`runtime/ProcessRunner.cpp`) | the running request, its completion, a timeout timer, a force-kill timer with the process id it is aimed at | start, terminate, the process' and the timers' signals | one command at a time; each is answered once, with the right outcome; a kill never hits another process |
| game session (`runtime/GameSession.cpp`) | phase, generation, login token, registry file, counters of attempts, failures and absences, tracked pids, monitor timer, probe | run, stages of a launch, probe results and timeouts, polls, wrapper exit, cancel, destructor | a launch ends in a game or in Idle; a game is reported gone only when it is, and then it is; nothing secret is left behind |
| prefix setup (`runtime/PrefixSetupJob.cpp`, `PrefixInspector.cpp`) | queue of commands, index, generation, retry timers; on disk the prefix, the marker, the DXVK setting | setup, DXVK switch, command completions, finalization and its retries, cancel | the marker never stands over a broken prefix; a job ends; success is earned |
| shell (`runtime/Shell.cpp`) | the one runner that session and setup share | busy check, dispatch of cancel | neither client gets the other's answer |
| setup windows (`ui/WineInstall.cpp`, `PrefixProgress.cpp`) | open or not, what the progress says, its closing timer | start, cancel with a question, the answers of the shell | what is shown, and cancelled, is the setup that runs |
| game updates (`network/CourierUpdate.swift` and its helpers) | on disk: installation, staging, resume file, journal, backup; in memory the plan, the tasks and their requests | check, update, repair, recovery of an interrupted update, download of each file | the installation changes as a whole or not at all, whatever dies when |
| Courier C interface and bridge (`network/Courier.swift`, `CourierABI.swift`, `Courier.cpp`) | ids of operations, the set the user interface waits for, queued callbacks | begin, cancel, report | each operation has one last report; a late one reaches nobody |
| install state (`ui/InstallState.cpp`) | stage, check in progress, flags of setup, game and transfer, key of the last check | probe, the steps of the first start, checks before a launch, reports of transfers | the stage says what goes on and leads on; Ready means verified |
| main window (`app/MainWindow*.cpp`) | launch that waits, pending repairs, overlays, suspension of the watcher, chosen game | buttons, tray, stage changes, factory reset, the launcher's own update | the game starts only after its checks |
| dialogs (`ui/DownloadProgress.cpp`, `RepairFiles.cpp`, `GameInstall.cpp`) | the operation they own or watch | start, cancel, retry, reports | they show the operation that runs, and nothing else |
| rules and views of the first start (`ui/RulesAgreement.cpp`, `RulesDocumentStore.cpp`, `PrerequisitesIntro.cpp`, `WineSelectMenu.cpp`, `AliciaChooser.cpp`) | document, request, cache, countdown; which controls are enabled | show, answer of the server, tick, scroll, agree | nothing is agreed to unseen; there is always a way on |
| sign-in (`auth/AuthHandler.cpp`) | the pending login, a deferred completion, the timeout | begin, cancel, callback, timeout | a login's answer is its own |
| integrity watcher (`runtime/GameIntegrityWatcher.cpp`) | generation, suspension, expected hashes, scans and hashes under way, what has been reported | begin, watch, suspend, change, scan, hash | nothing stale is reported, and no change missed |
| launcher self-update (`update/`, `network/LauncherUpdateService.swift`, `ui/LauncherUpdate.cpp`) | task, catalogue, selection, downloaded release, the dialog; on disk two AppImages and a cache | check, choose, download, verify, install, cancel, checkpoint | what is installed was asked for and verified; a launcher is always left |
| HTTP client (`network/SwiftHttpClient.*`) | requests by id | send, cancel, complete | each callback once |
| configuration and credentials (`config/`, `credentials/`) | `config.json`, its backup and a marker, the login in a store or `.env` | load, save, reload after an outside change, sign-in and sign-out, reset | neither is lost by a crash or a failed write, and no old account comes back |
| Discord presence, start-up and instance lock, views, tray, translations, logging | | | decorative, or pure input and output |

How they interact: the main window asks `InstallState` for a stage and shows a
view for it; a launch passes the launcher's own update check, the version check
and the integrity check (operations of Courier, reported through the bridge),
then `Shell::run_game`, whose session runs commands through the runner and
watches the game with probes.  Setup uses the same runner.  The watcher reports
changed files to the main window, which asks for a repair, an operation of
Courier again.

The behaviours that are hard: answers that come after the one who asked has
gone (runner, probes, Courier callbacks, logins); three event sources that call
the same session in any order; processes that ignore signals, and process ids
that are used again; crashes between two changes of the disk, in an update and
in its undoing; cancellation that does not wait; flags shared by two kinds of
operation (`courier_working`, `launch_after_preflight_check`).  `PROJECT.json`
lists them as hazards, each at its line.

## The modules

| module | models |
|---|---|
| `Command` | the slot that the runner offers its clients: a command that began, is doomed to an outcome, is answered |
| `CommandSlot` | the abstract specification of the runner: what its clients rely on |
| `ProcessRunner` | the runner itself, with `QProcess`, the timers and the operating system; implements `CommandSlot` |
| `GamePhases` | the phases of a session and their groups |
| `GameSession` | the session, on the abstract slot |
| `GameLifecycle` | what the session promises the user interface; `GameSession` implements it |
| `GameSessionProofs` | the theorems about `GameSession` and about the `ProcessRunner` under it |
| `PrefixSetup` | setup and DXVK switch, on the abstract slot, with the prefix on the disk |
| `PrefixDialog` | `PrefixSetup` with the two windows it is started, watched and cancelled in |
| `PrefixSetupProofs` | the theorems about `PrefixSetup` and `PrefixDialog` |
| `GameFiles` | the paths of the game's files, for the update and the download in it |
| `AtomicInstall` | the abstract specification of an update |
| `CourierUpdate` | the update and its recovery, one change of the disk per step; implements `AtomicInstall` |
| `CourierUpdateProofs` | the theorems about `CourierUpdate` and about the `CourierDownload` in it |
| `CourierDownload` | the download that is one action of `CourierUpdate`: requests, ranges, retries, tasks; implements that action |
| `Prelaunch` | InstallState, main window, dialogs, bridge and Courier's reports, composed |
| `PrelaunchProofs` | the theorems about `Prelaunch` |
| `LauncherUpdate` | the launcher's update of itself: service, manager, dialog, disk |
| `LauncherUpdateProofs` | the theorems about `LauncherUpdate` |
| `IntegrityWatch` | the watcher, the file system under it and the reading of files elsewhere |
| `IntegrityWatchProofs` | the theorems about `IntegrityWatch` |
| `Settings` | settings and credentials with the files they live in |
| `SettingsProofs` | the theorems about `Settings` |
| `RulesBox` | the rules agreement: request, cache, countdown |
| `Onboarding` | from the first start to the button that enters the game, with the sign-in; extends `RulesBox` |
| `OnboardingProofs` | the theorems about `Onboarding` and the `RulesBox` in it |
| `MC...` | the instances that TLC checks |

State and actions follow the code: a variable is a member (the comment beside
it names it), an action is a whole handler.

**`ProcessRunner`.**  `Start` is `start()`, with a `QProcess` that may report
`FailedToStart` from within it; `OnStarted`, `OnFailedToStart` and `OnFinished`
are the process' signals, `OnTimeout` and `OnForceKill` the timers',
`Terminate` a client's cancellation.  The process ends when it likes, or when
it is killed; its id may then be given to another process.  `ExitOutcome`
maps an exit to the outcome the completion gets, and `Finish` answers and
frees the runner in the order of the code.

**`GameSession`.**  The runner is the record `slot` of `Command`, so the model
relies only on what `ProcessRunner` has been shown to implement.  `RunGame`
begins with the preflight probe; `CleanupDone`, `ShutdownDone`, `QueryDone` and
`ImportDone` are the completions of the stages, `WrapperFinishes` that of the
game's wrapper, `StaleCommandDone` any completion whose generation is not the
session's.  `ProbeSamples` is the moment at which a process list is taken,
`ProbeExits` the later moment at which the launcher reads it: the game may
appear or exit between them.  `PollGame` is the monitor timer.  `Restart` ends
the launcher at any point and leaves the game, and an unremoved registry file.
`announced` and `absences` are history: the last callback, and the probes
without a sighting.

**`PrefixSetup`.**  `Setup`, `ToggleDxvk`, `Cancel`, `CommandDone` and `Retry`
are the handlers; `CommandWorks` is a command's effect on the prefix, which for
those that rewrite it is any combination of parts; `RegistryWritten` is Wine
writing its registry files late.  `prefix`, `late`, `marker` and `useDxvk`
survive `Restart`.

**`PrefixDialog`** extends `PrefixSetup`: each step of the job is a step of both,
and `Hears` is the slot of `wine_setup_finished` in the two windows.  A refused
setup (`AnsweredAtOnce`) is heard by both although it was not theirs.
`CloseProgress` asks, `KeepRunning` and `CancelSetup` are the answers, and
between question and answer anything may happen.  `BarFull` arms the timer
that `TimerHides`.  What a hidden dialog said does not matter (`Unshown`
normalises it); the DXVK switch is reached only while `WineInstall` is closed.

**`CourierUpdate`.**  Paths are members of `Files`, contents `none`, `old`,
`new` (and `partial` in the staging directory).  Each action is one change of
the file system, or the reading that the next change is decided on.
`OperationFails` is an error or a cancellation at any of them; within the
transaction it leads to the undo, as in the code's `catch`.  `Crash` is the end
of the process.  Removing a directory may stop half way (`Remains`).  Whoever reads
the journal may find it unreadable (`JournalUnreadable`): then the four moves of
`quarantineRecoveryState` follow, an action each, and the operation fails; a move
that fails ends them as any failure does.  Half of an update may stay in place, which
`AtomicInstall` allows in that one step (`GiveUp`), and no other.  The history
variable `orphaned` says that the backups that are there have lost their journal in
this way.

**`CourierDownload`.**  One task per file, a record with the pc of
`prepareReplacement`: it looks at what is staged, asks for the rest, gets an
answer (the range, the whole, a refusal, an answer that is to be tried again),
receives pieces that may be wrong or one too many, verifies, and begins once
more with a clean file when the hash is wrong.  The tasks share the operation,
which is cancelled by the first that fails.  `Whole` instantiates
`CourierUpdate` with the staging directory seen through `View`.

**`Prelaunch`.**  The thread of the user interface is the one variable `ui`, and
an event one step: the operators (`StageChanged`, `Probe`, `Checked`,
`StartDownload`, ...) map its value before a call to its value after it, so
that the slots a signal calls are composed as the code composes them.
`running` is what Courier executes per client, `active` what the bridge lets
through, `posted` the event queue, `reports` what a thread of Courier has
decided to say and not queued yet.  A cancellation is reported from the
caller's thread, at once, while the thread that is cancelled may be between
its look at the current operation and its report.

**`LauncherUpdate`.**  The task of the service is a thread of its own
(`CheckEndpoint`, `TransferPackage`, `FinalizePackage`); what it reports is in
`inbox` until `HandleCheck` or `HandleDownload` takes it.  Each step of
`install_linux_appimage` that changes the disk is an action, after any of which
the launcher may be killed (`Stop`), and each `QFile` call may fail.  Versions
are compared as the Swift part does it; its sort is not stable, so the order of
releases of one version is any (`Sorted`).

**`IntegrityWatch`.**  `jobs` are the requests and verifications that run
elsewhere: they read file by file, at moments of their own, and answer with
what they have read; `current` says whether the generation they were started in
still is.  `system` is `QFileSystemWatcher`, which may fail to watch and may
notice several changes as one.  `LauncherWrites` is a repair or an update, done
while the watcher is suspended.

**`Settings`.**  An operation maps a world (files, launcher, history) to the
worlds it may end in, so that failed writes and crashes between two writes are
outcomes of the operation that writes; `Then` composes them.  `EditConfig`,
`DamageConfig`, `DeleteConfig` and `DeleteDirectory` are the outside changes.
The settings are reduced to the choice (setup not complete, complete with a
profile that is normalised or one that is not) and `keep`, the wish to stay
signed in.  `past.last` is the user `AccountIsLast` speaks of.  Where a write of the
credentials has failed, or was cut off, so that another's are left
(`past.stale`), whoever is then found counts as signed in (`Adopt`): this is the
one way, named in `Known divergences`, in which an earlier account returns.

**`RulesBox` and `Onboarding`.**  As in `Prelaunch` one event is one step of the
variable `ui`.  `Probe`, `StageChanged`, `Open` and `Close` are the code's; the
boxes are a stack, and only the top one has controls.  `UrlOpened` and
`HandedOn` are a callback URL that reaches the launcher, `Deliver` the event
loop.  The stack is kept as what each box lies over (`open`), so that raising and
closing need no order of their own.  The update check and the launch are `Prelaunch`'s, what the files of the
configuration go through is `Settings`'; the game's transfer and the prefix setup
are begun and ended here, not modelled again.

## What the runs check

| run | question | properties |
|---|---|---|
| `process_runner` | Is each command answered, once and rightly, and is a kill well aimed? | `RunnerServesHolder`, `CommandsAnswered`, refinement `SlotSpec` |
| `game_session_linux` | Does a launch resolve, is an exit noticed and only after confirmed absences, is nothing left behind, do the callbacks come in order? | `NeverStranded`, `NothingOutlivesSession`, `ActsOnAbsence`, `NobodyHangs`, refinement `LifecycleSpec` |
| `game_session_macos` | Does the two-stage probe of macOS let a launch hang, or an exit pass? | `NobodyHangs` (the safety properties are proved for both platforms) |
| `prefix_setup` | Does the marker ever lie, does a job ever hang, is success earned, for the three kinds of runtime; and do the windows show and cancel the setup that runs? | `JobAndMarkerAgree`, `ProgressTruthful`, `SetupSuccessEarned`, `DxvkKeepsMarker`, `SetupResolves` |
| `courier_update` | Is an update atomic under failures and crashes, those of the undo included, and do verified downloads survive? | refinement `UpdateIsAtomic`, `UnownedBackupsAreStale`, `CompletedMeansInstalled`, `VerifiedFilesKept` |
| `courier_download` | Does whatever an earlier attempt has left, or a server sends, make a download fail without a cause, or go on for ever; is it what `CourierUpdate` takes it for? | `FailureHasCause`, `DownloadEnds`, refinement `DownloadIsWhole` |
| `prelaunch` | Do checks, transfers, setups and the game exclude one another, is everyone who waits answered? | `NothingBeside`, `Answered` |
| `prelaunch_two_games` | Does a game start only when it is verified, are checks and transfers shown for what they are, does everything follow the configuration, when the game is changed in the window or in `config.json`? | `LaunchVerified`, `OperationShown`, `FollowsConfig` |
| `launcher_update` | Is a launcher always left, is what is installed what was asked for, is what is offered newest, does the window come back? | `LauncherNeverLost`, `InstalledAsAsked`, `OffersNewest`, `NothingHangs` |
| `integrity_watch` | Is anything reported that is not so, or not reported that is? | `NoFalseAlarm`, `ArrivalsTold`, `DamageTold` |
| `settings` | Does an account come back, a session end, a setting get lost; do settings and file agree in the end? | `AccountIsLast`, `SessionKept`, `StartFindsSettings`, `FilesAgree` |
| `onboarding` | Can the rules be agreed to unseen, can a stale sign-in sign in, is there always a way on? | `RulesReadFirst`, `WayForward`, `SignedInByThisAttempt` |

Each module has one type invariant, `TypeOK`, a conjunct of the first invariant
in its run.  All runs explore the whole state space of their instance.  Some
properties name the cases in which the code does not keep them
(`KnownDeadEnds`, `Excused`, empty files, `stranded`, `strayed`): these are among the
[known divergences](#known-divergences), and the property says that there are
no others.

The four properties of `Prelaunch` that have theorems make an exception of `strayed`: a
launch, or its check, has gone on although window, last probe and `config.json` did
not name one game any more, or under a configuration it did not begin with (`Strays`).
This is the third of the known divergences.  `FollowsConfig` makes no exception.

## Bounds

Each is a constant or is named in a comment at the guard.

- `ProcessRunner`: three commands, one of which has no timeout (as the game's
  wrapper), two process ids.  Two suffice for an id to be used again by another
  command, three commands for one to be stale while another runs and a third
  waits.
- `GameSession`: four launches of a launcher process (`MaxGeneration`), two game
  pids, the limits 2, 2, 3 and 2 for attempts, probe failures, failures of an
  attached game and absences.  The code's limits (60 or 180, 4, 8 and 3) only make the same
  counters longer; each is reached.  Restarts are not bounded.
- `PrefixSetup`: one retry of the validation instead of the code's 20, and a
  generation up to 4, which is two runs: an earlier run's timer can fire into a
  later one.  Restarts begin anew.  `PrefixDialog`: one 800 ms timer pending at a
  time.
- `CourierUpdate`: three paths, two of the release and one obsolete: one entry
  can be done, one half done and one not begun.  One release: an update that is
  interrupted and followed by one to *another* release is not in the model.
- `CourierDownload`: two files of none, one or two pieces, two attempts instead of
  three.  A piece is what is received at once; two make a file that is cut off, a
  third is one too many.  With two files the limit of four tasks does not bind.
- `Prelaunch`: `OpIds` are used again once nobody holds them (the code counts
  up); whatever begins a check waits until two are free (`HasIds`), and an
  event until one is.  The user
  acts while fewer than `MaxPosted` = 1 events are queued, so events pile up only
  by what one action and the threads post.  One thread of Courier at a time is
  between decision and report.  `Setups` FALSE leaves the setup commands out of
  the larger instance.  `Games` stand for what an operation's context key holds:
  game version, install directory, prefix.  The user stays signed in.
- `LauncherUpdate`: four releases (what runs, its successor, the candidate before
  that, one that was withdrawn), three catalogues the server changes between,
  two mirrors, three requests of the user and two starts: an update, the start
  after it, and a request there.
- `IntegrityWatch`: a game of two files in two builds, one of them replaced by
  DXVK; two edits by others and one turn (a suspension or a fresh start).  Two
  edits are a change and one that comes while the first is looked at.
- `Settings`: two accounts, two faults or outside changes.  Two are a failed write
  and the edit or crash that meets what it left.
- `Onboarding`: a document with and one without a scroll bar, a countdown of two
  ticks, two callbacks at a time.  Restarts and resets are not bounded.
- TLC's `CHECK_DEADLOCK` is off where the system may stop: `ProcessRunner`, whose
  commands run out; `Prelaunch`, `LauncherUpdate`, `IntegrityWatch` and
  `Settings`, whose users and faults do.

## Fairness

- `ProcessRunner`: the timers fire, a start is settled, a process killed with
  SIGKILL ends.  Nothing is assumed of a process that runs, or that ignores
  SIGTERM.
- `GameSession`: the monitor timer and the probe's timeout fire, a killed probe
  goes away, and the runner keeps what `ProcessRunner` guarantees: a command with
  a timeout, or cancelled, is answered.  Nothing is assumed of the wrapper, the
  game, the user, or a probe before its timeout.
- `PrefixSetup`: the retry timer fires and the runner answers; every command of a
  setup has a timeout.
- `CourierDownload`: a request is answered or times out (the code gives every
  `URLSession` its timeouts), and the Swift runtime runs a task that can run.
  Nothing is assumed of what is answered, nor of the user.
- `LauncherUpdate`: the service's task goes on (its requests have timeouts), the
  event loop delivers, the calls of the installation return.  Nothing is assumed
  of the user or of the server's answers.
- `IntegrityWatch`: timers fire, files are read, results and changes that were
  noticed are delivered.  Nothing is assumed of who changes files, nor that a
  change is noticed in time.
- `Settings`: timers that run expire, and the event loop delivers.
- `CourierUpdate`, `Prelaunch`, `Onboarding`: none; only safety is checked.  In
  `Prelaunch` the invariant `Answered` takes the place of liveness: whoever waits
  has an answer running, being posted, or queued.  In `Onboarding` it is
  `WayForward`: when nothing is under way, the user has a control that leads on.

## What is proved

TLAPS has checked the modules `...Proofs` to the last leaf.  The assumptions are
those that the modules state of their constants, and nothing else: limits are
natural numbers (`LimitsAssumption`, `BoundsAssumption`, ...); the values that
stand for nothing, or for something other than a file, an account or a release,
are none of them (`MetadataAssumption`, `FilesAssumption`, `AccountsAssumption`,
`ReleasesAssumption`); the version of a release is a sequence of numbers with a
pre-release part, as the parser returns it (`NumberAssumption`); a catalogue is
finite and not empty, as the service has checked before it reports one.

**The runner** (any commands, any process ids).  `RunnerInvariant` says
that `RunnerInv` is inductive: `RunnerServesHolder`, the property of the run, and
two parts it needs, `HolderKnown` (what a free runner looks like, and that what
has started runs) and `TimeoutOfHolder` (the timeout runs only where the command
has one).  From it follow
`RunnerServesHolderAlways` and `ImplementsSlot`: every step of the runner is a
step of `CommandSlot` or none, so what is proved of the session on the abstract
slot holds on the runner.

**The session** (any limits, any set of pids, any number of launches, both
platforms).  `SessionInvariant` is the inductive invariant `IInv`.  The
invariants of the runs are not inductive alone: `NeverStranded` holds because
an answer that is pending is the session's own, and that rests on which command
may hold the slot in which phase.  `IInv` adds four parts: `MonitorWatches` (the
timer is armed only in the phases that it polls for), `SlotMatchesPhase` (whose
command holds the runner), `WrapperBeginsFirst` (a wrapper that has not begun
is the only source of events of its launch, so that nothing is confirmed before
it) and `AbsencesCounted` (the session never counts more absences than there
were).  From it follow `TypeCorrect`, `NeverStrandedAlways`,
`NothingOutlivesSessionAlways` with its three parts
`ProbeBelongsToSessionAlways`, `LeftCommandsDoomedAlways` and `SecretsOwned`,
`ActsOnAbsenceAlways` with its two, `ExitConfirmedAlways` and
`CleanOnlyAfterAbsenceAlways`, and `ImplementsLifecycle`: every step of the
session is one of `GameLifecycle`, or none.

**An update** (any set of files, any release).  `UpdateInvariant` is the
inductive invariant `IInv`, in five parts besides the types.  `JournalInv` says
what a journal on the disk means: each backup belongs to an entry that had an
original or was to be removed, and whatever has taken the place of an original is as
the release has it, so that an installation whose journal is put aside is torn, but
has nothing foreign in it (`QuarantineTears`).  `UndoInv` says where an undo stands: the journal in memory is the one
on the disk, and every entry that is not to be visited any more is settled.
`PlanInv`, `OriginalInv` and `ProgressInv` say what the update has planned,
where each original is, and how far the release has come.  Each action is one
lemma, with one step per part.  From it follow `TypesCorrect`;
`UpdateImplementsAtomicInstall`, the refinement, in which an installation under
a journal *is* what undoing it gives, so that an undo, an interrupted undo and a
second undo all leave it as it is, and only the removal of the journal changes
it; `CompletedUpdateIsInstalled`; and `BackupsOwned`.  `VerifiedFilesKeptAlways`
needs a second invariant, `StagedWhole`: no file that a journal names is partial in
the staging directory, so that a swap and its undoing only carry whole files, and
what an undo clears away is no longer the one copy of a verified file.  The steps of
the update and those of the undo are a lemma each (`UpdateKeepsVerified`,
`UndoKeepsVerified`).

**A download** (any files, sizes, numbers of attempts and of tasks).
`FailureHasCause` is not inductive: that a file whose hash is wrong twice has been
sent wrong rests on the clean download having thrown away what an earlier
operation had left.  `DownloadInvariant` says that
`DownloadInv` is inductive, which adds `CleanIsOurs` (a
wrong piece in a file that is downloaded anew was sent in this operation),
`Bytes` (a file that is received is there, and one that is verified has its
length), `Asking` and `Underway` (nothing is left of an operation when the next one
begins).  A lemma reduces the step of a task to its own record and file; each
answer and failure is one step.  From it follow `FailureHasCauseAlways` and
`DownloadImplementsWhole`: a step of a task changes a file that does not count as
new, takes a verified file off the list, or is none of `CourierUpdate`.

**A setup** (any set of runtimes, any number of validations and of runs).
`JobAndMarkerAgree` is not inductive: that a job which ends with success finds what
it has to find rests on what its timers, its queue and its commands may be.
`SetupInvariant` adds `JobShape` (a job that waits for a command is at an entry of its
queue; a DXVK switch has no command that invalidates the prefix), `RetriesDated` (a
timer of `finalize()` that carries the number of the running job is of that job),
`InvalidatedFirst` (a job that has removed the marker runs without one) and
`CancelledDoomed` (a command that was cancelled is about to fail, except those whose
failure the code forgives).  Each step of `PrefixDialog` is a step of `PrefixSetup`, the
cancellation of a command that is not the setup's, or leaves the setup alone
(`DialogStep`), so the invariant holds there too, and the theorems are stated of
`DialogSpec`: `JobAndMarkerAgreeAlways`, `SetupSuccessEarnedAlways`,
`DxvkKeepsMarkerAlways` and, with the second invariant `Truthful`,
`ProgressTruthfulAlways`.

**The launcher's own update** (any releases and versions, any signed documents, any
number of endpoints, requests and starts).  `LauncherUpdateInvariant` adds to
`OffersNewest` five parts: `OneReport` (a request is with the task, or its one report
is queued), `ReportsTrue` (a catalogue in the queue is in order and begins with
something newer than what runs), `SameRelease` (manager, service and user mean the
same release, from the selection to the verified bytes), `Installing` (which pairs of
AppImages each step on the disk leaves) and `Down`.  That the first of a catalogue is
newest rests on the sort, which leaves nothing behind an older one, and on no
version being newer than itself, a lemma about the code's comparison.  That the
comparison is transitive, so that there is such an order of any catalogue, is
induction over the identifiers and not proved; TLC evaluates it on the releases of
the run.  From the invariant follow
`LauncherNeverLostAlways`, `OffersNewestAlways` and `InstalledAsAskedAlways`.

**The watcher** (any files, builds and manifests, any number of changes and jobs).
`NoFalseAlarm` is not inductive, as a report is decided on what a job has read long
before, perhaps for a context that is gone.  `WatcherInvariant` says what a job of
the current generation compares with and that it has found nothing which was not so
(`JobsSincere`), what the context is in each of its states (`ContextStands`), that
what is told was so (`ReportsTrue`), that one scan runs at a time (`OneScan`) and that
an arrival nobody has told of has an event, a queued scan or a scan which cannot miss
it (`ArrivalsComing`).  From it follow `NoFalseAlarmAlways` and
`ArrivalsToldAlways`.

**The settings** (any accounts, any number of faults and outside changes).  As an
operation maps worlds to worlds, the inductive invariant is a predicate on worlds,
`Good`, and there is one lemma for each operation: it leads from good worlds to
good ones, whatever fails in it and wherever it is cut off.  `Good` says that
the session is the last user's (`Honest`), that the primary file and the backup
hold what was written last or newer documents, and that what has been saved for
good is still in the backup (`Saved`), and that what is stored is the user's, or
history knows that it may not be (`Owned`).  The last does not hold inside an
operation on the credentials, so those lemmas begin with a world that is only
`Fair`.  From `SettingsInvariant` follow `AccountIsLastAlways`,
`SessionKeptAlways` and `StartFindsSettingsAlways`.

**Checks, transfers and the launch** (any games, any ids of operations, any number of
events that wait).  An event composes the slots that its signals call, so the
inductive invariant `IInv` of `PrelaunchProofs` is a predicate on the value of `ui`,
with one lemma for each operator that maps such a value.  Its parts: `Work` (a check
has an operation of its kind which the update dialog observes, a transfer goes on
exactly while a dialog has one, the bridge lets through what somebody waits for and
nothing else), `Reported` (the last report of each is still to come), `Place` (what
must be installed for it), `Layers` (a dialog with an operation is shown, and nothing
but an offer lies over it), `Fits` (the stage says what is so), and `Followed`,
`Viewed`, `Installed` and `RepairShown` (what follows a change of the stage).  Within
an event an operation may be over while its dialog still has it; the parameter `p` of
the parts is that operation, and the lemmas lead from `p` to `NoOp`.  From
`PrelaunchInvariant` follow `ShownOperations`, `Alone`, `AllAnswered` and
`VerifiedLaunches`.

The games are any, and the user may change them at any time.  The inductive invariant
is `strayed \/ (Core /\ Loyal(ui))`, where `Core` are the parts above and `Loyal` says
that what goes on goes on for one game: while a launch or a check does, the window, the
last probe and `config.json` agree, and the check is of that game.  The history variable
`strayed` becomes true at the step that would break this, and the theorems say that
there is no other way to break the properties.  For this the lemmas before `LoyalKept`
show, operator by operator, what an event leaves of the window, the last probe and what
is waited for.  `strayed` constrains no step.
The exception is needed: without it TLC violates each of the four with two games, by
divergence 3 (`NothingBeside` with three ids and `MaxPosted` = 3).  `FollowsConfig`, which makes no exception, is not proved: with edits of
`config.json` that do not wait for one another (`MaxPosted` = 3) it is violated by the
last part of divergence 3, so it rests on a bound.  TLC checks it, with edits that wait.

**The first start and the sign-in** (documents with and without a scroll bar, any
countdown, any number of callbacks that wait).  None of the three properties is
inductive: that the rules were read rests on what the last look at the configuration
has seen, that a box is open on the stage that opened it, and that a completion counts
on what may stand before it in the queue.  As in `Prelaunch`, an event is a composition
of operators on the value of `ui`, so the inductive invariant `IInv` of
`OnboardingProofs` is a predicate on such values, `Good`, with the queue's part
`Queued`, and there is one lemma for each operator and each action.  The parts of
`Good`: `Seen` (whatever is under way was begun past the prerequisites, and what was
seen last is so unless a look is due or a reset has wiped it, `Lag` and `Old`),
`Honest` (nothing that counts as read was not), `Countdown` (it has not run faster
than the clock), `Stacked` and `Layers` (the boxes lie over one another without a
cycle, so that one is on top; at most one of the setup's is open, and none too early),
`Says` and `Fits` (the stage is what was seen, but for the review that a reset takes
back), and `Viewed` (the view is the stage's, which has opened its box).  Within an
event the dialog of the game may outlast its stage, so the operators in between keep
only `Nearly`.  From `OnboardingInvariant` follow `RulesAreReadFirst`; `SetupLeadsOn`,
by the stages of a launcher where nothing is under way; and `AccountIsThisAttempts`.
`MaxPosted` is a bound of the runs only: the proof makes no use of it.

**Only model-checked**: liveness under fairness and whatever needs `ENABLED`
(`CommandsAnswered`, `NobodyHangs`, `SetupResolves`, `DownloadEnds`, `NothingHangs`,
`DamageTold`, `FilesAgree`); and `FollowsConfig`, as said.

## Known divergences

What modelling has shown the code to do that its comments, messages or the
surrounding code would not lead one to expect.  The models behave as the code
does; where a property would fail because of it, the property names the
exception.

Session and setup:

1. `GameSession.cpp:241`: when the first (tasklist) stage of a probe times out,
   the log says that the host probe will be used; it cannot start, because the
   killed process still occupies `probe_process_`.  The next poll goes on.
2. `PrefixSetupJob.cpp:336`: a setup that is cancelled while `umu-run` runs in a
   prefix that has a valid structure goes on and reports success.
   `PrefixSetupJob.cpp:812`: switching DXVK on without a ready prefix reports that
   the existing prefix remains ready.
3. `InstallState.cpp:216`: the probe that follows a change of the configuration
   cancels the check a launch waits for and leaves the launch; the stage becomes
   Ready and the game starts unchecked.  `MainWindowActions.cpp:70`: a launch that waits
   for the launcher's own update check survives a change of the game; when that game's
   repair is then requested and given up, the launch is still wanted
   (`MainWindowSetup.cpp:177`), the stage becomes Ready and the damaged game starts
   (`MainWindowState.cpp:166`).  `DownloadProgress.cpp:89`: an edit of `config.json` that
   comes while a check goes on, before the deferred part of an earlier one is handled,
   may leave a check beside a transfer.  All take two games, or an edit of the paths
   (`strayed`).
4. `Shell.cpp:137`: a refused setup is heard by every listener, and
   `PrefixProgress` may tell the failure of a setup that goes on.
   `PrefixProgress.cpp:114`: a question that is left open and then confirmed
   cancels whatever command runs by then.  `PrefixProgress.cpp:55`: the timer of
   one setup may hide the dialog of the next.  A `WineInstall` that is hidden and
   shown again brings the progress back with "Starting..." although nothing runs.

Downloads and the launcher's own update:

5. `Courier.swift:126`: a retry that begins while the cancelled operation is still
   in its transaction undoes it under its hands, and may delete a verified file.
   `CourierUpdate.swift:165`: a journal that cannot be read takes the backups and the
   staging directory with it into quarantine.  The installation stays half changed
   until the next update or repair, which removes and downloads whatever is not the
   release's, although "verified and partial files will be kept"; the originals are
   in the quarantine only, of which two are kept (line 184).  The journal is moved
   first: when the launcher dies, or a move fails, before the backups follow, the
   next operation finds backups without a journal and deletes the only copy of the
   originals unseen (line 211).
6. `CourierUpdate.swift:344`: an empty file of the manifest is never requested, so
   that it is not there to be verified: its hash is found wrong twice, and the
   operation fails.  `CourierTransfer.swift:212`: an attempt that finds the file
   complete throws it away and begins anew.
7. `LauncherUpdateManager.cpp:405`: a cancellation that loses the race against the
   end of the download is ignored, and the update is installed.
8. `LauncherUpdateManager.cpp:676`: when the second rename fails and putting the
   old AppImage back fails too, its only copy is `.soa-previous`, which the
   checkpoint 15 s after a start (line 714) removes.
9. A required release is offered as optional in the list that is opened by hand;
   the tray starts the game while the dialog of a required one is open; a download
   that is requested as soon as a check is reported is refused as busy
   (`LauncherUpdateService.swift:334`); `version_selected` ignores what
   `select_version` returns (`MainWindowSetup.cpp:588`); the Swift part accepts
   releases that the C++ catalogue rejects.

Watcher:

10. `GameIntegrityWatcher.cpp:597`: a rescan that was asked for during a scan which
    has found something is forgotten.  What comes between the first reading of the
    files and `install_watchers` (line 336) is noticed by nobody; a watch that is
    lost when a file is replaced comes back only with the next look at it; a
    manifest that could not be fetched is not fetched again (line 231); DXVK that
    is installed while its files are watched is reported as damage (lines 69
    and 306).

Settings and sign-in:

11. When the credential store fails, signing out or in may leave the old account
    in it; a crash between the store and the removal of `.env` leaves both.  A
    write of the credentials takes an edit of `config.json` that has not been read
    for known.  A damaged file whose restoration fails is not restored later.
12. A factory reset that cannot remove its data leaves the backup of
    `config.json`, and one that is refused (`ConfigPersistence.cpp:494`) has
    dropped the reloads that were pending.  The audio profile that the setter takes is lost at the next start
    (`normalize_schema`).
13. Dead ends (`KnownDeadEnds`): a report of changed files closes the rules or the
    prerequisites (`MainWindowSetup.cpp:275`), which nothing opens again
    (`AliciaChooser.cpp:286`, `MainWindowState.cpp:217`); a failure, as that of a
    login that timed out, while the repair dialog is shown is not told
    (`MainWindow.cpp:90`); a document without a scroll bar that is shown again after its
    countdown has run out, while the server does not answer, cannot be agreed to
    (`RulesAgreement.cpp:406` starts the count and not its timer).
14. The acknowledgements of the prerequisites survive a factory reset; a callback
    URL is not bound to an attempt (any well-formed one answers the login that is
    pending); a callback that reaches a launcher which is ending is lost
    (`main.cpp:273`); after a reset `InstallState.cpp:164` may work with the
    configuration it has cached.

## Not modelled

- Content: manifests, hashes, signatures, registry text, process listings and log
  messages are abstracted to the verdicts that the code derives from them.
- Other writers of the installation during an update; paths that contain each
  other; two releases, one interrupted and another installed; two operations of
  Courier on one disk; a setup command that outlives the launcher.
- `CourierUpdate`: what is in a quarantine directory, and the removal of old ones
  after a commit (`pruneRecoveryQuarantines`).
- `CourierDownload`: speed, the numbers of a progress report; staged files that
  cannot be opened.
- `PrefixSetup`: a change of the chosen runtime under a job that runs.
- `LauncherUpdate`: progress, wording, and the start of an AppImage that was
  downloaded but not put in place.
- `IntegrityWatch`: the second context (the class makes and clears both
  together), directories in directories, symbolic links; a file is read at one
  moment.
- `Settings`: outside edits of `.env`; a batch of setters is one change.
- `Prelaunch`: what happens while the question of `cancel_download` is open
  (`DownloadProgress.cpp:226`, a nested event loop); it is answered at once.  What
  goes on when it is confirmed is then cancelled and the dialog closed, although it
  may be another operation, or over: `closed` of a finished repair may start the game
  that waits for it.
- `Onboarding`: a second game, a second answer to one request for the rules; the
  other actions of a callback URL than the sign-in's; the test for a URL that comes
  twice (`AuthHandler.cpp:146`), which finds nothing pending any more.  The machine is
  an x86-64 one or a Mac: on another Linux machine the assistant disables both its
  buttons (`PrerequisitesIntro.cpp:460`), and the setup ends there.  A request for the
  rules that cannot even be begun (`RulesAgreement.cpp:184`, `:218`) is one that fails.
- The HTTP client's table of requests: its clients are modelled with what they
  do about a late answer.
- Session and setup on one runner: each is modelled with the runner free, its
  own, or occupied by something else.
- Wine and Proton integration, macOS diagnostics, hashes: functions without state
  of their own, reached by unit tests.
- Presentation: widgets, tray, translations, logging; Discord.

## Plan

Done: the components above, their abstract specifications, the refinements and
the theorems.  What is left, in the order of what a failure would cost the user:

1. Theorem: `FollowsConfig` of `Prelaunch`, with an exception for edits of `config.json`
   that overtake one another in place of the bound.
2. `CourierUpdate` with two releases and with nested paths.
3. `ShellComposition`: `GameSession` and `PrefixSetup` on one `ProcessRunner`, with
   setup commands that outlive the launcher.
4. `Requests`: the HTTP client's ids and cancellation.
