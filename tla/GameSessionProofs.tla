-------------------------- MODULE GameSessionProofs --------------------------
(***************************************************************************)
(* What holds of GameSession for every value of its limits, for any number *)
(* of launches and on both platforms; and, at the end, what holds of the   *)
(* ProcessRunner under it.                                                 *)
(***************************************************************************)
EXTENDS GameSession, ProcessRunner, TLAPS

(***************************************************************************)
(* The inductive invariant.  The properties that the runs check are not    *)
(* inductive by themselves: that a launch is never stranded relies on the  *)
(* pending answer being the session's own, and on the wrapper having begun *)
(* before anything is polled.                                              *)
(***************************************************************************)

\* The monitor timer is armed only in the phases that it polls for.
MonitorWatches == monitor => phase \in WatchedPhases

\* Who may hold the runner in which phase.
SlotMatchesPhase ==
  /\ phase = "Preflight" => ~Busy(slot)
  /\ phase \in WatchedPhases /\ Busy(slot) => Current /\ slot.forced = Unforced
  /\ phase = "MonitoringUncertain" /\ Busy(slot) =>
       slot.job = "game" /\ slot.forced = Unforced /\ slot.gen < generation
  /\ slot.gen <= generation

\* A wrapper that has not begun is the only event source of a launch.
WrapperBeginsFirst ==
  Current /\ slot.job = "game" /\ ~slot.started
    => phase = "Launching" /\ ~monitor /\ probe.for # "poll"

\* The session never counts more absences than there were.
AbsencesCounted == phase = "Running" => missing < MissingLimit /\ missing <= absences

IInv ==
  /\ TypeOK
  /\ NeverStranded
  /\ ProbeBelongsToSession
  /\ LeftCommandsDoomed
  /\ TokenScrubbed
  /\ RegistryFileOwned
  /\ MonitorWatches
  /\ SlotMatchesPhase
  /\ WrapperBeginsFirst
  /\ AbsencesCounted

(***************************************************************************)
(* How each way of ending or beginning a session leaves the invariant.     *)
(***************************************************************************)

LEMMA SlotFacts ==
  ASSUME NEW s \in Slots(Jobs, Nat)
  PROVE  /\ s.job \in Jobs \cup {NoJob}
         /\ s.gen \in Nat
         /\ FreeSlot \in Slots(Jobs, Nat)
         /\ FreeSlot.gen = 0
         /\ ~Busy(FreeSlot)
         /\ Terminated(s, "Cancelled") \in Slots(Jobs, Nat)
         /\ Terminated(s, "Cancelled").job = s.job
         /\ Terminated(s, "Cancelled").gen = s.gen
         /\ Busy(s) => Terminated(s, "Cancelled").forced = "Cancelled"
  BY DEF Slots, FreeSlot, Terminated, Doomed, Busy, NoJob, Jobs, StageJobs, ForcedOutcomes, Unforced

LEMMA AcceptedFacts ==
  ASSUME NEW job \in Jobs, NEW g \in Nat
  PROVE  /\ Accepted(job, g) \in Slots(Jobs, Nat)
         /\ Accepted(job, g).job = job
         /\ Accepted(job, g).gen = g
         /\ Accepted(job, g).started = FALSE
         /\ Accepted(job, g).forced = Unforced
         /\ Busy(Accepted(job, g))
  BY DEF Slots, Accepted, Busy, NoJob, Jobs, StageJobs, ForcedOutcomes, Unforced

LEMMA ProbeFacts ==
  /\ NoPid \in ProcessIds
  /\ IdleProbe \in Probes
  /\ KilledProbe \in Probes
  /\ IdleProbe.for = "none"
  /\ KilledProbe.for = "none"
  /\ IdleProbe.proc = "NotRunning"
  /\ KilledProbe.proc = "Killed"
  /\ \A p \in Probes : Stopped(p) \in {IdleProbe, KilledProbe}
  BY DEF Probes, IdleProbe, KilledProbe, Stopped, ProcessIds, NoPid, Purposes

LEMMA HostProbeFacts ==
  ASSUME NEW purpose \in Purposes, NEW p \in ProcessIds, NEW g \in Nat
  PROVE  /\ HostProbe(purpose, p, g) \in Probes
         /\ HostProbe(purpose, p, g).for = purpose
         /\ HostProbe(purpose, p, g).gen = g
         /\ HostProbe(purpose, p, g).proc = "Running"
  BY DEF Probes, HostProbe, IdleProbe, ProcessIds, NoPid, Purposes

LEMMA LifecycleProbeFacts ==
  ASSUME NEW purpose \in Purposes, NEW g \in Nat, NEW p \in LifecycleProbes(purpose, g)
  PROVE  p \in Probes /\ p.for = purpose /\ p.gen = g /\ p.proc = "Running"
<1>1. PICK h \in BOOLEAN : p = [HostProbe(purpose, NoPid, g) EXCEPT !.host = h]
  BY PlatformAssumption DEF LifecycleProbes
<1>2. /\ HostProbe(purpose, NoPid, g) \in Probes
      /\ HostProbe(purpose, NoPid, g).for = purpose
      /\ HostProbe(purpose, NoPid, g).gen = g
      /\ HostProbe(purpose, NoPid, g).proc = "Running"
  BY HostProbeFacts, ProbeFacts
<1>. QED
  BY <1>1, <1>2 DEF Probes

\* The session is over: what fail_game_launch() and finish_game_session() leave.
LEMMA IdleInv ==
  ASSUME IInv, NEW p \in Probes, NEW s \in Slots(Jobs, Nat), s.gen <= generation,
         NEW g \in Nat, g >= generation,
         phase' = "Idle", ClearSession(p, g), slot' = Terminated(s, "Cancelled"),
         announced' \in {"failed", "exited"},
         absences' \in Nat, game' \in GamePids \cup {NoPid}
  PROVE  IInv'
<1>1. Stopped(p) \in Probes /\ Stopped(p).for = "none"
  BY ProbeFacts
<1>2. /\ slot' \in Slots(Jobs, Nat)
      /\ slot'.gen = s.gen
      /\ Busy(slot') => slot'.forced = "Cancelled"
  BY SlotFacts DEF Busy
<1>3. TypeOK'
  <2>1. ModesOK'
    BY DEF IInv, TypeOK, ModesOK, ClearSession, NoRegistryFile, Phases
  <2>2. CountersOK'
    BY DEF CountersOK, ClearSession
  <2>3. ProcessesOK'
    BY <1>1, <1>2, ProbeFacts DEF ProcessesOK, ClearSession
  <2>. QED
    BY <2>1, <2>2, <2>3 DEF TypeOK
<1>4. launch' = "none" /\ monitor' = FALSE /\ probe'.for = "none" /\ registryFile' # "pending"
  BY <1>1 DEF ClearSession, NoRegistryFile
<1>5. slot'.gen <= generation'
  BY <1>2, SlotFacts DEF ClearSession, IInv, TypeOK, CountersOK
<1>6. ~Current'
  BY DEF Current, StagePhases, WatchedPhases
<1>. QED
  BY <1>2, <1>3, <1>4, <1>5, <1>6 DEF IInv, NeverStranded, ProbeBelongsToSession,
     LeftCommandsDoomed, TokenScrubbed, RegistryFileOwned, MonitorWatches, SlotMatchesPhase,
     WrapperBeginsFirst, AbsencesCounted, WatchedPhases, Unforced

LEMMA FailLaunchInv ==
  ASSUME IInv, NEW p \in Probes, NEW s \in {slot, FreeSlot}, FailLaunch(p, s),
         absences' \in Nat, game' \in GamePids \cup {NoPid}
  PROVE  IInv'
<1>1. generation \in Nat /\ slot \in Slots(Jobs, Nat) /\ slot.gen <= generation
  BY DEF IInv, TypeOK, CountersOK, ProcessesOK, SlotMatchesPhase
<1>2. FreeSlot \in Slots(Jobs, Nat) /\ FreeSlot.gen <= generation
  BY <1>1, SlotFacts
<1>. QED
  BY <1>1, <1>2, IdleInv DEF FailLaunch, Abandon

LEMMA FinishInv ==
  ASSUME IInv, NEW p \in Probes, FinishGameSession(p),
         absences' \in Nat, game' \in GamePids \cup {NoPid}
  PROVE  IInv'
<1>1. slot \in Slots(Jobs, Nat) /\ slot.gen <= generation /\ generation \in Nat
  BY DEF IInv, TypeOK, CountersOK, ProcessesOK, SlotMatchesPhase
<1>. QED
  BY <1>1, IdleInv DEF FinishGameSession

LEMMA UncertainInv ==
  ASSUME IInv, NEW p \in Probes, StopMonitoringUncertain(p),
         absences' \in Nat, game' \in GamePids \cup {NoPid}
  PROVE  IInv'
<1>1. Stopped(p) \in Probes /\ Stopped(p).for = "none"
  BY ProbeFacts
<1>2. TypeOK'
  <2>1. ModesOK'
    BY DEF IInv, TypeOK, ModesOK, StopMonitoringUncertain, ClearSession, NoRegistryFile, Phases
  <2>2. CountersOK'
    BY DEF IInv, TypeOK, CountersOK, StopMonitoringUncertain, ClearSession
  <2>3. ProcessesOK'
    BY <1>1, ProbeFacts DEF IInv, TypeOK, ProcessesOK, StopMonitoringUncertain, ClearSession
  <2>. QED
    BY <2>1, <2>2, <2>3 DEF TypeOK
<1>3. /\ phase' = "MonitoringUncertain" /\ launch' = "none" /\ monitor' = FALSE
      /\ probe'.for = "none" /\ registryFile' # "pending"
  BY <1>1 DEF StopMonitoringUncertain, ClearSession, NoRegistryFile
<1>4. /\ slot' = slot
      /\ generation' = generation + 1
      /\ generation \in Nat
      /\ slot.gen \in Nat
      /\ slot.gen <= generation
      /\ Busy(slot) => slot.job = "game" /\ slot.forced = Unforced
  BY SlotFacts DEF StopMonitoringUncertain, ClearSession, IInv, TypeOK, CountersOK, ProcessesOK,
     SlotMatchesPhase, Current, StagePhases, WatchedPhases
<1>5. ~Current'
  BY <1>3 DEF Current, StagePhases, WatchedPhases
<1>. QED
  BY <1>2, <1>3, <1>4, <1>5 DEF IInv, NeverStranded, ProbeBelongsToSession,
     LeftCommandsDoomed, TokenScrubbed, RegistryFileOwned, MonitorWatches, SlotMatchesPhase,
     WrapperBeginsFirst, AbsencesCounted, WatchedPhases, StartingPhases, Busy

\* A game is attached to: from a preflight, from a poll while launching, or when an
\* existing one is detected in Idle.
LEMMA AttachInv ==
  ASSUME IInv, NEW q \in {IdleProbe, KilledProbe}, NEW p \in ProcessIds, NEW g \in Nat,
         Attach(q, p, g),
         phase # "Idle" => g = generation,
         phase = "Idle" => g >= generation /\ ~Busy(slot),
         phase = "Launching" => probe.for = "poll",
         absences' \in Nat, game' \in GamePids \cup {NoPid}
  PROVE  IInv'
<1>1. /\ probe' \in Probes
      /\ probe'.for \in {"none", "hostpid"}
      /\ probe'.for # "none" => probe'.proc = "Running"
  <2>1. "hostpid" \in Purposes
    BY DEF Purposes
  <2>2. /\ HostProbe("hostpid", p, g) \in Probes
        /\ HostProbe("hostpid", p, g).for = "hostpid"
        /\ HostProbe("hostpid", p, g).proc = "Running"
    BY <2>1, HostProbeFacts
  <2>3. probe' \in {q, HostProbe("hostpid", p, g)}
    BY DEF Attach, Refreshed
  <2>. QED
    BY <2>2, <2>3, ProbeFacts
<1>2. TypeOK'
  <2>1. ModesOK'
    BY DEF IInv, TypeOK, ModesOK, Attach, Scrubbed, Phases
  <2>2. CountersOK'
    BY DEF IInv, TypeOK, CountersOK, Attach
  <2>3. ProcessesOK'
    BY <1>1, ProbeFacts DEF IInv, TypeOK, ProcessesOK, Attach
  <2>. QED
    BY <2>1, <2>2, <2>3 DEF TypeOK
<1>3. /\ phase' = "Running" /\ launch' # "held" /\ monitor' = TRUE /\ missing' = 0
      /\ registryFile' = registryFile /\ slot' = slot /\ generation' = g
  BY DEF Attach, Scrubbed
<1>4. phase \in {"Idle", "Preflight", "Launching"} /\ generation \in Nat /\ slot.gen \in Nat
  BY SlotFacts DEF Attach, IInv, TypeOK, CountersOK, ProcessesOK
<1>5. registryFile' # "pending"
  BY <1>3, <1>4 DEF IInv, RegistryFileOwned
<1>6. Busy(slot) =>
        phase = "Launching" /\ slot.job = "game" /\ slot.gen = g /\ slot.forced = Unforced
        /\ slot.started
  BY <1>4 DEF IInv, SlotMatchesPhase, WrapperBeginsFirst, Current, StagePhases, WatchedPhases
<1>7. SlotMatchesPhase'
  BY <1>3, <1>4, <1>6 DEF IInv, SlotMatchesPhase, Current, StagePhases, WatchedPhases, Busy
<1>8. LeftCommandsDoomed' /\ WrapperBeginsFirst'
  BY <1>3, <1>6 DEF LeftCommandsDoomed, WrapperBeginsFirst, Current, StagePhases,
     WatchedPhases, Busy
<1>9. AbsencesCounted'
  BY <1>3, LimitsAssumption DEF AbsencesCounted
<1>. QED
  BY <1>1, <1>2, <1>3, <1>5, <1>7, <1>8, <1>9 DEF IInv, NeverStranded,
     ProbeBelongsToSession, TokenScrubbed, RegistryFileOwned, MonitorWatches, WatchedPhases

(***************************************************************************)
(* Progress of a launch.                                                   *)
(***************************************************************************)

\* In which phases each kind of probe can be active.
LEMMA NoProbeInStages ==
  ASSUME IInv, phase \in {"CleaningPrefix", "FirstLaunchSetup"}
  PROVE  probe \in Probes /\ probe.for = "none"
BY DEF IInv, TypeOK, ProcessesOK, ProbeBelongsToSession, WatchedPhases, Probes, Purposes

\* A stage's command is accepted, or the launch fails.
LEMMA StageInv ==
  ASSUME IInv, NEW p \in Probes, p.for = "none", NEW s \in {slot, FreeSlot},
         NEW next, NEW job,
         \/ next = "CleaningPrefix" /\ job \in {"kill", "wait"}
         \/ next = "FirstLaunchSetup" /\ job = "query",
         phase \in {"Preflight", "CleaningPrefix"},
         StartStage(next, job, p, s),
         absences' \in Nat, game' \in GamePids \cup {NoPid}
  PROVE  IInv'
<1>1. CASE FailLaunch(p, s)
  BY <1>1, FailLaunchInv
<1>2. CASE ~FailLaunch(p, s)
  <2>1. /\ phase' = next
        /\ slot' = Accepted(job, generation)
        /\ probe' = p
        /\ UNCHANGED <<generation, launch, registryFile, wrapper, attempts, probeFailures,
                       missing, trackedPid, trackedHost, monitor, announced>>
    BY <1>2 DEF StartStage, counters, tracked
  <2>2. generation \in Nat /\ job \in Jobs
    BY DEF IInv, TypeOK, CountersOK, Jobs, StageJobs
  <2>3. /\ slot' \in Slots(Jobs, Nat)
        /\ slot'.job = job
        /\ slot'.gen = generation
        /\ slot'.started = FALSE
        /\ Busy(slot')
    BY <2>1, <2>2, AcceptedFacts
  <2>4. TypeOK'
    <3>1. ModesOK'
      BY <2>1 DEF IInv, TypeOK, ModesOK, Phases
    <3>2. CountersOK'
      BY <2>1 DEF IInv, TypeOK, CountersOK
    <3>3. ProcessesOK'
      BY <2>1, <2>3 DEF IInv, TypeOK, ProcessesOK
    <3>. QED
      BY <3>1, <3>2, <3>3 DEF TypeOK
  <2>5. Current'
    BY <2>1, <2>3 DEF Current, StagePhases
  <2>6. monitor' = FALSE /\ registryFile' # "pending"
    BY <2>1 DEF IInv, TypeOK, ModesOK, MonitorWatches, WatchedPhases, RegistryFileOwned
  <2>. QED
    BY <2>1, <2>2, <2>3, <2>4, <2>5, <2>6 DEF IInv, NeverStranded, ProbeBelongsToSession,
       LeftCommandsDoomed, TokenScrubbed, RegistryFileOwned, MonitorWatches, SlotMatchesPhase,
       WrapperBeginsFirst, AbsencesCounted, WatchedPhases, StartingPhases
<1>. QED
  BY <1>1, <1>2

\* Whichever way the launch takes, the wrapper is started or the launch fails.
LEMMA LaunchSteps ==
  \A p, s : LaunchPendingGame(p, s) => StartWrapper(p, s)
BY DEF LaunchPendingGame, LaunchRefused, MacLaunchRefused, LaunchWithProton, LaunchWithWine,
   StartWrapper

\* The wrapper is started, or the launch fails.
LEMMA LaunchInv ==
  ASSUME IInv, LaunchPendingGame(probe, FreeSlot),
         absences' \in Nat, game' \in GamePids \cup {NoPid}
  PROVE  IInv'
<1>0. phase = "FirstLaunchSetup" /\ probe \in Probes /\ probe.for = "none"
  BY NoProbeInStages DEF LaunchPendingGame
<1>1. CASE FailLaunch(probe, FreeSlot)
  BY <1>0, <1>1, FailLaunchInv
<1>2. CASE ~FailLaunch(probe, FreeSlot)
  <2>1. /\ phase' = "Launching"
        /\ slot' = Accepted("game", generation)
        /\ wrapper' = "NotStarted"
        /\ attempts' = 0
        /\ probeFailures' = 0
        /\ missing' = 0
        /\ trackedPid' = NoPid
        /\ trackedHost' = NoPid
        /\ registryFile' = NoRegistryFile
        /\ probe' = probe
        /\ UNCHANGED <<generation, launch, monitor, announced>>
    BY <1>2, LaunchSteps DEF StartWrapper
  <2>2. generation \in Nat /\ "game" \in Jobs
    BY DEF IInv, TypeOK, CountersOK, Jobs
  <2>3. /\ slot' \in Slots(Jobs, Nat)
        /\ slot'.job = "game"
        /\ slot'.gen = generation
        /\ slot'.started = FALSE
        /\ slot'.forced = Unforced
        /\ Busy(slot')
    BY <2>1, <2>2, AcceptedFacts
  <2>4. TypeOK'
    <3>1. ModesOK'
      BY <2>1 DEF IInv, TypeOK, ModesOK, Phases, NoRegistryFile
    <3>2. CountersOK'
      BY <2>1 DEF IInv, TypeOK, CountersOK
    <3>3. ProcessesOK'
      BY <2>1, <2>3, ProbeFacts DEF IInv, TypeOK, ProcessesOK
    <3>. QED
      BY <3>1, <3>2, <3>3 DEF TypeOK
  <2>5. Current'
    BY <2>1, <2>3 DEF Current, StagePhases, WatchedPhases
  <2>6. monitor' = FALSE /\ registryFile' # "pending"
    BY <1>0, <2>1 DEF IInv, TypeOK, ModesOK, MonitorWatches, WatchedPhases, NoRegistryFile
  <2>. QED
    BY <1>0, <2>1, <2>2, <2>3, <2>4, <2>5, <2>6 DEF IInv, NeverStranded,
       ProbeBelongsToSession, LeftCommandsDoomed, TokenScrubbed, RegistryFileOwned,
       MonitorWatches, SlotMatchesPhase, WrapperBeginsFirst, AbsencesCounted, WatchedPhases,
       StartingPhases
<1>. QED
  BY <1>1, <1>2

(***************************************************************************)
(* Answers of the probe.                                                   *)
(***************************************************************************)

\* A poll is answered and the session goes on watching.
LEMMA WatchInv ==
  ASSUME IInv, phase \in WatchedPhases, probe.for = "poll",
         probe' \in Probes,
         \/ probe'.for = "none"
         \/ probe'.for = "hostpid" /\ probe'.proc = "Running" /\ phase = "Running",
         monitor' = TRUE,
         UNCHANGED <<phase, generation, launch, registryFile, wrapper, slot, announced>>,
         attempts' \in Nat, probeFailures' \in Nat, missing' \in Nat, absences' \in Nat,
         trackedPid' \in ProcessIds, trackedHost' \in ProcessIds,
         game' \in GamePids \cup {NoPid},
         phase = "Running" => missing' < MissingLimit /\ missing' <= absences'
  PROVE  IInv'
<1>1. TypeOK'
  <2>1. ModesOK'
    BY DEF IInv, TypeOK, ModesOK
  <2>2. CountersOK'
    BY DEF IInv, TypeOK, CountersOK
  <2>3. ProcessesOK'
    BY DEF IInv, TypeOK, ProcessesOK
  <2>. QED
    BY <2>1, <2>2, <2>3 DEF TypeOK
<1>2. Current' <=> Current
  BY DEF Current
<1>3. ~(Current /\ slot.job = "game" /\ ~slot.started)
  BY DEF IInv, WrapperBeginsFirst
<1>. QED
  BY <1>1, <1>2, <1>3 DEF IInv, NeverStranded, ProbeBelongsToSession, LeftCommandsDoomed,
     TokenScrubbed, RegistryFileOwned, MonitorWatches, SlotMatchesPhase, WrapperBeginsFirst,
     AbsencesCounted, WatchedPhases

\* Only the probe changes: it is gone, or still at work for the same purpose.
LEMMA KeepInv ==
  ASSUME IInv, probe' \in Probes,
         \/ probe'.for = "none" /\ probe.for \notin {"preflight", "poll"}
         \/ probe'.for = probe.for /\ probe'.gen = probe.gen /\ probe'.proc = probe.proc,
         UNCHANGED <<session, slot, announced>>,
         absences' \in Nat, phase = "Running" => absences' = absences,
         game' \in GamePids \cup {NoPid}
  PROVE  IInv'
<1>1. TypeOK'
  <2>1. ModesOK'
    BY DEF IInv, TypeOK, ModesOK, session
  <2>2. CountersOK'
    BY DEF IInv, TypeOK, CountersOK, session, counters
  <2>3. ProcessesOK'
    BY DEF IInv, TypeOK, ProcessesOK, session, tracked
  <2>. QED
    BY <2>1, <2>2, <2>3 DEF TypeOK
<1>2. UNCHANGED <<phase, generation, launch, registryFile, missing, monitor, slot>>
  BY DEF session, counters
<1>3. Current' <=> Current
  BY <1>2 DEF Current
<1>. QED
  BY <1>1, <1>2, <1>3 DEF IInv, NeverStranded, ProbeBelongsToSession, LeftCommandsDoomed,
     TokenScrubbed, RegistryFileOwned, MonitorWatches, SlotMatchesPhase, WrapperBeginsFirst,
     AbsencesCounted, WatchedPhases

LEMMA PollInv ==
  ASSUME IInv, NEW q \in {IdleProbe, KilledProbe}, NEW ok \in BOOLEAN, NEW seen \in ProcessIds,
         phase \in WatchedPhases, probe.for = "poll", PollAnswered(q, ok, seen),
         absences' = Absences(ok, seen), game' \in GamePids \cup {NoPid}
  PROVE  IInv'
<1>1. q \in Probes /\ q.for = "none"
  BY ProbeFacts
<1>2. /\ generation \in Nat /\ attempts \in Nat /\ probeFailures \in Nat /\ missing \in Nat
      /\ absences \in Nat
      /\ trackedPid \in ProcessIds /\ trackedHost \in ProcessIds
  BY DEF IInv, TypeOK, CountersOK, ProcessesOK
<1>3. /\ MissingLimit \in Nat /\ MissingLimit > 0
      /\ phase = "Running" => missing < MissingLimit /\ missing <= absences
      /\ absences' \in Nat
  BY <1>2, LimitsAssumption DEF IInv, AbsencesCounted, Absences
<1>4. \/ FailLaunch(q, slot)
      \/ StopMonitoringUncertain(q)
      \/ FinishGameSession(q)
      \/ phase = "Launching" /\ Attach(q, seen, generation)
      => IInv'
  BY <1>1, <1>2, <1>3, FailLaunchInv, UncertainInv, FinishInv, AttachInv
<1>5. ASSUME Rearm(q), attempts' \in Nat, probeFailures' \in Nat,
             phase = "Running" => missing <= absences'
      PROVE  IInv'
  <2>1. /\ probe' = q /\ monitor' = TRUE /\ missing' = missing
        /\ trackedPid' = trackedPid /\ trackedHost' = trackedHost
        /\ UNCHANGED <<phase, generation, launch, registryFile, wrapper, slot, announced>>
    BY <1>5 DEF Rearm, tracked
  <2>. QED
    BY <1>1, <1>2, <1>3, <1>5, <2>1, WatchInv
<1>6. CASE ~ok
  <2>1. OnProbeFailure(q)
    BY <1>6 DEF PollAnswered
  <2>2. absences' = absences
    BY <1>6 DEF Absences
  <2>3. ASSUME Rearm(q), probeFailures' = probeFailures + 1, UNCHANGED attempts
        PROVE  IInv'
    BY <1>2, <1>3, <1>5, <2>2, <2>3
  <2>. QED
    BY <1>4, <2>1, <2>3 DEF OnProbeFailure
<1>7. CASE ok /\ seen # NoPid
  <2>1. CASE phase = "Launching"
    BY <1>4, <1>7, <2>1 DEF PollAnswered
  <2>2. CASE phase # "Launching"
    <3>1. OnProcessSeen(q, seen) /\ phase = "Running"
      BY <1>7, <2>2 DEF PollAnswered, WatchedPhases
    <3>2. PICK host \in ProcessIds : trackedHost' = host
                                     /\ probe' = Refreshed(q, seen, host, generation)
      BY <1>2, <3>1, ProbeFacts DEF OnProcessSeen
    <3>3. /\ HostProbe("hostpid", seen, generation) \in Probes
          /\ HostProbe("hostpid", seen, generation).for = "hostpid"
          /\ HostProbe("hostpid", seen, generation).proc = "Running"
      BY <1>2, HostProbeFacts DEF Purposes
    <3>4. /\ probe' \in Probes
          /\ probe'.for = "none" \/ (probe'.for = "hostpid" /\ probe'.proc = "Running")
      BY <1>1, <3>2, <3>3 DEF Refreshed
    <3>5. /\ probeFailures' = 0 /\ missing' = 0 /\ attempts' = attempts
          /\ trackedPid' = seen /\ monitor' = TRUE
          /\ UNCHANGED <<phase, generation, launch, registryFile, wrapper, slot, announced>>
      BY <3>1 DEF OnProcessSeen
    <3>. QED
      BY <1>2, <1>3, <3>1, <3>2, <3>4, <3>5, WatchInv
  <2>. QED
    BY <2>1, <2>2
<1>8. CASE ok /\ seen = NoPid
  <2>1. CASE phase = "Running"
    <3>1. OnProcessMissing(q)
      BY <1>8, <2>1 DEF PollAnswered
    <3>2. CASE Gone(Missed)
      BY <1>4, <3>1, <3>2 DEF OnProcessMissing
    <3>3. CASE ~Gone(Missed)
      <4>1. /\ missing' = missing + 1 /\ missing' < MissingLimit
            /\ attempts' = attempts /\ probeFailures' = probeFailures
            /\ trackedPid' = trackedPid /\ trackedHost' = trackedHost
            /\ monitor' = TRUE /\ probe' = q
            /\ UNCHANGED <<phase, generation, launch, registryFile, wrapper, slot, announced>>
        BY <1>2, <1>3, <3>1, <3>3 DEF OnProcessMissing, Gone, Missed, tracked
      <4>2. missing' <= absences'
        BY <1>2, <1>3, <1>8, <2>1, <4>1 DEF Absences
      <4>. QED
        BY <1>1, <1>2, <1>3, <4>1, <4>2, WatchInv
    <3>. QED
      BY <3>2, <3>3
  <2>2. CASE phase # "Running"
    <3>1. OnStillLaunching(q)
      BY <1>8, <2>2 DEF PollAnswered
    <3>2. ASSUME Rearm(q), attempts' = Tried, UNCHANGED probeFailures
          PROVE  IInv'
      BY <1>2, <1>5, <2>2, <3>2 DEF Tried
    <3>. QED
      BY <1>4, <3>1, <3>2 DEF OnStillLaunching
  <2>. QED
    BY <2>1, <2>2
<1>. QED
  BY <1>6, <1>7, <1>8

LEMMA PreflightInv ==
  ASSUME IInv, NEW q \in {IdleProbe, KilledProbe}, NEW ok \in BOOLEAN, NEW seen \in ProcessIds,
         phase = "Preflight", PreflightAnswered(q, ok, seen),
         absences' \in Nat, game' \in GamePids \cup {NoPid}
  PROVE  IInv'
<1>1. q \in Probes /\ q.for = "none" /\ generation \in Nat
  BY ProbeFacts DEF IInv, TypeOK, CountersOK
<1>2. \/ FailLaunch(q, slot)
      \/ Attach(q, seen, generation)
      \/ StartStage("FirstLaunchSetup", "query", q, slot)
      \/ StartStage("CleaningPrefix", "kill", q, slot)
  BY DEF PreflightAnswered, CleanStalePrefixProcesses, BeginFirstLaunchSetup
<1>. QED
  BY <1>1, <1>2, FailLaunchInv, AttachInv, StageInv

LEMMA DeliverInv ==
  ASSUME IInv, NEW q \in {IdleProbe, KilledProbe}, NEW ok \in BOOLEAN, NEW seen \in ProcessIds,
         probe.for # "none", Deliver(q, ok, seen), UNCHANGED game
  PROVE  IInv'
<1>1. /\ q \in Probes /\ q.for = "none" /\ probe \in Probes
      /\ generation \in Nat /\ absences \in Nat /\ game \in GamePids \cup {NoPid}
  BY ProbeFacts DEF IInv, TypeOK, CountersOK, ProcessesOK
<1>2. /\ absences' = IF probe.for = "hostpid" THEN absences ELSE Absences(ok, seen)
      /\ absences' \in Nat
      /\ game' \in GamePids \cup {NoPid}
  BY <1>1, LimitsAssumption DEF Deliver, Absences
<1>3. CASE ~Heeded(ok, seen)
  <2>1. probe' = q /\ UNCHANGED <<session, slot, announced>>
    BY <1>3 DEF Deliver, Keep
  <2>2. probe.for \notin {"preflight", "poll"}
    BY <1>3 DEF Heeded, IInv, ProbeBelongsToSession
  <2>3. phase = "Running" => probe.for = "hostpid"
    BY <1>1, <2>2 DEF IInv, ProbeBelongsToSession, Probes, Purposes
  <2>. QED
    BY <1>1, <1>2, <2>1, <2>2, <2>3, KeepInv
<1>4. CASE Heeded(ok, seen)
  <2>1. CASE probe.for = "preflight"
    <3>1. PreflightAnswered(q, ok, seen) /\ phase = "Preflight"
      BY <1>4, <2>1 DEF Deliver, Heeded
    <3>. QED
      BY <1>2, <3>1, PreflightInv
  <2>2. CASE probe.for = "poll"
    <3>1. PollAnswered(q, ok, seen) /\ phase \in WatchedPhases
      BY <1>4, <2>2 DEF Deliver, Heeded
    <3>. QED
      BY <1>2, <2>2, <3>1, PollInv
  <2>3. CASE probe.for = "detect"
    <3>1. Attach(q, seen, generation + 1) /\ phase = "Idle" /\ ~Busy(slot)
      BY <1>4, <2>3 DEF Deliver, Heeded
    <3>. QED
      BY <1>1, <1>2, <3>1, AttachInv
  <2>4. CASE probe.for = "hostpid"
    <3>1. HostPidAnswered(q, seen) /\ phase = "Running"
      BY <1>4, <2>4 DEF Deliver, Heeded
    <3>2. /\ trackedHost' = seen /\ probe' = q /\ absences' = absences
          /\ UNCHANGED <<phase, generation, launch, registryFile, wrapper, attempts,
                         probeFailures, missing, trackedPid, monitor, slot, announced>>
      BY <1>2, <2>4, <3>1 DEF HostPidAnswered, counters
    <3>3. TypeOK'
      <4>1. ModesOK'
        BY <3>2 DEF IInv, TypeOK, ModesOK
      <4>2. CountersOK'
        BY <3>2 DEF IInv, TypeOK, CountersOK
      <4>3. ProcessesOK'
        BY <1>1, <1>2, <3>2 DEF IInv, TypeOK, ProcessesOK
      <4>. QED
        BY <4>1, <4>2, <4>3 DEF TypeOK
    <3>4. Current' <=> Current
      BY <3>2 DEF Current
    <3>. QED
      BY <1>1, <2>4, <3>1, <3>2, <3>3, <3>4 DEF IInv, NeverStranded, ProbeBelongsToSession,
         LeftCommandsDoomed, TokenScrubbed, RegistryFileOwned, MonitorWatches,
         SlotMatchesPhase, WrapperBeginsFirst, AbsencesCounted, WatchedPhases
  <2>. QED
    BY <1>1, <2>1, <2>2, <2>3, <2>4 DEF Probes, Purposes
<1>. QED
  BY <1>3, <1>4

LEMMA AnswerInv ==
  ASSUME IInv, NEW q \in {IdleProbe, KilledProbe}, NEW ok \in BOOLEAN, NEW seen \in ProcessIds,
         probe.for # "none", Answer(q, ok, seen)
  PROVE  IInv'
<1>1. UNCHANGED game
  BY DEF Answer
<1>2. /\ probe \in Probes /\ NoPid \in ProcessIds /\ probe.host \in BOOLEAN
      /\ probe.tasklistOk \in BOOLEAN
  BY ProbeFacts DEF IInv, TypeOK, ProcessesOK, Probes
<1>3. ASSUME NEW final \in BOOLEAN, Deliver(q, final, seen)
      PROVE  IInv'
  BY <1>1, <1>3, DeliverInv
<1>4. CASE Deliver(q, ok \/ probe.tasklistOk, seen)
  <2>1. (ok \/ probe.tasklistOk) \in BOOLEAN
    OBVIOUS
  <2>. QED
    BY <1>3, <1>4, <2>1
<1>5. CASE Deliver(q, TRUE, seen)
  BY <1>3, <1>5
<1>6. CASE Deliver(q, ok, NoPid)
  BY <1>1, <1>2, <1>6, DeliverInv
<1>7. CASE /\ Keep([HostProbe(probe.for, probe.expected, probe.gen) EXCEPT !.tasklistOk = ok])
           /\ UNCHANGED absences
  <2>1. /\ probe.for \in Purposes /\ probe.expected \in ProcessIds /\ probe.gen \in Nat
        /\ probe.proc = "Running"
    BY <1>2 DEF Probes
  <2>2. /\ HostProbe(probe.for, probe.expected, probe.gen) \in Probes
        /\ HostProbe(probe.for, probe.expected, probe.gen).for = probe.for
        /\ HostProbe(probe.for, probe.expected, probe.gen).gen = probe.gen
        /\ HostProbe(probe.for, probe.expected, probe.gen).proc = "Running"
    BY <2>1, HostProbeFacts
  <2>3. /\ probe' \in Probes /\ probe'.for = probe.for /\ probe'.gen = probe.gen
        /\ probe'.proc = probe.proc
    BY <1>7, <2>1, <2>2 DEF Keep, Probes
  <2>4. UNCHANGED <<session, slot, announced>> /\ absences' = absences
    BY <1>7 DEF Keep
  <2>5. absences \in Nat /\ game' \in GamePids \cup {NoPid}
    BY <1>1 DEF IInv, TypeOK, CountersOK, ProcessesOK
  <2>. QED
    BY <2>3, <2>4, <2>5, KeepInv
<1>. QED
  BY <1>4, <1>5, <1>6, <1>7 DEF Answer

(***************************************************************************)
(* The actions.                                                            *)
(***************************************************************************)

LEMMA RunGameInv == IInv /\ RunGame => IInv'
<1>. SUFFICES ASSUME IInv, RunGame
     PROVE  IInv'
  OBVIOUS
<1>1. /\ phase = "Idle" /\ probe.for = "none" /\ ~Busy(slot) /\ absences' = 0 /\ game' = game
      /\ probe \in Probes /\ slot \in Slots(Jobs, Nat) /\ slot.gen <= generation
      /\ generation \in Nat /\ game \in GamePids \cup {NoPid}
  BY DEF RunGame, SessionBusy, IInv, TypeOK, CountersOK, ProcessesOK, SlotMatchesPhase
<1>2. CASE Abandon(probe, slot, generation + 1)
  BY <1>1, <1>2, IdleInv DEF Abandon
<1>3. CASE ~Abandon(probe, slot, generation + 1)
  <2>1. /\ phase' = "Preflight"
        /\ generation' = generation + 1
        /\ launch' = "held"
        /\ probe' \in LifecycleProbes("preflight", generation + 1)
        /\ announced' = "starting"
        /\ UNCHANGED <<registryFile, wrapper, attempts, probeFailures, missing, trackedPid,
                       trackedHost, monitor, slot>>
    BY <1>3 DEF RunGame, counters, tracked
  <2>2. /\ probe' \in Probes /\ probe'.for = "preflight" /\ probe'.gen = generation + 1
        /\ probe'.proc = "Running"
    BY <1>1, <2>1, LifecycleProbeFacts DEF Purposes
  <2>3. TypeOK'
    <3>1. ModesOK'
      BY <2>1 DEF IInv, TypeOK, ModesOK, Phases
    <3>2. CountersOK'
      BY <1>1, <2>1 DEF IInv, TypeOK, CountersOK
    <3>3. ProcessesOK'
      BY <1>1, <2>1, <2>2 DEF IInv, TypeOK, ProcessesOK
    <3>. QED
      BY <3>1, <3>2, <3>3 DEF TypeOK
  <2>4. ~Busy(slot') /\ slot'.gen <= generation' /\ slot \in Slots(Jobs, Nat)
    <3>1. slot.gen \in Nat
      BY <1>1, SlotFacts
    <3>. QED
      BY <1>1, <2>1, <3>1 DEF Busy
  <2>5. monitor' = FALSE /\ registryFile' # "pending"
    BY <1>1, <2>1 DEF IInv, TypeOK, ModesOK, MonitorWatches, RegistryFileOwned, WatchedPhases
  <2>. QED
    BY <2>1, <2>2, <2>3, <2>4, <2>5 DEF IInv, NeverStranded, ProbeBelongsToSession,
       LeftCommandsDoomed, TokenScrubbed, RegistryFileOwned, MonitorWatches, SlotMatchesPhase,
       WrapperBeginsFirst, AbsencesCounted, WatchedPhases, StartingPhases, Current, Busy
<1>. QED
  BY <1>2, <1>3

LEMMA StageDoneInv ==
  IInv /\ (CleanupDone \/ ShutdownDone \/ QueryDone \/ ImportDone) => IInv'
<1>. SUFFICES ASSUME IInv, CleanupDone \/ ShutdownDone \/ QueryDone \/ ImportDone
     PROVE  IInv'
  OBVIOUS
<1>1. /\ Current /\ UNCHANGED <<game, absences>>
      /\ slot.job \in {"kill", "wait", "query", "import"}
  BY DEF CleanupDone, ShutdownDone, QueryDone, ImportDone, Completion
<1>2. /\ phase \in {"CleaningPrefix", "FirstLaunchSetup"}
      /\ slot.job \in {"kill", "wait"} => phase = "CleaningPrefix"
      /\ slot.job \in {"query", "import"} => phase = "FirstLaunchSetup"
  BY <1>1 DEF Current, StagePhases
<1>3. /\ probe \in Probes /\ probe.for = "none" /\ generation \in Nat
      /\ absences' \in Nat /\ game' \in GamePids \cup {NoPid}
  BY <1>1, <1>2, NoProbeInStages DEF IInv, TypeOK, CountersOK, ProcessesOK
<1>4. CASE FailLaunch(probe, FreeSlot)
  BY <1>3, <1>4, FailLaunchInv
<1>5. CASE LaunchPendingGame(probe, FreeSlot)
  BY <1>3, <1>5, LaunchInv
<1>6. CASE CleanupDone
  <2>1. phase = "CleaningPrefix"
    BY <1>2, <1>6 DEF CleanupDone, Completion
  <2>2. CASE StartStage("CleaningPrefix", "wait", probe, FreeSlot)
    BY <1>3, <2>1, <2>2, StageInv
  <2>. QED
    BY <1>4, <1>6, <2>2 DEF CleanupDone
<1>7. CASE ShutdownDone
  <2>1. phase = "CleaningPrefix"
    BY <1>2, <1>7 DEF ShutdownDone, Completion
  <2>2. CASE BeginFirstLaunchSetup(probe, FreeSlot)
    BY <1>3, <2>1, <2>2, StageInv DEF BeginFirstLaunchSetup
  <2>. QED
    BY <1>4, <1>7, <2>2 DEF ShutdownDone
<1>8. CASE QueryDone
  <2>1. CASE /\ slot' = Accepted("import", generation)
             /\ registryFile' = "pending"
             /\ UNCHANGED <<phase, generation, launch, wrapper, counters, tracked, monitor,
                            probe, announced>>
    <3>1. phase = "FirstLaunchSetup"
      BY <1>2, <1>8 DEF QueryDone, Completion
    <3>2. /\ slot' \in Slots(Jobs, Nat) /\ slot'.job = "import" /\ slot'.gen = generation
          /\ Busy(slot')
      BY <1>3, <2>1, AcceptedFacts DEF Jobs, StageJobs
    <3>3. UNCHANGED <<phase, generation, launch, wrapper, attempts, probeFailures, missing,
                      trackedPid, trackedHost, monitor, probe, announced>>
      BY <2>1 DEF counters, tracked
    <3>4. TypeOK'
      <4>1. ModesOK'
        BY <2>1, <3>3 DEF IInv, TypeOK, ModesOK
      <4>2. CountersOK'
        BY <1>3, <3>3 DEF IInv, TypeOK, CountersOK
      <4>3. ProcessesOK'
        BY <1>3, <3>2, <3>3 DEF IInv, TypeOK, ProcessesOK
      <4>. QED
        BY <4>1, <4>2, <4>3 DEF TypeOK
    <3>5. Current'
      BY <3>1, <3>2, <3>3 DEF Current, StagePhases
    <3>. QED
      BY <1>3, <3>1, <3>2, <3>3, <3>4, <3>5 DEF IInv, NeverStranded, ProbeBelongsToSession,
         LeftCommandsDoomed, TokenScrubbed, RegistryFileOwned, MonitorWatches,
         SlotMatchesPhase, WrapperBeginsFirst, AbsencesCounted, WatchedPhases
  <2>. QED
    BY <1>4, <1>5, <1>8, <2>1 DEF QueryDone
<1>9. CASE ImportDone
  BY <1>4, <1>5, <1>9 DEF ImportDone
<1>. QED
  BY <1>6, <1>7, <1>8, <1>9

\* The wrapper begins, ends, or a command that nobody waits for comes and goes:
\* the slot changes, and with it at most the wrapper's state and the monitor timer.
LEMMA SlotInv ==
  ASSUME IInv, WrapperFinishes \/ StaleCommandDone \/ SlotBegins \/ SlotTimesOut
               \/ OtherCommandStarts
  PROVE  IInv'
<1>1. /\ generation \in Nat /\ probe \in Probes /\ slot \in Slots(Jobs, Nat)
      /\ slot.gen \in Nat /\ slot.gen <= generation
      /\ absences \in Nat /\ game \in GamePids \cup {NoPid}
  BY SlotFacts DEF IInv, TypeOK, CountersOK, ProcessesOK, SlotMatchesPhase
<1>2. /\ FreeSlot \in Slots(Jobs, Nat) /\ FreeSlot.gen = 0 /\ ~Busy(FreeSlot)
  BY <1>1, SlotFacts
<1>3. CASE WrapperFinishes
  <2>1. Current /\ slot.job = "game" /\ UNCHANGED <<game, absences>> /\ phase \in WatchedPhases
    BY <1>3 DEF WrapperFinishes, Completion, Current, StagePhases
  <2>2. CASE FailLaunch(probe, FreeSlot)
    BY <1>1, <2>1, <2>2, FailLaunchInv
  <2>3. CASE /\ wrapper' = "Finished"
             /\ monitor' = TRUE
             /\ slot' = FreeSlot
             /\ UNCHANGED <<phase, generation, launch, registryFile, counters, tracked,
                            probe, announced>>
    <3>1. UNCHANGED <<phase, generation, launch, registryFile, attempts, probeFailures, missing,
                      trackedPid, trackedHost, probe, announced, game, absences>>
      BY <2>1, <2>3 DEF counters, tracked
    <3>2. TypeOK'
      <4>1. ModesOK'
        BY <2>3, <3>1 DEF IInv, TypeOK, ModesOK
      <4>2. CountersOK'
        BY <3>1 DEF IInv, TypeOK, CountersOK
      <4>3. ProcessesOK'
        BY <1>2, <2>3, <3>1 DEF IInv, TypeOK, ProcessesOK
      <4>. QED
        BY <4>1, <4>2, <4>3 DEF TypeOK
    <3>3. ~Busy(slot') /\ ~Current'
      BY <1>2, <2>3 DEF Current, Busy
    <3>. QED
      BY <1>1, <1>2, <2>1, <2>3, <3>1, <3>2, <3>3 DEF IInv, NeverStranded,
         ProbeBelongsToSession, LeftCommandsDoomed, TokenScrubbed, RegistryFileOwned,
         MonitorWatches, SlotMatchesPhase, WrapperBeginsFirst, AbsencesCounted, WatchedPhases
  <2>. QED
    BY <1>3, <2>2, <2>3 DEF WrapperFinishes
<1>4. ASSUME UNCHANGED <<session, probe, game, announced, absences>>,
             slot' \in Slots(Jobs, Nat), slot'.gen <= generation,
             \/ ~Current /\ ~Busy(slot')
             \/ phase = "Idle" /\ slot'.job = "other"
             \/ /\ slot.job # "game" /\ Busy(slot) /\ Busy(slot')
                /\ slot'.job = slot.job /\ slot'.gen = slot.gen
                /\ slot'.forced = "TimedOut"
      PROVE  IInv'
  <2>1. UNCHANGED <<phase, generation, launch, registryFile, wrapper, attempts, probeFailures,
                    missing, trackedPid, trackedHost, monitor, probe, announced, game, absences>>
    BY <1>4 DEF session, counters, tracked
  <2>2. TypeOK'
    <3>1. ModesOK'
      BY <2>1 DEF IInv, TypeOK, ModesOK
    <3>2. CountersOK'
      BY <2>1 DEF IInv, TypeOK, CountersOK
    <3>3. ProcessesOK'
      BY <1>4, <2>1 DEF IInv, TypeOK, ProcessesOK
    <3>. QED
      BY <3>1, <3>2, <3>3 DEF TypeOK
  <2>3. CASE ~Current /\ ~Busy(slot')
    <3>1. ~Busy(slot') /\ ~Current' /\ slot'.gen <= generation'
      BY <1>4, <2>1, <2>3 DEF Current, Busy
    <3>. QED
      BY <2>1, <2>2, <2>3, <3>1 DEF IInv, NeverStranded, ProbeBelongsToSession,
         LeftCommandsDoomed, TokenScrubbed, RegistryFileOwned, MonitorWatches,
         SlotMatchesPhase, WrapperBeginsFirst, AbsencesCounted, WatchedPhases
  <2>4. CASE phase = "Idle" /\ slot'.job = "other"
    <3>1. ~Current' /\ slot'.gen <= generation'
      BY <1>4, <2>1, <2>4 DEF Current, StagePhases, WatchedPhases
    <3>. QED
      BY <2>1, <2>2, <2>4, <3>1 DEF IInv, NeverStranded, ProbeBelongsToSession,
         LeftCommandsDoomed, TokenScrubbed, RegistryFileOwned, MonitorWatches,
         SlotMatchesPhase, WrapperBeginsFirst, AbsencesCounted, WatchedPhases
  <2>5. CASE /\ slot.job # "game" /\ Busy(slot) /\ Busy(slot')
             /\ slot'.job = slot.job /\ slot'.gen = slot.gen
             /\ slot'.forced = "TimedOut"
    <3>1. Current' <=> Current
      BY <2>1, <2>5 DEF Current
    <3>2. phase \notin WatchedPhases /\ phase # "MonitoringUncertain" /\ phase # "Preflight"
      BY <2>5 DEF IInv, SlotMatchesPhase, Current, StagePhases, WatchedPhases
    <3>. QED
      BY <1>4, <2>1, <2>2, <2>5, <3>1, <3>2 DEF IInv, NeverStranded, ProbeBelongsToSession,
         LeftCommandsDoomed, TokenScrubbed, RegistryFileOwned, MonitorWatches,
         SlotMatchesPhase, WrapperBeginsFirst, AbsencesCounted, WatchedPhases, Unforced
  <2>. QED
    BY <1>4, <2>3, <2>4, <2>5
<1>5. CASE StaleCommandDone
  BY <1>1, <1>2, <1>4, <1>5 DEF StaleCommandDone
<1>6. CASE OtherCommandStarts
  <2>1. /\ Accepted("other", generation) \in Slots(Jobs, Nat)
        /\ Accepted("other", generation).job = "other"
        /\ Accepted("other", generation).gen = generation
    BY <1>1, AcceptedFacts DEF Jobs
  <2>2. phase = "Idle"
    BY <1>6 DEF OtherCommandStarts, SessionBusy
  <2>. QED
    BY <1>1, <1>4, <1>6, <2>1, <2>2 DEF OtherCommandStarts
<1>7. CASE SlotTimesOut
  <2>1. /\ Doomed(slot, "TimedOut") \in Slots(Jobs, Nat)
        /\ Doomed(slot, "TimedOut").job = slot.job
        /\ Doomed(slot, "TimedOut").gen = slot.gen
        /\ Doomed(slot, "TimedOut").forced = "TimedOut"
    BY <1>1 DEF Doomed, Slots, ForcedOutcomes
  <2>2. slot.job # "game" /\ Busy(slot) /\ Busy(Doomed(slot, "TimedOut"))
    BY <1>7, <2>1 DEF SlotTimesOut, Busy
  <2>. QED
    BY <1>1, <1>4, <1>7, <2>1, <2>2 DEF SlotTimesOut
<1>8. CASE SlotBegins
  <2>1. /\ UNCHANGED <<phase, generation, launch, registryFile, attempts, probeFailures, missing,
                       trackedPid, trackedHost, probe, announced, game, absences>>
        /\ Busy(slot) /\ ~slot.started /\ slot' = Began(slot)
    BY <1>8 DEF SlotBegins, counters, tracked
  <2>2. /\ slot' \in Slots(Jobs, Nat) /\ slot'.job = slot.job /\ slot'.gen = slot.gen
        /\ slot'.forced = slot.forced /\ slot'.started = TRUE
    BY <1>1, <2>1 DEF Began, Slots
  <2>3. /\ monitor' \in BOOLEAN
        /\ wrapper' \in {"NotStarted", "Running", "Finished"}
        /\ monitor => monitor'
        /\ monitor' /\ ~monitor => phase = "Launching"
        /\ slot.job = "game" /\ slot.gen = generation /\ phase = "Launching" => monitor'
    BY <1>8 DEF SlotBegins, IInv, TypeOK, ModesOK
  <2>4. TypeOK'
    <3>1. ModesOK'
      BY <2>1, <2>3 DEF IInv, TypeOK, ModesOK
    <3>2. CountersOK'
      BY <2>1 DEF IInv, TypeOK, CountersOK
    <3>3. ProcessesOK'
      BY <2>1, <2>2 DEF IInv, TypeOK, ProcessesOK
    <3>. QED
      BY <3>1, <3>2, <3>3 DEF TypeOK
  <2>5. (Current' <=> Current) /\ Busy(slot') /\ slot'.gen <= generation'
    BY <1>1, <2>1, <2>2 DEF Current, Busy
  <2>6. NeverStranded'
    BY <2>1, <2>2, <2>3, <2>5 DEF IInv, NeverStranded, Current
  <2>. QED
    BY <2>1, <2>2, <2>3, <2>4, <2>5, <2>6 DEF IInv, ProbeBelongsToSession,
       LeftCommandsDoomed, TokenScrubbed, RegistryFileOwned, MonitorWatches,
       SlotMatchesPhase, WrapperBeginsFirst, AbsencesCounted, WatchedPhases
<1>. QED
  BY <1>3, <1>5, <1>6, <1>7, <1>8

\* Only the probe changes, or the game, or both.
LEMMA ProbeInv ==
  ASSUME IInv, ProbeSamples \/ ProbeExits \/ ProbeFailsToStart \/ ProbeTimeout
               \/ KilledProbeGone \/ GameAppears \/ GameExits
  PROVE  IInv'
<1>1. /\ probe \in Probes /\ generation \in Nat /\ absences \in Nat
      /\ game \in GamePids \cup {NoPid}
      /\ NoPid \in ProcessIds /\ IdleProbe \in Probes
      /\ probe.proc = "Running" <=> probe.for # "none"
  BY ProbeFacts DEF IInv, TypeOK, CountersOK, ProcessesOK, Probes
<1>2. CASE ProbeSamples
  <2>1. HostPid(game) \in ProcessIds /\ game \in ProcessIds
    BY <1>1 DEF ProcessIds, HostPid
  <2>2. /\ probe' \in Probes /\ probe'.for = probe.for /\ probe'.gen = probe.gen
        /\ probe'.proc = probe.proc
    BY <1>1, <1>2, <2>1 DEF ProbeSamples, Probes
  <2>. QED
    BY <1>1, <1>2, <2>2, KeepInv DEF ProbeSamples
<1>3. CASE ProbeExits
  <2>1. probe.seen \in ProcessIds
    BY <1>1 DEF Probes
  <2>2. PICK ok \in BOOLEAN, seen \in {probe.seen, NoPid} : Answer(IdleProbe, ok, seen)
    BY <1>3 DEF ProbeExits
  <2>3. probe.for # "none"
    BY <1>1, <1>3 DEF ProbeExits
  <2>. QED
    BY <1>1, <2>1, <2>2, <2>3, AnswerInv
<1>4. CASE ProbeFailsToStart
  BY <1>1, <1>4, AnswerInv DEF ProbeFailsToStart
<1>5. CASE ProbeTimeout
  BY <1>1, <1>5, AnswerInv DEF ProbeTimeout
<1>6. CASE KilledProbeGone
  <2>1. probe.for = "none" /\ probe' = IdleProbe
        /\ UNCHANGED <<session, slot, game, announced, absences>>
    BY <1>1, <1>6 DEF KilledProbeGone
  <2>. QED
    BY <1>1, <2>1, ProbeFacts, KeepInv
<1>7. CASE GameAppears \/ GameExits
  <2>1. UNCHANGED <<session, probe, slot, announced, absences>> /\ game' \in GamePids \cup {NoPid}
    BY <1>7 DEF GameAppears, GameExits
  <2>. QED
    BY <1>1, <2>1, KeepInv
<1>. QED
  BY <1>2, <1>3, <1>4, <1>5, <1>6, <1>7

\* The monitor timer asks, the user cancels, a game is looked for, the launcher is
\* started again.
LEMMA UserInv ==
  ASSUME IInv, PollGame \/ DetectExistingGame \/ Cancel \/ Restart
  PROVE  IInv'
<1>1. /\ probe \in Probes /\ slot \in Slots(Jobs, Nat) /\ generation \in Nat
      /\ slot.gen \in Nat /\ slot.gen <= generation
      /\ absences \in Nat /\ game \in GamePids \cup {NoPid}
      /\ NoPid \in ProcessIds /\ IdleProbe \in Probes /\ IdleProbe.for = "none"
  BY ProbeFacts, SlotFacts DEF IInv, TypeOK, CountersOK, ProcessesOK, SlotMatchesPhase
<1>2. CASE PollGame
  <2>1. /\ monitor /\ phase \in WatchedPhases /\ monitor' = FALSE
        /\ probe' \in LifecycleProbes("poll", generation)
        /\ UNCHANGED <<phase, generation, launch, registryFile, wrapper, attempts,
                       probeFailures, missing, trackedPid, trackedHost, slot, game,
                       announced, absences>>
    BY <1>2 DEF PollGame, counters, tracked
  <2>2. probe' \in Probes /\ probe'.for = "poll" /\ probe'.gen = generation
    BY <1>1, <2>1, LifecycleProbeFacts DEF Purposes
  <2>3. TypeOK'
    <3>1. ModesOK'
      BY <2>1 DEF IInv, TypeOK, ModesOK
    <3>2. CountersOK'
      BY <2>1 DEF IInv, TypeOK, CountersOK
    <3>3. ProcessesOK'
      BY <2>1, <2>2 DEF IInv, TypeOK, ProcessesOK
    <3>. QED
      BY <3>1, <3>2, <3>3 DEF TypeOK
  <2>4. Current' <=> Current
    BY <2>1 DEF Current
  <2>5. ~(Current /\ slot.job = "game" /\ ~slot.started)
    BY <2>1 DEF IInv, WrapperBeginsFirst
  <2>. QED
    BY <2>1, <2>2, <2>3, <2>4, <2>5 DEF IInv, NeverStranded, ProbeBelongsToSession,
       LeftCommandsDoomed, TokenScrubbed, RegistryFileOwned, MonitorWatches,
       SlotMatchesPhase, WrapperBeginsFirst, AbsencesCounted, WatchedPhases
<1>3. ASSUME phase = "Idle", probe' \in Probes, probe'.for \in {"none", "detect"},
             slot' \in {slot, Doomed(slot, "Cancelled")},
             monitor' \in {monitor, FALSE},
             UNCHANGED <<phase, generation, launch, registryFile, wrapper, attempts,
                         probeFailures, missing, trackedPid, trackedHost, game,
                         announced, absences>>
      PROVE  IInv'
  <2>1. /\ slot' \in Slots(Jobs, Nat) /\ slot'.job = slot.job /\ slot'.gen = slot.gen
        /\ slot'.forced \in {slot.forced, "Cancelled"}
    BY <1>1, <1>3 DEF Doomed, Slots, ForcedOutcomes
  <2>2. monitor' = FALSE
    BY <1>3 DEF IInv, TypeOK, ModesOK, MonitorWatches, WatchedPhases
  <2>3. TypeOK'
    <3>1. ModesOK'
      BY <1>3, <2>2 DEF IInv, TypeOK, ModesOK
    <3>2. CountersOK'
      BY <1>3 DEF IInv, TypeOK, CountersOK
    <3>3. ProcessesOK'
      BY <1>3, <2>1 DEF IInv, TypeOK, ProcessesOK
    <3>. QED
      BY <3>1, <3>2, <3>3 DEF TypeOK
  <2>4. ~Current /\ ~Current'
    BY <1>3 DEF Current, StagePhases, WatchedPhases
  <2>5. Busy(slot') <=> Busy(slot)
    BY <2>1 DEF Busy
  <2>. QED
    BY <1>1, <1>3, <2>1, <2>2, <2>3, <2>4, <2>5 DEF IInv, NeverStranded,
       ProbeBelongsToSession, LeftCommandsDoomed, TokenScrubbed, RegistryFileOwned,
       MonitorWatches, SlotMatchesPhase, WrapperBeginsFirst, AbsencesCounted,
       WatchedPhases, Unforced
<1>4. CASE DetectExistingGame
  <2>1. /\ HostProbe("detect", NoPid, generation) \in Probes
        /\ HostProbe("detect", NoPid, generation).for = "detect"
    BY <1>1, HostProbeFacts DEF Purposes
  <2>. QED
    BY <1>3, <1>4, <2>1 DEF DetectExistingGame, session, counters, tracked
<1>5. CASE Cancel
  <2>1. CASE phase = "Idle" /\ SessionBusy
    <3>1. /\ probe' = Stopped(probe) /\ monitor' = FALSE
          /\ UNCHANGED <<phase, generation, launch, registryFile, wrapper, attempts,
                         probeFailures, missing, trackedPid, trackedHost, slot, game,
                         announced, absences>>
      BY <1>5, <2>1 DEF Cancel, counters, tracked, StartingPhases
    <3>2. Stopped(probe) \in Probes /\ Stopped(probe).for = "none"
      BY <1>1, ProbeFacts
    <3>. QED
      BY <1>3, <2>1, <3>1, <3>2
  <2>2. CASE FailLaunch(probe, slot)
    BY <1>1, <1>5, <2>2, FailLaunchInv DEF Cancel
  <2>3. CASE ~SessionBusy /\ slot' = Doomed(slot, "Cancelled")
             /\ UNCHANGED <<session, probe, announced>>
    BY <1>1, <1>3, <1>5, <2>3 DEF Cancel, SessionBusy, session, counters, tracked
  <2>. QED
    BY <1>5, <2>1, <2>2, <2>3 DEF Cancel
<1>6. CASE Restart
  <2>1. /\ phase' = "Idle" /\ generation' = 0 /\ launch' = "none" /\ monitor' = FALSE
        /\ wrapper' = "NotStarted" /\ announced' = "none" /\ game' = game
        /\ attempts' = 0 /\ probeFailures' = 0 /\ missing' = 0 /\ absences' = 0
        /\ trackedPid' = NoPid /\ trackedHost' = NoPid
        /\ probe' = IdleProbe /\ slot' = FreeSlot
        /\ registryFile' = IF registryFile = "pending" THEN "orphaned" ELSE registryFile
    BY <1>6 DEF Restart
  <2>2. /\ FreeSlot \in Slots(Jobs, Nat) /\ FreeSlot.gen = 0 /\ ~Busy(FreeSlot)
    BY <1>1, SlotFacts
  <2>3. TypeOK'
    <3>1. ModesOK'
      BY <2>1 DEF IInv, TypeOK, ModesOK, Phases
    <3>2. CountersOK'
      BY <2>1 DEF CountersOK
    <3>3. ProcessesOK'
      BY <1>1, <2>1, <2>2 DEF ProcessesOK
    <3>. QED
      BY <3>1, <3>2, <3>3 DEF TypeOK
  <2>4. ~Busy(slot') /\ registryFile' # "pending"
    BY <2>1, <2>2 DEF Busy
  <2>. QED
    BY <1>1, <2>1, <2>2, <2>3, <2>4 DEF IInv, NeverStranded, ProbeBelongsToSession,
       LeftCommandsDoomed, TokenScrubbed, RegistryFileOwned, MonitorWatches,
       SlotMatchesPhase, WrapperBeginsFirst, AbsencesCounted, WatchedPhases, Current, Busy
<1>. QED
  BY <1>2, <1>4, <1>5, <1>6

LEMMA InitInv == Init => IInv
<1>. SUFFICES ASSUME Init
     PROVE  IInv
  OBVIOUS
<1>1. /\ phase = "Idle" /\ generation = 0 /\ launch = "none" /\ monitor = FALSE
      /\ wrapper = "NotStarted" /\ announced = "none" /\ registryFile = "absent"
      /\ attempts = 0 /\ probeFailures = 0 /\ missing = 0 /\ absences = 0
      /\ trackedPid = NoPid /\ trackedHost = NoPid
      /\ probe = IdleProbe /\ slot = FreeSlot /\ game \in GamePids \cup {NoPid}
  BY DEF Init, SessionInit
<1>2. FreeSlot \in Slots(Jobs, Nat) /\ FreeSlot.gen = 0 /\ ~Busy(FreeSlot)
  BY DEF FreeSlot, Slots, Busy, NoJob, Unforced
<1>3. TypeOK
  BY <1>1, <1>2, ProbeFacts DEF TypeOK, ModesOK, CountersOK, ProcessesOK, Phases
<1>. QED
  BY <1>1, <1>2, <1>3, ProbeFacts DEF IInv, NeverStranded, ProbeBelongsToSession,
     LeftCommandsDoomed, TokenScrubbed, RegistryFileOwned, MonitorWatches,
     SlotMatchesPhase, WrapperBeginsFirst, AbsencesCounted, WatchedPhases, Current

LEMMA StutterInv == IInv /\ UNCHANGED vars => IInv'
<1>. SUFFICES ASSUME IInv, UNCHANGED vars
     PROVE  IInv'
  OBVIOUS
<1>1. /\ probe \in Probes /\ absences \in Nat /\ game \in GamePids \cup {NoPid}
      /\ UNCHANGED <<session, probe, slot, game, announced, absences>>
  BY DEF IInv, TypeOK, CountersOK, ProcessesOK, vars
<1>. QED
  BY <1>1, KeepInv

\* IInv is inductive: every handler of GameSession, every event of the processes
\* it watches and every restart of the launcher keeps it.
THEOREM SessionInvariant == Spec => []IInv
<1>1. IInv /\ [Next]_vars => IInv'
  <2>. SUFFICES ASSUME IInv, Next
       PROVE  IInv'
    BY StutterInv
  <2>1. CASE RunGame
    BY <2>1, RunGameInv
  <2>2. CASE CleanupDone \/ ShutdownDone \/ QueryDone \/ ImportDone
    BY <2>2, StageDoneInv
  <2>3. CASE WrapperFinishes \/ StaleCommandDone \/ SlotBegins \/ SlotTimesOut
             \/ OtherCommandStarts
    BY <2>3, SlotInv
  <2>4. CASE ProbeSamples \/ ProbeExits \/ ProbeFailsToStart \/ ProbeTimeout
             \/ KilledProbeGone \/ GameAppears \/ GameExits
    BY <2>4, ProbeInv
  <2>5. CASE PollGame \/ DetectExistingGame \/ Cancel \/ Restart
    BY <2>5, UserInv
  <2>. QED
    BY <2>1, <2>2, <2>3, <2>4, <2>5 DEF Next
<1>. QED
  BY <1>1, InitInv, PTL DEF Spec

\* Every variable keeps its type; the transient phase Finished is never left behind.
THEOREM TypeCorrect == Spec => []TypeOK
<1>1. IInv => TypeOK
  BY DEF IInv
<1>. QED
  BY <1>1, SessionInvariant, PTL

\* No launch and no running game is left without an event that will call it again.
THEOREM NeverStrandedAlways == Spec => []NeverStranded
<1>1. IInv => NeverStranded
  BY DEF IInv
<1>. QED
  BY <1>1, SessionInvariant, PTL

\* No probe outlives the session that started it.
THEOREM ProbeBelongsToSessionAlways == Spec => []ProbeBelongsToSession
<1>1. IInv => ProbeBelongsToSession
  BY DEF IInv
<1>. QED
  BY <1>1, SessionInvariant, PTL

\* A command that its session has left behind is being terminated, save the wrapper
\* of a game that is out of sight.
THEOREM LeftCommandsDoomedAlways == Spec => []LeftCommandsDoomed
<1>1. IInv => LeftCommandsDoomed
  BY DEF IInv
<1>. QED
  BY <1>1, SessionInvariant, PTL

\* The login token and the registry file live no longer than their purpose.
THEOREM SecretsOwned == Spec => [](TokenScrubbed /\ RegistryFileOwned)
<1>1. IInv => TokenScrubbed /\ RegistryFileOwned
  BY DEF IInv
<1>. QED
  BY <1>1, SessionInvariant, PTL

\* What a session leaves behind, its probe, its command and its secrets, reaches no later one.
THEOREM NothingOutlivesSessionAlways == Spec => []NothingOutlivesSession
<1>1. IInv => NothingOutlivesSession
  BY DEF IInv, NothingOutlivesSession
<1>. QED
  BY <1>1, SessionInvariant, PTL

(***************************************************************************)
(* What a step may do.                                                     *)
(***************************************************************************)

\* What the answer of a probe comes to, with what it does to the history.
AnswerEffect(q) ==
  \/ UNCHANGED <<phase, slot, announced>>
  \/ FailLaunch(q, slot) /\ phase # "Running"
  \/ StopMonitoringUncertain(q)
  \/ FinishGameSession(q) /\ absences' >= MissingLimit
  \/ (\E p, g : Attach(q, p, g)) /\ (phase = "Idle" => ~Busy(slot))
  \/ /\ StartStage("CleaningPrefix", "kill", q, slot) \/ BeginFirstLaunchSetup(q, slot)
     /\ phase = "Preflight"
     /\ absences' > 0

LEMMA DeliverCases ==
  ASSUME IInv, NEW q, NEW ok \in BOOLEAN, NEW seen, Deliver(q, ok, seen)
  PROVE  AnswerEffect(q)
<1>1. /\ absences \in Nat /\ missing \in Nat /\ MissingLimit \in Nat /\ MissingLimit > 0
      /\ phase = "Running" => missing <= absences
  BY LimitsAssumption DEF IInv, TypeOK, CountersOK, AbsencesCounted
<1>2. CASE ~Heeded(ok, seen)
  BY <1>2 DEF Deliver, Keep, session, AnswerEffect
<1>3. CASE Heeded(ok, seen) /\ probe.for = "preflight"
  <2>1. /\ PreflightAnswered(q, ok, seen) /\ phase = "Preflight"
        /\ absences' = Absences(ok, seen)
    BY <1>3 DEF Deliver, Heeded
  <2>2. CASE ok /\ seen = NoPid
    <3>1. CleanStalePrefixProcesses(q, slot) /\ absences' > 0
      BY <1>1, <2>1, <2>2 DEF PreflightAnswered, Absences
    <3>. QED
      BY <2>1, <3>1 DEF CleanStalePrefixProcesses, AnswerEffect
  <2>3. CASE ~(ok /\ seen = NoPid)
    BY <2>1, <2>3 DEF PreflightAnswered, AnswerEffect
  <2>. QED
    BY <2>2, <2>3
<1>4. CASE Heeded(ok, seen) /\ probe.for = "poll"
  <2>1. PollAnswered(q, ok, seen) /\ absences' = Absences(ok, seen) /\ phase \in WatchedPhases
    BY <1>4 DEF Deliver, Heeded
  <2>2. CASE ~ok
    BY <2>1, <2>2 DEF PollAnswered, OnProbeFailure, Rearm, AnswerEffect
  <2>3. CASE ok /\ seen # NoPid
    BY <2>1, <2>3 DEF PollAnswered, OnProcessSeen, WatchedPhases, AnswerEffect
  <2>4. CASE ok /\ seen = NoPid /\ phase = "Running"
    <3>1. OnProcessMissing(q)
      BY <2>1, <2>4 DEF PollAnswered
    <3>2. absences' >= missing + 1 \/ absences' >= MissingLimit
      BY <1>1, <2>1, <2>4 DEF Absences
    <3>3. CASE Gone(Missed)
      <4>1. FinishGameSession(q) /\ absences' >= MissingLimit
        BY <1>1, <2>1, <3>1, <3>2, <3>3, <2>4 DEF OnProcessMissing, Gone, Missed, Absences
      <4>. QED
        BY <4>1 DEF AnswerEffect
    <3>4. CASE ~Gone(Missed)
      BY <3>1, <3>4 DEF OnProcessMissing, AnswerEffect
    <3>. QED
      BY <3>3, <3>4
  <2>5. CASE ok /\ seen = NoPid /\ phase # "Running"
    BY <2>1, <2>5 DEF PollAnswered, OnStillLaunching, Rearm, AnswerEffect
  <2>. QED
    BY <2>2, <2>3, <2>4, <2>5
<1>5. CASE Heeded(ok, seen) /\ probe.for = "detect"
  BY <1>5 DEF Deliver, Heeded, AnswerEffect
<1>6. CASE Heeded(ok, seen) /\ probe.for = "hostpid"
  BY <1>6 DEF Deliver, HostPidAnswered, AnswerEffect
<1>. QED
  BY <1>2, <1>3, <1>4, <1>5, <1>6 DEF Deliver

LEMMA AnswerCases ==
  ASSUME IInv, NEW q, NEW ok \in BOOLEAN, NEW seen, Answer(q, ok, seen)
  PROVE  AnswerEffect(q)
<1>1. probe.tasklistOk \in BOOLEAN
  BY DEF IInv, TypeOK, ProcessesOK, Probes
<1>2. CASE Deliver(q, ok \/ probe.tasklistOk, seen)
  <2>1. (ok \/ probe.tasklistOk) \in BOOLEAN
    OBVIOUS
  <2>. QED
    BY <1>2, <2>1, DeliverCases
<1>3. CASE Deliver(q, TRUE, seen) \/ Deliver(q, ok, NoPid)
  BY <1>3, DeliverCases
<1>4. CASE Keep([HostProbe(probe.for, probe.expected, probe.gen) EXCEPT !.tasklistOk = ok])
  BY <1>4 DEF Keep, session, AnswerEffect
<1>. QED
  BY <1>2, <1>3, <1>4 DEF Answer

\* The three handlers of the probe process and of its timeout.
LEMMA ProbeHandlers ==
  ASSUME IInv, ProbeExits \/ ProbeFailsToStart \/ ProbeTimeout
  PROVE  \E q : AnswerEffect(q)
<1>1. CASE ProbeExits
  BY <1>1, AnswerCases DEF ProbeExits
<1>2. CASE ProbeFailsToStart
  BY <1>2, AnswerCases DEF ProbeFailsToStart
<1>3. CASE ProbeTimeout
  BY <1>3, AnswerCases DEF ProbeTimeout
<1>. QED
  BY <1>1, <1>2, <1>3

\* A running game is reported gone, and its wrapper cancelled, by one handler only.
THEOREM ExitConfirmedAlways == Spec => ExitConfirmed
<1>1. ASSUME IInv, Next, phase = "Running", Reports("exited") \/ CancelsCommand
      PROVE  absences' >= MissingLimit
  <2>1. slot \in Slots(Jobs, Nat) /\ FreeSlot.forced = Unforced
    BY <1>1 DEF IInv, TypeOK, ProcessesOK, FreeSlot
  <2>2. CASE ProbeExits \/ ProbeFailsToStart \/ ProbeTimeout
    <3>1. PICK q : AnswerEffect(q)
      BY <1>1, <2>2, ProbeHandlers
    <3>. QED
      BY <1>1, <3>1 DEF AnswerEffect, StopMonitoringUncertain, Attach, Reports,
         CancelsCommand
  <2>3. CASE WrapperFinishes
    <3>1. slot'.forced # "Cancelled" /\ (announced' = "failed" \/ announced' = announced)
      BY <2>1, <2>3 DEF WrapperFinishes, FailLaunch, Abandon, Terminated, Busy, FreeSlot, Unforced
    <3>. QED
      BY <1>1, <3>1 DEF Reports, CancelsCommand
  <2>4. CASE SlotBegins \/ StaleCommandDone \/ SlotTimesOut
    BY <1>1, <2>1, <2>4 DEF SlotBegins, StaleCommandDone, SlotTimesOut, Began, Doomed, Slots,
       Unforced, Reports, CancelsCommand
  <2>5. CASE ProbeSamples \/ KilledProbeGone \/ PollGame \/ GameAppears \/ GameExits
    BY <1>1, <2>5 DEF ProbeSamples, KilledProbeGone, PollGame, GameAppears, GameExits,
       Reports, CancelsCommand
  <2>6. CASE Restart
    BY <1>1, <2>1, <2>6 DEF Restart, Unforced, Reports, CancelsCommand
  <2>7. CASE CleanupDone \/ ShutdownDone \/ QueryDone \/ ImportDone
    BY <1>1, <2>7 DEF CleanupDone, ShutdownDone, QueryDone, ImportDone, Completion, Current,
       StagePhases
  <2>8. CASE RunGame \/ OtherCommandStarts \/ DetectExistingGame \/ Cancel
    BY <1>1, <2>8 DEF RunGame, OtherCommandStarts, DetectExistingGame, Cancel, SessionBusy,
       StartingPhases
  <2>. QED
    BY <1>1, <2>2, <2>3, <2>4, <2>5, <2>6, <2>7, <2>8 DEF Next
<1>2. IInv /\ [Next]_vars =>
        [phase = "Running" /\ (Reports("exited") \/ CancelsCommand)
           => absences' >= MissingLimit]_vars
  BY <1>1
<1>. QED
  BY <1>2, SessionInvariant, PTL DEF Spec, ExitConfirmed

\* Prefix processes are killed only after this launch's own probe has found no game.
THEOREM CleanOnlyAfterAbsenceAlways == Spec => CleanOnlyAfterAbsence
<1>1. ASSUME IInv, Next, slot.job # "kill", slot'.job = "kill"
      PROVE  absences' > 0
  <2>1. /\ slot \in Slots(Jobs, Nat) /\ generation \in Nat
        /\ FreeSlot \in Slots(Jobs, Nat) /\ FreeSlot.job # "kill"
    BY <1>1, SlotFacts DEF IInv, TypeOK, CountersOK, ProcessesOK, FreeSlot, NoJob
  <2>2. /\ \A job \in Jobs : Accepted(job, generation).job = job
        /\ \A s \in {slot, FreeSlot} : Terminated(s, "Cancelled").job # "kill"
    <3>1. \A s \in Slots(Jobs, Nat) : Terminated(s, "Cancelled").job = s.job
      BY SlotFacts
    <3>. QED
      BY <1>1, <2>1, <3>1, AcceptedFacts
  <2>3. ~\E p : \E s \in {slot, FreeSlot} : FailLaunch(p, s)
    BY <1>1, <2>2 DEF FailLaunch, Abandon
  <2>4. ~\E p : FinishGameSession(p)
    BY <1>1, <2>2 DEF FinishGameSession
  <2>5. ~\E p : \E s \in {slot, FreeSlot} : BeginFirstLaunchSetup(p, s)
    BY <1>1, <2>2, <2>3 DEF BeginFirstLaunchSetup, StartStage, Jobs, StageJobs
  <2>6. CASE ProbeExits \/ ProbeFailsToStart \/ ProbeTimeout
    <3>1. PICK q : AnswerEffect(q)
      BY <1>1, <2>6, ProbeHandlers
    <3>. QED
      BY <1>1, <2>3, <2>4, <2>5, <3>1 DEF AnswerEffect, StopMonitoringUncertain, Attach
  <2>7. CASE CleanupDone \/ ShutdownDone \/ QueryDone \/ ImportDone
    BY <1>1, <2>2, <2>3, <2>5, <2>7, LaunchSteps
    DEF CleanupDone, ShutdownDone, QueryDone, ImportDone, StartStage, StartWrapper, Jobs, StageJobs
  <2>8. CASE WrapperFinishes \/ StaleCommandDone \/ OtherCommandStarts \/ Restart
    BY <1>1, <2>1, <2>2, <2>3, <2>8 DEF WrapperFinishes, StaleCommandDone,
       OtherCommandStarts, Restart, Jobs
  <2>9. CASE SlotBegins \/ SlotTimesOut \/ Cancel
    <3>1. Began(slot).job = slot.job /\ \A o : Doomed(slot, o).job = slot.job
      BY <2>1 DEF Began, Doomed, Slots
    <3>. QED
      BY <1>1, <2>3, <2>9, <3>1 DEF SlotBegins, SlotTimesOut, Cancel
  <2>10. CASE ProbeSamples \/ KilledProbeGone \/ PollGame \/ DetectExistingGame
              \/ GameAppears \/ GameExits
    BY <1>1, <2>10 DEF ProbeSamples, KilledProbeGone, PollGame, DetectExistingGame,
       GameAppears, GameExits
  <2>11. CASE RunGame
    BY <1>1, <2>2, <2>11 DEF RunGame, Abandon
  <2>. QED
    BY <1>1, <2>6, <2>7, <2>8, <2>9, <2>10, <2>11 DEF Next
<1>2. IInv /\ [Next]_vars =>
        [slot.job # "kill" /\ slot'.job = "kill" => absences' > 0]_vars
  BY <1>1
<1>. QED
  BY <1>2, SessionInvariant, PTL DEF Spec, CleanOnlyAfterAbsence

\* Processes are killed, an exit is reported and a wrapper cancelled only on absences that this
\* launch has observed.
THEOREM ActsOnAbsenceAlways == Spec => ActsOnAbsence
  BY CleanOnlyAfterAbsenceAlways, ExitConfirmedAlways DEF ActsOnAbsence


(***************************************************************************)
(* GameSession implements GameLifecycle.                                   *)
(***************************************************************************)

LEMMA StageFacts ==
  /\ phase = "Idle" => Stage = "idle"
  /\ phase = "Running" => Stage = "running"
  /\ phase = "MonitoringUncertain" => Stage = "uncertain"
  /\ phase \in StartingPhases => Stage = "starting"
BY DEF Stage, StartingPhases

LEMMA CommandFacts ==
  ASSUME TypeOK
  PROVE  /\ SessionCommand \in {"none", "live", "doomed"}
         /\ ~Busy(slot) => SessionCommand = "none"
         /\ slot.forced = "Cancelled" => SessionCommand \in {"none", "doomed"}
BY DEF SessionCommand, Busy, Unforced

\* A launch that is given up, wherever it was.
LEMMA FailRefines ==
  ASSUME IInv, IInv', NEW p, NEW s \in {slot, FreeSlot}, phase \in {"Idle"} \cup StartingPhases,
         phase' = "Idle", announced' = "failed", slot' = Terminated(s, "Cancelled")
  PROVE  Lifecycle!Fail
<1>1. TypeOK' /\ slot \in Slots(Jobs, Nat)
  BY DEF IInv, TypeOK, ProcessesOK
<1>2. ~Busy(slot') \/ slot'.forced = "Cancelled"
  <2>1. \A r \in Slots(Jobs, Nat) : Busy(r) => Terminated(r, "Cancelled").forced = "Cancelled"
    BY SlotFacts
  <2>2. \A r \in Slots(Jobs, Nat) : ~Busy(r) => Terminated(r, "Cancelled") = r
    BY DEF Terminated
  <2>3. FreeSlot \in Slots(Jobs, Nat)
    BY <1>1, SlotFacts
  <2>. QED
    BY <1>1, <2>1, <2>2, <2>3 DEF Busy
<1>3. SessionCommand' \in {"none", "doomed"}
  BY <1>1, <1>2, CommandFacts DEF Busy, SessionCommand, Unforced
<1>4. Stage \in {"idle", "starting"} /\ Stage' = "idle"
  BY StageFacts DEF Stage, StartingPhases
<1>. QED
  BY <1>3, <1>4 DEF Lifecycle!Fail

\* One step of a launch follows another.
LEMMA WorkRefines ==
  ASSUME TypeOK', phase \in StartingPhases, phase' \in StartingPhases, UNCHANGED announced
  PROVE  Lifecycle!Work
<1>1. Stage = "starting" /\ Stage' = "starting"
  BY DEF Stage, StartingPhases
<1>2. SessionCommand' \in {"none", "live", "doomed"}
  BY DEF SessionCommand
<1>. QED
  BY <1>1, <1>2 DEF Lifecycle!Work, Lifecycle!Commands

\* Nothing but the command changes: it ends, or the step is a stutter.
LEMMA CommandRefines ==
  ASSUME UNCHANGED <<phase, announced>>, SessionCommand' \in {"none", SessionCommand}
  PROVE  Lifecycle!End \/ UNCHANGED Lifecycle!lifecycle
<1>1. Stage' = Stage
  BY DEF Stage
<1>. QED
  BY <1>1 DEF Lifecycle!End, Lifecycle!lifecycle

LEMMA FailLaunchRefines ==
  ASSUME IInv, IInv', NEW p, NEW s \in {slot, FreeSlot}, FailLaunch(p, s), phase # "Running"
  PROVE  Lifecycle!Fail
BY FailRefines DEF FailLaunch, Abandon, IInv, TypeOK, ModesOK, Phases, StartingPhases

\* The next stage of a launch is begun, or the launch is given up.
LEMMA StageRefines ==
  ASSUME IInv, IInv', NEW p, NEW s \in {slot, FreeSlot}, phase \in StartingPhases,
         \/ \E job : \E next \in StartingPhases : StartStage(next, job, p, s)
         \/ BeginFirstLaunchSetup(p, s)
         \/ LaunchPendingGame(p, s)
  PROVE  Lifecycle!Work \/ Lifecycle!Fail
<1>1. CASE FailLaunch(p, s)
  BY <1>1, FailLaunchRefines DEF StartingPhases
<1>2. CASE ~FailLaunch(p, s)
  <2>1. phase' \in StartingPhases /\ UNCHANGED announced
    BY <1>2, LaunchSteps DEF StartStage, BeginFirstLaunchSetup, StartWrapper, StartingPhases
  <2>. QED
    BY <2>1, WorkRefines DEF IInv
<1>. QED
  BY <1>1, <1>2

LEMMA AnswerRefines ==
  ASSUME IInv, IInv', NEW q, AnswerEffect(q)
  PROVE  Lifecycle!Next \/ UNCHANGED Lifecycle!lifecycle
<1>1. CASE UNCHANGED <<phase, slot, announced>>
  <2>1. SessionCommand' = SessionCommand
    BY <1>1 DEF SessionCommand
  <2>. QED
    BY <1>1, <2>1, CommandRefines DEF Lifecycle!Next
<1>2. CASE FailLaunch(q, slot) /\ phase # "Running"
  BY <1>2, FailLaunchRefines DEF Lifecycle!Next
<1>3. CASE StopMonitoringUncertain(q)
  <2>1. Stage = "running" /\ Stage' = "uncertain" /\ SessionCommand' = SessionCommand
        /\ announced' = "uncertain"
    BY <1>3 DEF StopMonitoringUncertain, Stage, SessionCommand
  <2>. QED
    BY <2>1 DEF Lifecycle!Lose, Lifecycle!Next
<1>4. CASE FinishGameSession(q)
  <2>1. Stage = "running" /\ Stage' = "idle" /\ announced' = "exited"
    BY <1>4 DEF FinishGameSession, Stage
  <2>2. slot \in Slots(Jobs, Nat) /\ TypeOK'
    BY DEF IInv, TypeOK, ProcessesOK
  <2>3. ~Busy(slot') \/ slot'.forced = "Cancelled"
    BY <1>4, <2>2, SlotFacts DEF FinishGameSession, Terminated, Busy
  <2>4. SessionCommand' \in {"none", "doomed"}
    BY <2>2, <2>3 DEF SessionCommand, Busy, Unforced
  <2>. QED
    BY <2>1, <2>4 DEF Lifecycle!Exit, Lifecycle!Next
<1>5. CASE (\E p, g : Attach(q, p, g)) /\ (phase = "Idle" => ~Busy(slot))
  <2>1. /\ phase \in {"Idle", "Preflight", "Launching"} /\ phase' = "Running"
        /\ announced' = "started" /\ slot' = slot
    BY <1>5 DEF Attach
  <2>2. SessionCommand' = SessionCommand /\ (phase = "Idle" => SessionCommand = "none")
    BY <1>5, <2>1 DEF SessionCommand, Busy
  <2>3. Stage' = "running"
    BY <2>1 DEF Stage
  <2>4. Stage = "starting" \/ (Stage = "idle" /\ SessionCommand = "none")
    <3>1. CASE phase = "Idle"
      BY <2>2, <3>1, StageFacts
    <3>2. CASE phase # "Idle"
      <4>1. phase \in StartingPhases
        BY <2>1, <3>2 DEF StartingPhases
      <4>. QED
        BY <4>1, StageFacts
    <3>. QED
      BY <3>1, <3>2
  <2>. QED
    BY <2>1, <2>2, <2>3, <2>4 DEF Lifecycle!Confirm, Lifecycle!Next
<1>6. CASE /\ \/ StartStage("CleaningPrefix", "kill", q, slot)
              \/ BeginFirstLaunchSetup(q, slot)
           /\ phase = "Preflight"
  <2>1. phase \in StartingPhases /\ "CleaningPrefix" \in StartingPhases
    BY <1>6 DEF StartingPhases
  <2>. QED
    BY <1>6, <2>1, StageRefines DEF Lifecycle!Next
<1>. QED
  BY <1>1, <1>2, <1>3, <1>4, <1>5, <1>6 DEF AnswerEffect

LEMMA StepRefines ==
  ASSUME IInv, IInv', Next
  PROVE  Lifecycle!Next \/ UNCHANGED Lifecycle!lifecycle
<1>1. TypeOK /\ TypeOK' /\ slot \in Slots(Jobs, Nat) /\ FreeSlot.job = NoJob
  BY DEF IInv, TypeOK, ProcessesOK, FreeSlot
<1>2. CASE ProbeExits \/ ProbeFailsToStart \/ ProbeTimeout
  BY <1>2, ProbeHandlers, AnswerRefines
<1>3. CASE RunGame
  <2>1. phase = "Idle" /\ ~Busy(slot)
    BY <1>3 DEF RunGame, SessionBusy
  <2>2. CASE Abandon(probe, slot, generation + 1)
    BY <2>1, <2>2, FailRefines DEF Abandon, Lifecycle!Next
  <2>3. CASE ~Abandon(probe, slot, generation + 1)
    <3>1. /\ Stage = "idle" /\ Stage' = "starting" /\ announced' = "starting"
          /\ SessionCommand = "none" /\ SessionCommand' = "none"
      BY <1>3, <2>1, <2>3 DEF RunGame, Stage, SessionCommand, Busy
    <3>. QED
      BY <3>1 DEF Lifecycle!Start, Lifecycle!Next
  <2>. QED
    BY <2>2, <2>3
<1>4. CASE CleanupDone \/ ShutdownDone \/ QueryDone \/ ImportDone
  <2>1. phase \in StartingPhases /\ "CleaningPrefix" \in StartingPhases
    BY <1>4 DEF CleanupDone, ShutdownDone, QueryDone, ImportDone, Completion, Current,
       StagePhases, StartingPhases
  <2>2. CASE FailLaunch(probe, FreeSlot)
    BY <2>1, <2>2, FailLaunchRefines DEF StartingPhases, Lifecycle!Next
  <2>3. CASE \/ StartStage("CleaningPrefix", "wait", probe, FreeSlot)
             \/ BeginFirstLaunchSetup(probe, FreeSlot)
             \/ LaunchPendingGame(probe, FreeSlot)
    BY <2>1, <2>3, StageRefines DEF Lifecycle!Next
  <2>4. CASE UNCHANGED <<phase, announced>>
    BY <1>1, <2>1, <2>4, WorkRefines DEF Lifecycle!Next
  <2>. QED
    BY <1>4, <2>2, <2>3, <2>4 DEF CleanupDone, ShutdownDone, QueryDone, ImportDone
<1>5. CASE WrapperFinishes
  <2>1. CASE FailLaunch(probe, FreeSlot)
    <3>1. PICK result \in Results(slot) :
            (~result.started /\ result.outcome = "FailedToStart") \/ UNCHANGED phase
      BY <1>5 DEF WrapperFinishes
    <3>2. result.started = slot.started
      BY DEF Results
    <3>3. phase # "Running"
      BY <1>5, <2>1, <3>1, <3>2 DEF WrapperFinishes, Completion, IInv, WrapperBeginsFirst,
         FailLaunch, Abandon
    <3>. QED
      BY <2>1, <3>3, FailLaunchRefines DEF Lifecycle!Next
  <2>2. CASE ~FailLaunch(probe, FreeSlot)
    <3>1. UNCHANGED <<phase, announced>> /\ slot' = FreeSlot
      BY <1>5, <2>2 DEF WrapperFinishes
    <3>2. SessionCommand' = "none"
      BY <1>1, <3>1 DEF SessionCommand
    <3>. QED
      BY <3>1, <3>2, CommandRefines DEF Lifecycle!Next
  <2>. QED
    BY <2>1, <2>2
<1>6. CASE SlotTimesOut
  <2>1. slot.job # "game" /\ UNCHANGED <<phase, announced>> /\ Busy(slot)
        /\ slot' = Doomed(slot, "TimedOut")
    BY <1>6 DEF SlotTimesOut, session
  <2>2. slot'.job = slot.job /\ slot'.forced = "TimedOut"
    BY <1>1, <2>1 DEF Doomed, Slots
  <2>3. CASE phase \in StartingPhases
    BY <1>1, <2>1, <2>3, WorkRefines DEF Lifecycle!Next
  <2>4. CASE phase \notin StartingPhases
    <3>1. slot.job = "other" \/ slot.forced # Unforced
      BY <2>1, <2>4 DEF IInv, LeftCommandsDoomed, SlotMatchesPhase, Current, StagePhases,
         StartingPhases, WatchedPhases
    <3>2. SessionCommand' = SessionCommand
      BY <2>2, <3>1 DEF SessionCommand, Unforced
    <3>. QED
      BY <2>1, <3>2, CommandRefines DEF Lifecycle!Next
  <2>. QED
    BY <2>3, <2>4
<1>7. CASE SlotBegins \/ StaleCommandDone \/ OtherCommandStarts \/ Cancel
  <2>1. CASE FailLaunch(probe, slot) /\ phase \in StartingPhases
    BY <2>1, FailLaunchRefines DEF StartingPhases, Lifecycle!Next
  <2>2. CASE ~(FailLaunch(probe, slot) /\ phase \in StartingPhases)
    <3>1. UNCHANGED <<phase, announced>>
      BY <1>7, <2>2 DEF SlotBegins, StaleCommandDone, OtherCommandStarts, Cancel, session
    <3>2. CASE SlotBegins \/ StaleCommandDone \/ OtherCommandStarts
      <4>1. \/ slot'.job = slot.job /\ slot'.forced = slot.forced
            \/ slot'.job \in {NoJob, "other"}
        BY <1>1, <3>2 DEF SlotBegins, StaleCommandDone, OtherCommandStarts, Began, Slots,
           Accepted
      <4>2. SessionCommand' \in {"none", SessionCommand}
        BY <4>1 DEF SessionCommand
      <4>. QED
        BY <3>1, <4>2, CommandRefines DEF Lifecycle!Next
    <3>3. CASE Cancel
      <4>1. \/ slot' = slot
            \/ phase = "Idle" /\ Busy(slot) /\ slot' = Doomed(slot, "Cancelled")
        BY <2>2, <3>3 DEF Cancel, SessionBusy
      <4>2. CASE slot' = slot
        <5>1. SessionCommand' = SessionCommand
          BY <4>2 DEF SessionCommand
        <5>. QED
          BY <3>1, <5>1, CommandRefines DEF Lifecycle!Next
      <4>3. CASE phase = "Idle" /\ Busy(slot) /\ slot' = Doomed(slot, "Cancelled")
        <5>1. slot.job = "other" \/ slot.forced # Unforced
          BY <4>3 DEF IInv, LeftCommandsDoomed, Current, StagePhases, WatchedPhases
        <5>2. slot'.job = slot.job /\ slot'.forced = "Cancelled"
          BY <1>1, <4>3 DEF Doomed, Slots
        <5>3. SessionCommand' = SessionCommand
          BY <5>1, <5>2 DEF SessionCommand, Unforced
        <5>. QED
          BY <3>1, <5>3, CommandRefines DEF Lifecycle!Next
      <4>. QED
        BY <4>1, <4>2, <4>3
    <3>. QED
      BY <1>7, <3>2, <3>3
  <2>. QED
    BY <2>1, <2>2
<1>8. CASE Restart
  <2>1. Stage' = "idle" /\ SessionCommand' = "none" /\ announced' = "none"
    BY <1>1, <1>8 DEF Restart, Stage, SessionCommand
  <2>. QED
    BY <2>1 DEF Lifecycle!Restart, Lifecycle!Next
<1>9. CASE ProbeSamples \/ KilledProbeGone \/ PollGame \/ DetectExistingGame
           \/ GameAppears \/ GameExits
  <2>1. UNCHANGED <<phase, slot, announced>>
    BY <1>9 DEF ProbeSamples, KilledProbeGone, PollGame, DetectExistingGame, GameAppears,
       GameExits, session
  <2>2. SessionCommand' = SessionCommand
    BY <2>1 DEF SessionCommand
  <2>. QED
    BY <2>1, <2>2, CommandRefines DEF Lifecycle!Next
<1>. QED
  BY <1>2, <1>3, <1>4, <1>5, <1>6, <1>7, <1>8, <1>9 DEF Next

\* The callbacks come in the order that the user interface is written for, and the
\* command of a confirmed game is not touched while the game is watched.
THEOREM ImplementsLifecycle == Spec => LifecycleSpec
<1>1. Init => Lifecycle!Init
  BY DEF Init, SessionInit, Lifecycle!Init, Stage, SessionCommand, FreeSlot
<1>2. IInv /\ IInv' /\ [Next]_vars => [Lifecycle!Next]_Lifecycle!lifecycle
  <2>1. CASE Next
    BY <2>1, StepRefines
  <2>2. CASE UNCHANGED vars
    BY <2>2 DEF vars, session, Lifecycle!lifecycle, Stage, SessionCommand
  <2>. QED
    BY <2>1, <2>2
<1>. QED
  BY <1>1, <1>2, SessionInvariant, PTL DEF Spec, LifecycleSpec, Lifecycle!Spec


(***************************************************************************)
(* The runner of the session's commands: what holds of ProcessRunner for   *)
(* any commands, timeouts and process ids, and that it is to its clients   *)
(* what slot is to the session.                                            *)
(***************************************************************************)


(***************************************************************************)
(* RunnerServesHolder is inductive once it is known what a free runner     *)
(* looks like, and what has been sent to a process that was forced out.    *)
(***************************************************************************)

\* active_ and terminal_emitted_ change together, and with them what is behind request_.
HolderKnown ==
  /\ active => ~emitted /\ request \in Commands
  /\ ~active => request = NoJob /\ ~timeoutTimer /\ ~killTimer
  /\ hasStarted /\ active => state = "Running"
  /\ active /\ state = "Running" => hasStarted

\* The timeout of a command runs only where there is one, and until it forces it out.
TimeoutOfHolder == timeoutTimer => active /\ request \in TimedCommands

RunnerInv == RunnerTypeOK /\ OneHolder /\ ForceKillAimed /\ HolderKnown /\ TimeoutOfHolder

LEMMA RunnerNames ==
  /\ Unforced \notin ForcedOutcomes /\ ForcedOutcomes \subseteq Outcomes
  /\ NoProcess \notin Pids
  /\ NoJob \notin Commands /\ TimedCommands \subseteq Commands
  /\ NotSubmitted # Pending
  /\ \A started \in BOOLEAN, outcome \in Outcomes :
       /\ [started |-> started, outcome |-> outcome] # Pending
       /\ [started |-> started, outcome |-> outcome] # NotSubmitted
       /\ [started |-> started, outcome |-> outcome] \in [started : BOOLEAN, outcome : Outcomes]
<1>1. NoProcess \notin Pids
  BY ProcessesAssumption DEF NoProcess
<1>. QED
  BY <1>1, CommandsAssumption DEF Unforced, ForcedOutcomes, Outcomes, NotSubmitted, Pending

LEMMA RunnerInitInv == RunnerInit => RunnerInv
  BY RunnerNames DEF RunnerInit, RunnerInv, RunnerTypeOK, OneHolder, ForceKillAimed, HolderKnown, TimeoutOfHolder,
     Listening

\* An accepted command holds the runner, and nothing of the one before it is left.
LEMMA RunnerStart ==
  ASSUME RunnerInv, NEW c \in Commands, Start(c)
  PROVE  RunnerInv'
<1>1. pid' # NoProcess
  BY RunnerNames DEF Start
<1>2. RunnerTypeOK'
  <2>1. timeoutTimer' \in BOOLEAN
    BY DEF Start
  <2>2. answer' \in [Commands -> {NotSubmitted, Pending} \cup [started : BOOLEAN, outcome : Outcomes]]
    BY DEF Start, RunnerInv, RunnerTypeOK
  <2>. QED
    BY <1>1, <2>1, <2>2 DEF Start, RunnerTypeOK
<1>3. OneHolder'
  BY RunnerNames DEF Start, CanSubmit, RunnerInv, RunnerTypeOK, OneHolder
<1>. QED
  BY <1>2, <1>3 DEF Start, RunnerInv, RunnerTypeOK, ForceKillAimed, HolderKnown, TimeoutOfHolder

\* A command that is forced out keeps the runner; the timer is aimed at its process.
LEMMA RunnerForceOut ==
  ASSUME RunnerInv, NEW outcome \in ForcedOutcomes, Listening, ForceOut(outcome),
         timeoutTimer' \in {FALSE, timeoutTimer}
  PROVE  RunnerInv'
<1>1. RunnerTypeOK'
  BY DEF ForceOut, ArmForceKill, RunnerInv, RunnerTypeOK
<1>2. OneHolder'
  BY DEF ForceOut, RunnerInv, OneHolder
<1>3. ForceKillAimed'
  <2>1. CASE state = "Starting"
    BY <2>1 DEF ForceOut, RunnerInv, ForceKillAimed
  <2>2. CASE state # "Starting"
    <3>1. state = "Running"
      BY <2>2 DEF RunnerInv, RunnerTypeOK, OneHolder, Listening
    <3>. QED
      BY <2>2, <3>1, RunnerNames DEF ForceOut, ArmForceKill, ForceKillAimed, Listening
  <2>. QED
    BY <2>1, <2>2
<1>4. timeoutTimer' => timeoutTimer
  BY DEF RunnerInv, RunnerTypeOK
<1>5. HolderKnown' /\ TimeoutOfHolder'
  BY <1>4 DEF ForceOut, RunnerInv, HolderKnown, TimeoutOfHolder, Listening
<1>. QED
  BY <1>1, <1>2, <1>3, <1>5 DEF RunnerInv

\* The one answer of a command frees the runner and stops both timers.
LEMMA RunnerFinish ==
  ASSUME RunnerInv, NEW outcome \in Outcomes, Listening, ProcessGone, Finish(outcome)
  PROVE  RunnerInv'
<1>1. /\ request \in Commands
      /\ [started |-> hasStarted, outcome |-> outcome] # Pending
      /\ [started |-> hasStarted, outcome |-> outcome] \in [started : BOOLEAN, outcome : Outcomes]
  BY RunnerNames DEF RunnerInv, RunnerTypeOK, HolderKnown, Listening
<1>2. RunnerTypeOK'
  BY <1>1 DEF ProcessGone, Finish, StopTimers, RunnerInv, RunnerTypeOK
<1>3. OneHolder'
  BY <1>1 DEF ProcessGone, Finish, RunnerInv, RunnerTypeOK, OneHolder, Listening
<1>. QED
  BY <1>2, <1>3 DEF ProcessGone, Finish, StopTimers, RunnerInv, ForceKillAimed, HolderKnown,
     TimeoutOfHolder

LEMMA FinishOutcome ==
  ASSUME RunnerInv
  PROVE  /\ \A exit \in Exits : ExitOutcome(exit) \in Outcomes
         /\ (IF forced = Unforced THEN "FailedToStart" ELSE forced) \in Outcomes
  BY RunnerNames DEF RunnerInv, RunnerTypeOK, ExitOutcome, Outcomes

LEMMA RunnerStep ==
  ASSUME RunnerInv, [RunnerNext]_runnerVars
  PROVE  RunnerInv'
<1>1. CASE \E c \in Commands : Start(c)
  BY <1>1, RunnerStart
<1>2. CASE Terminate("Cancelled")
  BY <1>2, RunnerForceOut DEF Terminate, ForcedOutcomes
<1>3. CASE OnTimeout
  BY <1>3, RunnerForceOut DEF OnTimeout, ForcedOutcomes
<1>4. CASE OnForceKill
  BY <1>4 DEF OnForceKill, RunnerInv, RunnerTypeOK, OneHolder, ForceKillAimed, HolderKnown,
     TimeoutOfHolder, runner
<1>5. CASE OnStarted
  <2>1. RunnerTypeOK' /\ OneHolder'
    BY <1>5 DEF OnStarted, RunnerInv, RunnerTypeOK, OneHolder, timers
  <2>2. ForceKillAimed'
    BY <1>5 DEF OnStarted, RunnerInv, ForceKillAimed, timers
  <2>3. HolderKnown' /\ TimeoutOfHolder'
    BY <1>5 DEF OnStarted, RunnerInv, RunnerTypeOK, OneHolder, HolderKnown, TimeoutOfHolder, Listening, timers
  <2>. QED
    BY <2>1, <2>2, <2>3 DEF RunnerInv
<1>6. CASE OnFailedToStart
  BY <1>6, RunnerFinish, FinishOutcome DEF OnFailedToStart
<1>7. CASE OnFinished
  BY <1>7, RunnerFinish, FinishOutcome DEF OnFinished
<1>8. CASE UNCHANGED runnerVars
  BY <1>8 DEF runnerVars, runner, timers, process, RunnerInv, RunnerTypeOK, OneHolder, ForceKillAimed,
     HolderKnown, TimeoutOfHolder, Listening
<1>. QED
  BY <1>1, <1>2, <1>3, <1>4, <1>5, <1>6, <1>7, <1>8 DEF RunnerNext

\* The inductive invariant of the runner: every call and every slot keeps it.
THEOREM RunnerInvariant == RunnerSpec => []RunnerInv
  BY RunnerInitInv, RunnerStep, PTL DEF RunnerSpec

\* The command that holds the runner is the only one that waits, and a kill that is pending is
\* aimed at its process.
THEOREM RunnerServesHolderAlways == RunnerSpec => []RunnerServesHolder
<1>1. RunnerInv => RunnerServesHolder
  BY DEF RunnerInv, RunnerServesHolder
<1>. QED
  BY <1>1, RunnerInvariant, PTL

(***************************************************************************)
(* The slot: a step of the runner accepts, begins, dooms or completes one  *)
(* command, or leaves the clients with what they know.                     *)
(***************************************************************************)
Held == [job |-> request, gen |-> 0, started |-> hasStarted, forced |-> forced]

Shown == IF active THEN Held ELSE FreeSlot

LEMMA HeldFacts ==
  ASSUME RunnerInv
  PROVE  /\ Busy(Shown) <=> active
         /\ active => /\ Shown = Held
                      /\ Busy(Held) /\ Held.job = request
                      /\ Held.started = hasStarted /\ Held.forced = forced
BY RunnerNames DEF Shown, Held, Busy, FreeSlot, RunnerInv, HolderKnown

\* The actions of the instance, said of Shown.
LEMMA AcceptMeans ==
  ASSUME NEW c, ~Busy(Shown), answer[c] = NotSubmitted, Shown' = Accepted(c, 0),
         answer' = [answer EXCEPT ![c] = Pending]
  PROVE  Slot!Accept(c)
BY DEF Slot!Accept, Slot!Busy, Slot!NoJob, Slot!FreeSlot, Slot!Accepted, Slot!NotSubmitted,
   Slot!Pending, Slot!Unforced, Busy, NoJob, FreeSlot, Accepted, NotSubmitted, Pending, Unforced,
   Shown, Held

LEMMA BeginMeans ==
  ASSUME Busy(Shown), ~Shown.started, Shown' = Began(Shown), answer' = answer
  PROVE  Slot!Begin
BY DEF Slot!Begin, Slot!Busy, Slot!NoJob, Slot!FreeSlot, Slot!Began, Slot!Unforced,
   Busy, NoJob, FreeSlot, Began, Unforced, Shown, Held

LEMMA DoomMeans ==
  ASSUME Busy(Shown), NEW outcome \in ForcedOutcomes, Shown' = Doomed(Shown, outcome),
         answer' = answer
  PROVE  Slot!Doom
BY DEF Slot!Doom, Slot!Busy, Slot!NoJob, Slot!FreeSlot, Slot!Doomed, Slot!Unforced,
   Slot!ForcedOutcomes, Busy, NoJob, FreeSlot, Doomed, Unforced, ForcedOutcomes, Shown, Held

LEMMA CompleteMeans ==
  ASSUME Busy(Shown), NEW result \in Results(Shown),
         answer' = [answer EXCEPT ![Shown.job] = result], Shown' = FreeSlot
  PROVE  Slot!Complete
BY DEF Slot!Complete, Slot!Busy, Slot!NoJob, Slot!FreeSlot, Slot!Results, Slot!Unforced,
   Busy, NoJob, FreeSlot, Results, Unforced, Shown, Held

LEMMA AcceptStep ==
  ASSUME RunnerInv, NEW c \in Commands, Start(c)
  PROVE  Slot!Accept(c)
<1>1. Shown' = Accepted(c, 0)
  BY DEF Start, Shown, Held, Accepted
<1>. QED
  BY <1>1, HeldFacts, AcceptMeans DEF Start, CanSubmit

LEMMA DoomStep ==
  ASSUME RunnerInv, NEW outcome \in ForcedOutcomes, Listening, ForceOut(outcome)
  PROVE  Slot!Doom
<1>1. Shown' = Doomed(Shown, outcome)
  BY DEF ForceOut, Shown, Held, Doomed, Listening
<1>. QED
  BY <1>1, HeldFacts, DoomMeans DEF ForceOut, Listening

LEMMA CompleteStep ==
  ASSUME RunnerInv, NEW outcome, Listening, Finish(outcome),
         [started |-> hasStarted, outcome |-> outcome] \in Results(Held)
  PROVE  Slot!Complete
<1>1. Shown' = FreeSlot
  BY DEF Finish, Shown
<1>2. Shown = Held /\ Shown.job = request
  BY HeldFacts DEF Listening
<1>. QED
  BY <1>1, <1>2, HeldFacts, CompleteMeans DEF Finish, Listening

LEMMA WithStarted ==
  ASSUME NEW job, NEW started, NEW outcome, NEW now
  PROVE  [[job |-> job, gen |-> 0, started |-> started, forced |-> outcome] EXCEPT !.started = now]
           = [job |-> job, gen |-> 0, started |-> now, forced |-> outcome]
OBVIOUS

LEMMA BeganFacts ==
  Began(Held) = [job |-> request, gen |-> 0, started |-> TRUE, forced |-> forced]
BY WithStarted, Zenon DEF Began, Held

LEMMA FinishResult ==
  ASSUME RunnerInv, active, NEW outcome,
         \/ forced # Unforced /\ outcome = forced
         \/ forced = Unforced /\ hasStarted /\ outcome \in {"Success", "NonZeroExit", "Crashed"}
         \/ forced = Unforced /\ ~hasStarted /\ outcome = "FailedToStart"
  PROVE  [started |-> hasStarted, outcome |-> outcome] \in Results(Held)
BY HeldFacts DEF Results, RunnerInv, RunnerTypeOK

LEMMA RunnerSlotStep ==
  ASSUME RunnerInv, [RunnerNext]_runnerVars
  PROVE  [Slot!Next]_<<Shown, answer>>
<1>1. CASE \E c \in Commands : Start(c)
  BY <1>1, AcceptStep DEF Slot!Next
<1>2. CASE Terminate("Cancelled")
  BY <1>2, DoomStep DEF Terminate, ForcedOutcomes, Slot!Next
<1>3. CASE OnTimeout
  BY <1>3, DoomStep DEF OnTimeout, ForcedOutcomes, Slot!Next
<1>4. CASE OnForceKill
  BY <1>4 DEF OnForceKill, runner, Shown, Held
<1>5. CASE OnStarted
  <2>1. CASE Listening
    <3>1. ~hasStarted /\ active
      BY <1>5, <2>1 DEF OnStarted, RunnerInv, HolderKnown, Listening
    <3>2. hasStarted' = TRUE /\ UNCHANGED <<active, request, forced, answer>>
      BY <1>5, <2>1 DEF OnStarted
    <3>3. Shown' = Began(Shown)
      <4>1. Shown' = [job |-> request, gen |-> 0, started |-> TRUE, forced |-> forced]
        BY <3>1, <3>2 DEF Shown, Held
      <4>2. Began(Held) = [job |-> request, gen |-> 0, started |-> TRUE, forced |-> forced]
        BY BeganFacts
      <4>3. Shown = Held
        BY <3>1 DEF Shown
      <4>. QED
        BY <4>1, <4>2, <4>3
    <3>. QED
      BY <3>1, <3>2, <3>3, HeldFacts, BeginMeans DEF Slot!Next
  <2>2. CASE ~Listening
    BY <1>5, <2>2 DEF OnStarted, RunnerInv, HolderKnown, Listening, Shown, Held
  <2>. QED
    BY <2>1, <2>2
<1>6. CASE OnFailedToStart
  <2>1. active /\ ~hasStarted
    BY <1>6 DEF OnFailedToStart, Listening, RunnerInv, HolderKnown
  <2>. QED
    BY <1>6, <2>1, FinishResult, CompleteStep DEF OnFailedToStart, Slot!Next
<1>7. CASE OnFinished
  <2>1. active /\ hasStarted
    BY <1>7 DEF OnFinished, Listening, RunnerInv, HolderKnown
  <2>2. PICK exit \in Exits : Finish(ExitOutcome(exit))
    BY <1>7 DEF OnFinished
  <2>3. [started |-> hasStarted, outcome |-> ExitOutcome(exit)] \in Results(Held)
    BY <2>1, FinishResult DEF ExitOutcome
  <2>. QED
    BY <1>7, <2>2, <2>3, CompleteStep DEF OnFinished, Slot!Next
<1>8. CASE UNCHANGED runnerVars
  BY <1>8 DEF runnerVars, runner, Shown, Held
<1>. QED
  BY <1>1, <1>2, <1>3, <1>4, <1>5, <1>6, <1>7, <1>8 DEF RunnerNext

\* The runner implements the slot that its clients rely on: for any commands, each is accepted
\* while no other holds the runner, and answered once, with the outcome that was forced on it
\* or the one it ended with.
THEOREM ImplementsSlot == RunnerSpec => SlotSpec
<1>1. RunnerInit => Slot!Init
  BY DEF RunnerInit, Slot!Init, Slot!NotSubmitted, NotSubmitted, Slot!FreeSlot, FreeSlot, Slot!NoJob, NoJob,
     Slot!Unforced, Unforced
<1>2. RunnerInv /\ [RunnerNext]_runnerVars => [Slot!Next]_<<Shown, answer>>
  BY RunnerSlotStep
<1>3. RunnerInv /\ [RunnerNext]_runnerVars =>
        [Slot!Next]_<<IF active THEN [job |-> request, gen |-> 0, started |-> hasStarted,
                                      forced |-> forced]
                      ELSE FreeSlot, answer>>
  BY <1>2 DEF Shown, Held
<1>. QED
  BY <1>1, <1>3, RunnerInvariant, PTL DEF RunnerSpec, SlotSpec, Slot!Spec
=============================================================================
