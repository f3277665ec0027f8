-------------------------- MODULE PrefixSetupProofs --------------------------
(***************************************************************************)
(* What holds of PrefixSetup, on its own and between the two windows of    *)
(* PrefixDialog, for every runtime, any number of validations and any      *)
(* number of runs.                                                         *)
(***************************************************************************)
EXTENDS PrefixDialog, TLAPS

(***************************************************************************)
(* The inductive invariant.  Beside the properties that the run checks, it *)
(* says what a job is, that the timers of finalize() are dated and belong  *)
(* to the job that is active, that a job which has removed the marker runs *)
(* without one, and that a command which was cancelled is doomed.          *)
(***************************************************************************)

JobRecords == [active : BOOLEAN, kind : Kinds, queue : Seq(Commands), index : Nat,
               generation : Nat, invalidated : BOOLEAN]

\* The commands that may be cancelled and leave the setup to succeed.
Excused == {NoJob} \cup SucceedsIfReady \cup OptionalCommands

NoInvalidation(queue) == \A i \in DOMAIN queue : queue[i] \notin Invalidates

JobShape ==
  /\ job.active <=> job.kind # "None"
  /\ job.active /\ Busy(slot) => job.index \in DOMAIN job.queue
  /\ job.kind = "Dxvk" => NoInvalidation(job.queue)

RetriesDated ==
  \A retry \in retries :
    /\ retry.gen <= job.generation
    /\ job.active /\ retry.gen = job.generation => retry.kind = job.kind

InvalidatedFirst == job.active /\ job.invalidated => marker = "none"

CancelledDoomed ==
  /\ cancelled # NoJob => job.active
  /\ cancelled \notin Excused => slot.job = cancelled /\ slot.forced # Unforced

IInv ==
  /\ JobAndMarkerAgree
  /\ JobShape
  /\ RetriesDated
  /\ InvalidatedFirst
  /\ CancelledDoomed

(***************************************************************************)
(* The pieces of a step.                                                   *)
(***************************************************************************)

Holders == Commands \cup {"other"}

LEMMA SlotFacts ==
  ASSUME NEW s \in Slots(Holders, Nat)
  PROVE  /\ s.job \in Holders \cup {NoJob} /\ s.gen \in Nat
         /\ FreeSlot \in Slots(Holders, Nat) /\ ~Busy(FreeSlot) /\ FreeSlot.job \notin Commands
         /\ \A outcome \in ForcedOutcomes :
              LET d == Doomed(s, outcome)
              IN  d \in Slots(Holders, Nat) /\ d.job = s.job /\ d.gen = s.gen
                  /\ d.forced # Unforced
         /\ Began(s) \in Slots(Holders, Nat) /\ Began(s).job = s.job /\ Began(s).gen = s.gen
         /\ Began(s).forced = s.forced
BY DEF Slots, FreeSlot, Doomed, Began, Busy, NoJob, Holders, Commands, ForcedOutcomes, Unforced

LEMMA AcceptedFacts ==
  ASSUME NEW command \in Holders, NEW g \in Nat
  PROVE  LET s == Accepted(command, g)
         IN  s \in Slots(Holders, Nat) /\ s.job = command /\ s.gen = g /\ Busy(s)
BY DEF Slots, Accepted, Busy, NoJob, Holders, Commands, ForcedOutcomes, Unforced

LEMMA IdleFacts ==
  ASSUME NEW g \in Nat
  PROVE  LET j == Idle(g)
         IN  j \in JobRecords /\ j.active = FALSE /\ j.kind = "None" /\ j.generation = g
BY DEF JobRecords, Idle, Kinds

\* What advance() and finalize() are called with: a job whose timers have all fired.
Runs(j, others) ==
  /\ j \in JobRecords
  /\ j.active /\ j.kind \in {"Setup", "Dxvk"}
  /\ j.kind = "Dxvk" => NoInvalidation(j.queue)
  /\ others \subseteq retries
  /\ \A retry \in others : retry.gen < j.generation
  /\ j.invalidated => marker = "none"

\* A job is over: whatever has ended it, nothing of it is left to be heard of.
LEMMA EndInv ==
  ASSUME IInv, NEW j \in JobRecords, job.generation <= j.generation,
         ResetState(j),
         slot' \in Slots(Holders, Nat), slot'.job \notin Commands,
         retries' \subseteq retries,
         marker' \in {"none", "current", "other"}, marker' # "none" => RequiredPresent,
         useDxvk' \in BOOLEAN, reported' \in Answers, UNCHANGED <<runtime, disk>>
  PROVE  IInv'
<1>1. /\ job' \in JobRecords /\ job'.active = FALSE /\ job'.kind = "None"
      /\ job'.generation = j.generation + 1
      /\ cancelled' = NoJob
  <2>1. j.generation + 1 \in Nat
    BY DEF JobRecords
  <2>. QED
    BY <2>1, IdleFacts DEF ResetState
<1>2. TypeOK'
  BY <1>1 DEF IInv, JobAndMarkerAgree, TypeOK, disk, JobRecords, Holders
<1>3. OneEventPending'
  BY <1>1 DEF OneEventPending
<1>4. MarkerTruth'
  BY DEF MarkerTruth, RequiredPresent, Found, RequiredPart, disk, Invalidates, Commands
<1>5. JobShape' /\ InvalidatedFirst' /\ CancelledDoomed'
  BY <1>1 DEF JobShape, InvalidatedFirst, CancelledDoomed, Excused
<1>6. RetriesDated'
  BY <1>1 DEF IInv, JobAndMarkerAgree, TypeOK, RetriesDated, JobRecords
<1>. QED
  BY <1>2, <1>3, <1>4, <1>5, <1>6 DEF IInv, JobAndMarkerAgree

LEMMA FailureInv ==
  ASSUME IInv, NEW j \in JobRecords, job.generation <= j.generation,
         NEW dxvk \in BOOLEAN, FinishFailure(j, dxvk),
         slot' \in Slots(Holders, Nat), slot'.job \notin Commands,
         retries' \subseteq retries, marker' \in {marker, "none"}, UNCHANGED <<runtime, disk>>
  PROVE  IInv'
<1>1. /\ ResetState(j) /\ useDxvk' \in BOOLEAN /\ reported' \in Answers
  BY DEF FinishFailure, FinishOptionalDxvkFailure, Answers
<1>2. /\ marker' \in {"none", "current", "other"}
      /\ marker' # "none" => RequiredPresent
  BY DEF IInv, JobAndMarkerAgree, TypeOK, MarkerTruth
<1>. QED
  BY <1>1, <1>2, EndInv

\* finalize(): the job looks again, gives up, or has made the prefix ready.
LEMMA FinalizeInv ==
  ASSUME IInv, cancelled \in Excused,
         NEW others, NEW j, Runs(j, others), job.generation <= j.generation,
         NEW left \in Nat, NEW dxvk \in BOOLEAN, Finalize(j, left, dxvk, others),
         slot' \in Slots(Holders, Nat), ~Busy(slot'), UNCHANGED <<runtime, disk>>
  PROVE  IInv'
<1>1. slot'.job \notin Commands
  BY DEF Busy, NoJob, Commands
<1>2. DxvkSettled(dxvk) \in BOOLEAN
  BY DEF DxvkSettled, Found, DxvkInstalled
<1>3. CASE LookAgain(j, left, dxvk, others)
  <2> DEFINE next == [gen |-> j.generation, left |-> left - 1, kind |-> j.kind]
  <2>1. /\ left - 1 \in Nat
        /\ retries' = others \cup {next}
        /\ job' = [j EXCEPT !.queue = <<>>, !.index = 0]
        /\ useDxvk' = dxvk
        /\ UNCHANGED <<marker, reported, cancelled>>
    BY <1>3 DEF LookAgain
  <2>2. next \in [gen : Nat, left : Nat, kind : Kinds]
    BY <2>1 DEF Runs, JobRecords
  <2>3. /\ job' \in JobRecords /\ job'.active = j.active /\ job'.kind = j.kind
        /\ job'.generation = j.generation /\ job'.queue = <<>>
        /\ job'.invalidated = j.invalidated
    <3>1. <<>> \in Seq(Commands) /\ 0 \in Nat /\ j \in JobRecords
      BY DEF Runs
    <3>. QED
      BY <2>1, <3>1 DEF JobRecords
  <2>4. TypeOK'
    BY <2>1, <2>2, <2>3 DEF IInv, JobAndMarkerAgree, TypeOK, disk, JobRecords, Holders, Runs
  <2>5. OneEventPending'
    <3>1. \A retry \in others : retry.gen # job'.generation
      BY <2>3, <2>4 DEF Runs, TypeOK, JobRecords
    <3>2. {retry \in retries' : retry.gen = job'.generation} = {next}
      BY <2>1, <2>3, <3>1
    <3>. QED
      BY <1>1, <2>1, <3>2 DEF OneEventPending
  <2>6. MarkerTruth'
    BY <1>1, <2>1 DEF IInv, JobAndMarkerAgree, MarkerTruth, RequiredPresent, Found, RequiredPart,
       disk, Invalidates, Commands
  <2>7. JobShape' /\ InvalidatedFirst' /\ CancelledDoomed'
    BY <2>1, <2>3 DEF Runs, JobShape, InvalidatedFirst, CancelledDoomed, NoInvalidation
  <2>8. RetriesDated'
    <3>1. \A retry \in others : retry.gen < j.generation
      BY DEF Runs
    <3>2. \A retry \in others : retry.gen \in Nat
      BY DEF Runs, IInv, JobAndMarkerAgree, TypeOK
    <3>3. j.generation \in Nat
      BY DEF Runs, JobRecords
    <3>. QED
      BY <2>1, <2>3, <3>1, <3>2, <3>3 DEF RetriesDated
  <2>. QED
    BY <2>4, <2>5, <2>6, <2>7, <2>8 DEF IInv, JobAndMarkerAgree
<1>4. CASE GiveUp(j, left, dxvk, others)
  <2>1. retries' \subseteq retries /\ FinishFailure(j, DxvkSettled(dxvk)) /\ marker' = marker
    BY <1>4 DEF GiveUp, Runs
  <2>. QED
    BY <1>1, <1>2, <2>1, FailureInv DEF Runs
<1>5. CASE MarkReady(j, left, dxvk, others)
  <2>1. /\ retries' \subseteq retries /\ ResetState(j)
        /\ marker' = "current" /\ RequiredPresent
        /\ useDxvk' = DxvkSettled(dxvk) /\ reported' = "ok"
    BY <1>5 DEF MarkReady, Runs
  <2>. QED
    BY <1>1, <1>2, <2>1, EndInv DEF Runs, Answers
<1>. QED
  BY <1>3, <1>4, <1>5 DEF Finalize

LEMMA StartInv ==
  ASSUME IInv, cancelled \in Excused,
         NEW j, Runs(j, retries), job.generation <= j.generation, j.index \in DOMAIN j.queue,
         NEW dxvk \in BOOLEAN, StartCommand(j, dxvk), UNCHANGED <<runtime, disk>>
  PROVE  IInv'
<1> DEFINE command == j.queue[j.index]
<1>1. /\ command \in Commands /\ command \in Holders /\ j.generation \in Nat
      /\ j.kind = "Dxvk" => command \notin Invalidates
  BY DEF Runs, JobRecords, Holders, NoInvalidation
<1>2. /\ slot' = Accepted(command, j.generation)
      /\ job' = [j EXCEPT !.invalidated = @ \/ command \in Invalidates]
      /\ useDxvk' = dxvk
      /\ UNCHANGED <<retries, reported, cancelled>>
  BY DEF StartCommand
<1>3. /\ slot' \in Slots(Holders, Nat) /\ slot'.job = command /\ slot'.gen = j.generation
      /\ Busy(slot')
  BY <1>1, <1>2, AcceptedFacts
<1>4. /\ job' \in JobRecords /\ job'.active = j.active /\ job'.kind = j.kind
      /\ job'.generation = j.generation /\ job'.queue = j.queue /\ job'.index = j.index
      /\ job'.invalidated <=> j.invalidated \/ command \in Invalidates
  BY <1>2 DEF Runs, JobRecords
<1>5. /\ marker' \in {marker, "none"}
      /\ job'.invalidated => marker' = "none"
      /\ command \in Invalidates => marker' = "none"
  BY <1>4 DEF StartCommand, MarkerAt, MustInvalidate, Runs
<1>6. TypeOK'
  BY <1>2, <1>3, <1>4, <1>5 DEF IInv, JobAndMarkerAgree, TypeOK, disk, JobRecords, Holders, Runs
<1>7. OneEventPending'
  <2>1. {retry \in retries' : retry.gen = job'.generation} = {}
    BY <1>1, <1>2, <1>4 DEF Runs, IInv, JobAndMarkerAgree, TypeOK
  <2>. QED
    BY <1>3, <1>4, <2>1 DEF OneEventPending, Current, Runs
<1>8. MarkerTruth'
  BY <1>3, <1>5 DEF IInv, JobAndMarkerAgree, MarkerTruth, RequiredPresent, Found,
     RequiredPart, disk
<1>9. JobShape' /\ InvalidatedFirst' /\ CancelledDoomed'
  BY <1>2, <1>4, <1>5 DEF Runs, JobShape, InvalidatedFirst, CancelledDoomed
<1>10. RetriesDated'
  BY <1>1, <1>2, <1>4 DEF Runs, RetriesDated, IInv, JobAndMarkerAgree, TypeOK
<1>. QED
  BY <1>6, <1>7, <1>8, <1>9, <1>10 DEF IInv, JobAndMarkerAgree

\* advance(), from the command at the job's index or past the end of its queue.
LEMMA AdvanceInv ==
  ASSUME IInv, cancelled \in Excused,
         NEW j, Runs(j, retries), job.generation <= j.generation, 1 <= j.index,
         NEW dxvk \in BOOLEAN, Advance(j, dxvk), UNCHANGED <<runtime, disk>>
  PROVE  IInv'
<1>1. PICK next \in j.index .. Len(j.queue) + 1 :
        LET at   == [j EXCEPT !.index = next]
            left == DxvkAfterSkips(j, next, dxvk)
        IN  IF next > Len(j.queue)
            THEN Finalize(at, ValidationRetries, left, retries) /\ slot' = FreeSlot
            ELSE StartCommand(at, left) \/ CannotStart(at, left)
  BY DEF Advance
<1> DEFINE at   == [j EXCEPT !.index = next]
           left == DxvkAfterSkips(j, next, dxvk)
<1>2. /\ Runs(at, retries) /\ at.generation = j.generation /\ at.index = next
      /\ at.queue = j.queue /\ at \in JobRecords
  BY DEF Runs, JobRecords
<1>3. left \in BOOLEAN
  BY DEF DxvkAfterSkips
<1>4. FreeSlot \in Slots(Holders, Nat) /\ ~Busy(FreeSlot) /\ FreeSlot.job \notin Commands
  BY SlotFacts DEF IInv, JobAndMarkerAgree, TypeOK, Holders
<1>5. CASE next > Len(j.queue)
  BY <1>1, <1>2, <1>3, <1>4, <1>5, FinalizeInv, RetriesAssumption
<1>6. CASE next <= Len(j.queue)
  <2>1. at.index \in DOMAIN at.queue
    BY <1>2, <1>6 DEF Runs, JobRecords
  <2>2. CASE StartCommand(at, left)
    BY <1>2, <1>3, <2>1, <2>2, StartInv
  <2>3. CASE CannotStart(at, left)
    <3>1. /\ FinishFailure(at, left) /\ slot' = FreeSlot /\ retries' = retries
          /\ marker' \in {marker, "none"}
      BY <2>3 DEF CannotStart, MarkerAt
    <3>. QED
      BY <1>2, <1>3, <1>4, <3>1, FailureInv
  <2>4. ~(next > Len(j.queue))
    BY <1>6 DEF Runs, JobRecords
  <2>. QED
    BY <1>1, <2>2, <2>3, <2>4
<1>. QED
  BY <1>5, <1>6 DEF Runs, JobRecords

(***************************************************************************)
(* The steps.                                                              *)
(***************************************************************************)

\* The command of the job is done: no timer of the job is left, and what follows in the queue
\* may be run.
LEMMA CompletionFacts ==
  ASSUME IInv, slot.job \in Commands, Current
  PROVE  /\ slot.job = job.queue[job.index] /\ job.index \in DOMAIN job.queue
         /\ Runs(job, retries)
         /\ Runs(NextCommand(job), retries)
         /\ NextCommand(job).generation = job.generation /\ 1 <= NextCommand(job).index
<1>1. Busy(slot) /\ job.active
  BY DEF Busy, Commands, NoJob, Current
<1>2. slot.job = job.queue[job.index] /\ {r \in retries : r.gen = job.generation} = {}
  BY <1>1 DEF IInv, JobAndMarkerAgree, OneEventPending
<1>3. job \in JobRecords
  BY DEF IInv, JobAndMarkerAgree, TypeOK, JobRecords
<1>4. \A r \in retries : r.gen < job.generation
  <2>1. \A r \in retries : r.gen \in Nat /\ r.gen <= job.generation /\ r.gen # job.generation
    BY <1>2 DEF IInv, JobAndMarkerAgree, TypeOK, RetriesDated
  <2>. QED
    BY <1>3, <2>1 DEF JobRecords
<1>5. Runs(job, retries) /\ job.index \in DOMAIN job.queue
  BY <1>1, <1>3, <1>4 DEF Runs, IInv, JobShape, InvalidatedFirst, JobRecords, Kinds
<1>6. /\ NextCommand(job) \in JobRecords
      /\ NextCommand(job).active = job.active
      /\ NextCommand(job).kind = job.kind /\ NextCommand(job).queue = job.queue
      /\ NextCommand(job).index = job.index + 1
      /\ NextCommand(job).generation = job.generation
      /\ NextCommand(job).invalidated = job.invalidated
  BY <1>3 DEF NextCommand, JobRecords
<1>. QED
  BY <1>2, <1>3, <1>5, <1>6 DEF Runs, JobRecords

LEMMA Joined ==
  ASSUME NEW S, NEW a \in Seq(S), NEW b \in Seq(S)
  PROVE  a \o b \in Seq(S)
OBVIOUS

LEMMA PlanTyped ==
  ASSUME NEW dxvk
  PROVE  Plan(dxvk) \in Seq(Commands)
<1>1. /\ <<>> \in Seq(Commands) /\ <<"components">> \in Seq(Commands)
      /\ <<"optionalDxvk">> \in Seq(Commands)
  BY DEF Commands
<1>. QED
  BY <1>1, Joined DEF Plan

LEMMA PlanFacts ==
  ASSUME IInv, slot.job \in Inspects, Current, NEW plan \in Seq(Commands)
  PROVE  /\ Runs(NextCommand(WithPlan(job, plan)), retries)
         /\ NextCommand(WithPlan(job, plan)).generation = job.generation
         /\ 1 <= NextCommand(WithPlan(job, plan)).index
<1> DEFINE longer == WithPlan(job, plan)
<1>1. slot.job \in Commands /\ slot.job \in Invalidates
  BY DEF Inspects, Commands, Invalidates
<1>2. /\ Runs(job, retries) /\ job \in JobRecords
      /\ slot.job = job.queue[job.index] /\ job.index \in DOMAIN job.queue
  BY <1>1, CompletionFacts DEF Runs
<1>3. job.kind # "Dxvk"
  BY <1>1, <1>2 DEF Runs, NoInvalidation
<1>4. /\ SubSeq(job.queue, 1, job.index) \in Seq(Commands)
      /\ SubSeq(job.queue, job.index + 1, Len(job.queue)) \in Seq(Commands)
  BY <1>2 DEF JobRecords
<1>5. /\ longer \in JobRecords
      /\ longer.active = job.active /\ longer.kind = job.kind /\ longer.index = job.index
      /\ longer.generation = job.generation /\ longer.invalidated = job.invalidated
  <2> DEFINE queue == SubSeq(job.queue, 1, job.index) \o plan
                        \o SubSeq(job.queue, job.index + 1, Len(job.queue))
  <2>1. queue \in Seq(Commands)
    BY <1>4, Joined
  <2>2. longer = [job EXCEPT !.queue = queue]
    BY DEF WithPlan
  <2> HIDE DEF queue, longer
  <2>. QED
    BY <1>2, <2>1, <2>2 DEF JobRecords
<1>6. /\ NextCommand(longer) \in JobRecords
      /\ NextCommand(longer).active = job.active
      /\ NextCommand(longer).kind = job.kind
      /\ NextCommand(longer).index = job.index + 1
      /\ NextCommand(longer).generation = job.generation
      /\ NextCommand(longer).invalidated = job.invalidated
  BY <1>5 DEF NextCommand, JobRecords
<1> HIDE DEF longer
<1>. QED
  BY <1>2, <1>3, <1>6 DEF Runs, JobRecords, longer

\* A command that was cancelled did not succeed.
LEMMA CancelledFails ==
  ASSUME IInv, NEW result \in Results(slot), cancelled \notin Excused
  PROVE  result.outcome # "Success" /\ ~ReadyAllTheSame /\ slot.job \notin OptionalCommands
<1>1. slot.job = cancelled /\ slot.forced # Unforced
  BY DEF IInv, CancelledDoomed
<1>2. result.outcome = slot.forced
  BY <1>1 DEF Results
<1>. QED
  BY <1>1, <1>2 DEF Unforced, ReadyAllTheSame, Excused

LEMMA ContinueInv ==
  ASSUME IInv, cancelled \in Excused, slot.job \in Commands, Current,
         Continue(job, useDxvk), UNCHANGED <<runtime, disk>>
  PROVE  IInv'
<1>1. /\ slot.job = job.queue[job.index] /\ Runs(job, retries)
      /\ Runs(NextCommand(job), retries)
      /\ NextCommand(job).generation = job.generation /\ 1 <= NextCommand(job).index
  BY CompletionFacts
<1>2. /\ useDxvk \in BOOLEAN /\ job.generation \in Nat /\ job \in JobRecords
      /\ job.generation <= job.generation
  BY <1>1 DEF IInv, JobAndMarkerAgree, TypeOK, Runs, JobRecords
<1>3. CASE Advance(NextCommand(job), useDxvk) \/ Advance(NextCommand(job), FALSE)
  BY <1>1, <1>2, <1>3, AdvanceInv
<1>4. CASE slot.job \in Inspects /\ Advance(NextCommand(WithPlan(job, Plan(useDxvk))), useDxvk)
  <2>1. Plan(useDxvk) \in Seq(Commands)
    BY PlanTyped
  <2>. QED
    BY <1>2, <1>4, <2>1, PlanFacts, AdvanceInv
<1>5. CASE FinishFailure(job, useDxvk) /\ slot' = FreeSlot /\ UNCHANGED <<retries, marker>>
  <2>1. FreeSlot \in Slots(Holders, Nat) /\ FreeSlot.job \notin Commands
    BY SlotFacts DEF IInv, JobAndMarkerAgree, TypeOK, Holders
  <2>. QED
    BY <1>2, <1>5, <2>1, FailureInv
<1>. QED
  BY <1>1, <1>3, <1>4, <1>5 DEF Continue

LEMMA CommandDoneInv ==
  ASSUME IInv, CommandDone
  PROVE  IInv'
<1>1. slot.job \in Commands /\ UNCHANGED <<runtime, disk>>
  BY DEF CommandDone
<1>2. FreeSlot \in Slots(Holders, Nat) /\ FreeSlot.job \notin Commands /\ ~Busy(FreeSlot)
  BY SlotFacts DEF IInv, JobAndMarkerAgree, TypeOK, Holders
<1>3. Current
  BY <1>1 DEF IInv, JobAndMarkerAgree, OneEventPending
<1>4. PICK result \in Results(slot) : OnCompletion(result.outcome = "Success")
  BY <1>3 DEF CommandDone
<1>5. CASE cancelled \in Excused
  <2>1. CASE Continue(job, useDxvk)
    BY <1>1, <1>3, <1>5, <2>1, ContinueInv
  <2>2. CASE Advance(NextCommand(job), FALSE)
    <3>1. job.generation <= job.generation
      BY DEF IInv, JobAndMarkerAgree, TypeOK
    <3>. QED
      BY <1>1, <1>3, <1>5, <2>2, <3>1, CompletionFacts, AdvanceInv
  <2>3. CASE FinishFailure(job, useDxvk) /\ slot' = FreeSlot /\ UNCHANGED <<retries, marker>>
    <3>1. job.generation <= job.generation /\ job \in JobRecords /\ useDxvk \in BOOLEAN
      BY DEF IInv, JobAndMarkerAgree, TypeOK, JobRecords
    <3>. QED
      BY <1>1, <1>2, <2>3, <3>1, FailureInv
  <2>. QED
    BY <1>4, <2>1, <2>2, <2>3 DEF OnCompletion
<1>6. CASE cancelled \notin Excused
  <2>1. FinishFailure(job, useDxvk) /\ slot' = FreeSlot /\ UNCHANGED <<retries, marker>>
    BY <1>4, <1>6, CancelledFails DEF OnCompletion
  <2>2. job.generation <= job.generation /\ job \in JobRecords /\ useDxvk \in BOOLEAN
    BY DEF IInv, JobAndMarkerAgree, TypeOK, JobRecords
  <2>. QED
    BY <1>1, <1>2, <2>1, <2>2, FailureInv
<1>. QED
  BY <1>5, <1>6

LEMMA RetryInv ==
  ASSUME IInv, Retry
  PROVE  IInv'
<1>1. PICK retry \in retries :
        /\ UNCHANGED <<runtime, slot, disk>>
        /\ \/ /\ RetryIsCurrent(retry)
              /\ Finalize([job EXCEPT !.kind = retry.kind], retry.left, useDxvk, retries \ {retry})
           \/ /\ ~RetryIsCurrent(retry)
              /\ retries' = retries \ {retry}
              /\ UNCHANGED <<job, useDxvk, marker, reported, cancelled>>
  BY DEF Retry
<1>2. /\ job \in JobRecords /\ useDxvk \in BOOLEAN /\ slot \in Slots(Holders, Nat)
      /\ retry.left \in Nat /\ job.generation <= job.generation
      /\ \A r \in retries : r.gen \in Nat
  BY DEF IInv, JobAndMarkerAgree, TypeOK, JobRecords, Holders
<1>3. CASE RetryIsCurrent(retry)
  <2>1. job.active /\ retry.gen = job.generation /\ retry.kind = job.kind
    BY <1>3 DEF RetryIsCurrent, IInv, RetriesDated
  <2>2. [job EXCEPT !.kind = retry.kind] = job
    BY <1>2, <2>1 DEF JobRecords
  <2>3. ~Busy(slot)
    BY <2>1 DEF IInv, JobAndMarkerAgree, OneEventPending
  <2>4. \A r \in retries \ {retry} : r.gen < job.generation
    <3>1. PICK only \in retries : {r \in retries : r.gen = job.generation} = {only}
      BY <2>1, <2>3 DEF IInv, JobAndMarkerAgree, OneEventPending
    <3>2. \A r \in retries \ {retry} : r.gen # job.generation
      BY <2>1, <3>1
    <3>. QED
      BY <1>2, <3>2 DEF IInv, RetriesDated, JobRecords
  <2>5. Runs(job, retries \ {retry})
    BY <1>2, <2>1, <2>4 DEF Runs, IInv, JobShape, InvalidatedFirst, JobRecords, Kinds
  <2>6. cancelled \in Excused
    BY <2>3 DEF IInv, CancelledDoomed, Busy, Excused
  <2>7. Finalize(job, retry.left, useDxvk, retries \ {retry})
    BY <1>1, <1>3, <2>2
  <2>8. slot' \in Slots(Holders, Nat) /\ ~Busy(slot') /\ UNCHANGED <<runtime, disk>>
    BY <1>1, <1>2, <2>3
  <2>. QED
    BY <1>2, <2>5, <2>6, <2>7, <2>8, FinalizeInv
<1>4. CASE ~RetryIsCurrent(retry)
  <2>1. /\ retries' = retries \ {retry}
        /\ UNCHANGED <<runtime, slot, disk, job, useDxvk, marker, reported, cancelled>>
    BY <1>1, <1>4
  <2>2. job.active => retry.gen # job.generation
    BY <1>4 DEF RetryIsCurrent
  <2>3. /\ TypeOK' /\ MarkerTruth' /\ JobShape' /\ InvalidatedFirst' /\ CancelledDoomed'
        /\ RetriesDated'
    BY <2>1 DEF IInv, JobAndMarkerAgree, TypeOK, MarkerTruth, JobShape, InvalidatedFirst,
       CancelledDoomed, RetriesDated, RequiredPresent, Found, RequiredPart, disk
  <2>4. OneEventPending'
    <3>1. job.active => {r \in retries' : r.gen = job'.generation}
                          = {r \in retries : r.gen = job.generation}
      BY <2>1, <2>2
    <3>2. Current' <=> Current
      BY <2>1 DEF Current
    <3>3. \A r \in retries :
            job.active /\ {q \in retries : q.gen = job.generation} = {r} => r \in retries'
      BY <2>1, <2>2
    <3>. QED
      BY <2>1, <3>1, <3>2, <3>3 DEF IInv, JobAndMarkerAgree, OneEventPending
  <2>. QED
    BY <2>3, <2>4 DEF IInv, JobAndMarkerAgree
<1>. QED
  BY <1>3, <1>4

\* run_setup(): nothing is left of an earlier run.
LEMMA PreparedFacts ==
  ASSUME IInv, ~ShellBusy, NEW kind \in {"Setup", "Dxvk"}, NEW commands \in Seq(Commands),
         kind = "Dxvk" => NoInvalidation(commands)
  PROVE  /\ Runs(Prepared(kind, commands), retries)
         /\ job.generation <= Prepared(kind, commands).generation
         /\ Prepared(kind, commands).index = 1
         /\ cancelled \in Excused
<1>1. job.generation \in Nat /\ \A r \in retries : r.gen \in Nat /\ r.gen <= job.generation
  BY DEF IInv, JobAndMarkerAgree, TypeOK, RetriesDated
<1>2. ~job.active
  BY DEF ShellBusy
<1>3. cancelled \in Excused
  BY <1>2 DEF IInv, CancelledDoomed, Excused
<1>. QED
  BY <1>1, <1>3 DEF Prepared, Runs, JobRecords, Kinds

\* The user is answered, and nothing of the job, the runner or the disk has changed.
LEMMA AnswerInv ==
  ASSUME IInv, useDxvk' \in BOOLEAN, reported' \in Answers,
         UNCHANGED <<runtime, job, retries, slot, disk, marker, cancelled>>
  PROVE  IInv'
BY DEF IInv, JobAndMarkerAgree, TypeOK, MarkerTruth, JobShape, InvalidatedFirst, OneEventPending,
   Current, CancelledDoomed, RetriesDated, RequiredPresent, Found, RequiredPart, disk

LEMMA SetupQueueFacts ==
  ASSUME IInv
  PROVE  SetupQueue \in Seq(Commands)
<1>1. <<"version", "wineboot">> \in Seq(Commands) /\ <<"umu">> \in Seq(Commands)
      /\ <<"version", "wineboot", "registry", "registry", "registry">> \in Seq(Commands)
  BY DEF Commands
<1>2. runtime \in {"wine", "proton", "macos"}
  BY RuntimesAssumption DEF IInv, JobAndMarkerAgree, TypeOK
<1>. QED
  BY <1>1, <1>2 DEF SetupQueue

LEMMA SetupInv ==
  ASSUME IInv, Setup
  PROVE  IInv'
<1>1. CASE \/ Rejected(useDxvk)
           \/ /\ reported' = "failed"
              /\ UNCHANGED <<job, retries, slot, useDxvk, disk, marker, cancelled>>
  BY <1>1, AnswerInv DEF Rejected, Setup, Answers, IInv, JobAndMarkerAgree, TypeOK
<1>2. CASE ~ShellBusy /\ Advance(Prepared("Setup", SetupQueue), useDxvk) /\ UNCHANGED disk
  <2>1. SetupQueue \in Seq(Commands)
    BY SetupQueueFacts
  <2>2. UNCHANGED <<runtime, disk>> /\ useDxvk \in BOOLEAN
    BY <1>2 DEF Setup, IInv, JobAndMarkerAgree, TypeOK
  <2>. QED
    BY <1>2, <2>1, <2>2, PreparedFacts, AdvanceInv
<1>. QED
  BY <1>1, <1>2 DEF Setup

LEMMA ToggleInv ==
  ASSUME IInv, ToggleDxvk
  PROVE  IInv'
<1>1. /\ UNCHANGED runtime /\ job \in JobRecords /\ job.generation \in Nat
      /\ slot \in Slots(Holders, Nat) /\ useDxvk \in BOOLEAN
  BY DEF ToggleDxvk, IInv, JobAndMarkerAgree, TypeOK, JobRecords, Holders
<1>2. CASE Rejected(~useDxvk) \/ (useDxvk' = ~useDxvk /\ reported' = "none"
              /\ UNCHANGED <<job, retries, slot, disk, marker, cancelled>>)
  BY <1>1, <1>2, AnswerInv DEF Rejected, Answers
<1>3. CASE /\ ~ShellBusy /\ UNCHANGED <<retries, slot, disk, marker>>
           /\ FinishOptionalDxvkFailure([job EXCEPT !.active = TRUE, !.kind = "Dxvk"])
  <2>1. ResetState(job) /\ useDxvk' \in BOOLEAN /\ reported' \in Answers
    BY <1>1, <1>3 DEF FinishOptionalDxvkFailure, ResetState, JobRecords, Answers
  <2>2. slot' \in Slots(Holders, Nat) /\ slot'.job \notin Commands
    BY <1>1, <1>3 DEF ShellBusy, Busy, NoJob, Commands
  <2>3. /\ job.generation <= job.generation /\ retries' \subseteq retries
        /\ marker' \in {"none", "current", "other"} /\ (marker' # "none" => RequiredPresent)
    BY <1>1, <1>3 DEF IInv, JobAndMarkerAgree, TypeOK, MarkerTruth
  <2>. QED
    BY <1>1, <1>3, <2>1, <2>2, <2>3, EndInv
<1>4. CASE ~ShellBusy /\ Advance(Prepared("Dxvk", <<"dxvk">>), TRUE) /\ UNCHANGED disk
  <2>1. <<"dxvk">> \in Seq(Commands) /\ NoInvalidation(<<"dxvk">>)
    BY DEF Commands, NoInvalidation, Invalidates
  <2> DEFINE j == Prepared("Dxvk", <<"dxvk">>)
  <2>2. Runs(j, retries) /\ job.generation <= j.generation /\ j.index = 1 /\ cancelled \in Excused
    BY <1>4, <2>1, PreparedFacts
  <2>3. Advance(j, TRUE)
    BY <1>4
  <2>4. UNCHANGED runtime /\ UNCHANGED disk
    BY <1>1, <1>4
  <2> HIDE DEF j
  <2>5. 1 <= j.index
    BY <2>2
  <2>. QED
    BY <2>2, <2>3, <2>4, <2>5, AdvanceInv
<1>. QED
  BY <1>2, <1>3, <1>4 DEF ToggleDxvk

LEMMA CancelInv ==
  ASSUME IInv, Cancel
  PROVE  IInv'
<1>1. UNCHANGED <<runtime, disk>> /\ job.active /\ slot \in Slots(Holders, Nat)
      /\ job \in JobRecords /\ job.generation <= job.generation /\ useDxvk \in BOOLEAN
  BY DEF Cancel, IInv, JobAndMarkerAgree, TypeOK, JobRecords, Holders
<1>2. CASE Busy(slot) /\ slot' = Terminated(slot, "Cancelled") /\ cancelled' = slot.job
           /\ UNCHANGED <<job, retries, useDxvk, disk, marker, reported>>
  <2>1. slot' = Doomed(slot, "Cancelled")
    BY <1>2 DEF Terminated
  <2>2. /\ slot' \in Slots(Holders, Nat) /\ slot'.job = slot.job /\ slot'.gen = slot.gen
        /\ slot'.forced # Unforced /\ (Busy(slot') <=> Busy(slot))
    BY <1>1, <2>1, SlotFacts DEF ForcedOutcomes, Busy
  <2>3. slot.job = job.queue[job.index] /\ job.index \in DOMAIN job.queue
    BY <1>1, <1>2 DEF IInv, JobAndMarkerAgree, OneEventPending, JobShape
  <2>4. slot.job \in Commands
    BY <1>1, <2>3 DEF JobRecords
  <2>5. TypeOK'
    BY <1>1, <1>2, <2>2, <2>4 DEF IInv, JobAndMarkerAgree, TypeOK, Holders, disk
  <2>6. OneEventPending' /\ MarkerTruth'
    BY <1>1, <1>2, <2>2 DEF IInv, JobAndMarkerAgree, OneEventPending, MarkerTruth, Current,
       RequiredPresent, Found, RequiredPart, disk
  <2>7. JobShape' /\ RetriesDated' /\ InvalidatedFirst'
    BY <1>2, <2>2 DEF IInv, JobShape, RetriesDated, InvalidatedFirst
  <2>8. CancelledDoomed'
    BY <1>1, <1>2, <2>2 DEF CancelledDoomed
  <2>. QED
    BY <2>5, <2>6, <2>7, <2>8 DEF IInv, JobAndMarkerAgree
<1>3. CASE ~Busy(slot) /\ FinishFailure(job, useDxvk) /\ UNCHANGED <<retries, slot, disk, marker>>
  <2>1. slot' \in Slots(Holders, Nat) /\ slot'.job \notin Commands
    BY <1>1, <1>3 DEF Busy, NoJob, Commands
  <2>. QED
    BY <1>1, <1>3, <2>1, FailureInv
<1>. QED
  BY <1>2, <1>3 DEF Cancel

\* The runner: the command is started, or is doomed.
LEMMA SlotStepInv ==
  ASSUME IInv, slot' \in Slots(Holders, Nat), slot'.job = slot.job, slot'.gen = slot.gen,
         slot.forced # Unforced => slot'.forced # Unforced,
         UNCHANGED <<runtime, job, retries, useDxvk, disk, marker, reported, cancelled>>
  PROVE  IInv'
<1>1. Busy(slot') <=> Busy(slot)
  BY DEF Busy
<1>2. TypeOK' /\ MarkerTruth'
  BY DEF IInv, JobAndMarkerAgree, TypeOK, Holders, MarkerTruth, RequiredPresent, Found,
     RequiredPart, disk
<1>3. OneEventPending'
  BY <1>1 DEF IInv, JobAndMarkerAgree, OneEventPending, Current
<1>4. JobShape' /\ RetriesDated' /\ InvalidatedFirst' /\ CancelledDoomed'
  BY <1>1 DEF IInv, JobShape, RetriesDated, InvalidatedFirst, CancelledDoomed
<1>. QED
  BY <1>2, <1>3, <1>4 DEF IInv, JobAndMarkerAgree

\* The runner is taken or given back by one of its other clients while no job is active.
LEMMA OtherInv ==
  ASSUME IInv, OtherCommand
  PROVE  IInv'
<1>1. UNCHANGED <<runtime, job, retries, useDxvk, disk, marker, reported, cancelled>>
  BY DEF OtherCommand
<1>2. ~job.active
  <2>1. CASE slot.job = "other"
    <3>1. Busy(slot) /\ "other" \notin Commands
      BY <2>1 DEF Busy, NoJob, Commands
    <3>2. job.active => slot.job = job.queue[job.index] /\ job.index \in DOMAIN job.queue
      BY <3>1 DEF IInv, JobAndMarkerAgree, OneEventPending, JobShape
    <3>. QED
      BY <2>1, <3>1, <3>2 DEF IInv, JobAndMarkerAgree, TypeOK
  <2>. QED
    BY <2>1 DEF OtherCommand
<1>3. slot' \in Slots(Holders, Nat) /\ slot'.job \notin Commands
  <2>1. FreeSlot \in Slots(Holders, Nat) /\ FreeSlot.job \notin Commands
    BY SlotFacts DEF IInv, JobAndMarkerAgree, TypeOK, Holders
  <2>2. LET s == Accepted("other", 0) IN s \in Slots(Holders, Nat) /\ s.job \notin Commands
    BY AcceptedFacts DEF Holders, Commands
  <2>. QED
    BY <2>1, <2>2 DEF OtherCommand
<1>4. TypeOK' /\ MarkerTruth'
  BY <1>1, <1>3 DEF IInv, JobAndMarkerAgree, TypeOK, Holders, MarkerTruth, RequiredPresent, Found,
     RequiredPart, disk, Invalidates, Commands
<1>5. OneEventPending' /\ JobShape' /\ RetriesDated' /\ InvalidatedFirst'
  BY <1>1, <1>2, <1>3 DEF OneEventPending, JobShape, RetriesDated, InvalidatedFirst, IInv
<1>6. CancelledDoomed'
  BY <1>1, <1>2 DEF IInv, CancelledDoomed, Excused
<1>. QED
  BY <1>4, <1>5, <1>6 DEF IInv, JobAndMarkerAgree

\* What Wine and the installers do to the prefix.
LEMMA DiskInv ==
  ASSUME IInv, CommandWorks \/ RegistryWritten
  PROVE  IInv'
<1>1. UNCHANGED <<runtime, job, retries, slot, useDxvk, marker, reported, cancelled>>
  BY DEF CommandWorks, RegistryWritten
<1>2. prefix' \in SUBSET Parts /\ late' \in SUBSET Parts
  BY DEF CommandWorks, RegistryWritten, IInv, JobAndMarkerAgree, TypeOK, Installs, Parts
<1>3. prefix \subseteq prefix' \/ slot.job \in Invalidates
  BY DEF CommandWorks, RegistryWritten
<1>4. MarkerTruth'
  BY <1>1, <1>3 DEF IInv, JobAndMarkerAgree, MarkerTruth, RequiredPresent, Found, RequiredPart
<1>5. /\ TypeOK' /\ OneEventPending' /\ JobShape' /\ RetriesDated' /\ InvalidatedFirst'
      /\ CancelledDoomed'
  BY <1>1, <1>2 DEF IInv, JobAndMarkerAgree, TypeOK, OneEventPending, Current, JobShape,
     RetriesDated, InvalidatedFirst, CancelledDoomed
<1>. QED
  BY <1>4, <1>5 DEF IInv, JobAndMarkerAgree

LEMMA SelectInv ==
  ASSUME IInv, SelectRuntime
  PROVE  IInv'
<1>1. /\ UNCHANGED <<runtime, job, retries, slot, useDxvk, disk, reported, cancelled>>
      /\ ~job.active /\ marker # "none" /\ marker' \in {"current", "other"}
  BY DEF SelectRuntime
<1>2. TypeOK' /\ MarkerTruth'
  BY <1>1 DEF IInv, JobAndMarkerAgree, TypeOK, MarkerTruth, RequiredPresent, Found,
     RequiredPart, disk
<1>3. OneEventPending' /\ JobShape' /\ RetriesDated' /\ InvalidatedFirst' /\ CancelledDoomed'
  BY <1>1 DEF IInv, JobAndMarkerAgree, OneEventPending, Current, JobShape, RetriesDated,
     InvalidatedFirst, CancelledDoomed
<1>. QED
  BY <1>2, <1>3 DEF IInv, JobAndMarkerAgree

\* The launcher begins, or begins again: what is on the disk is all there is.
LEMMA FreshInv ==
  ASSUME TypeOK, marker # "none" => RequiredPresent,
         job' = Idle(0), retries' = {}, slot' = FreeSlot, reported' = "none", cancelled' = NoJob,
         UNCHANGED <<useDxvk, disk, marker, runtime>>
  PROVE  IInv'
<1>1. job' \in JobRecords /\ job'.active = FALSE /\ job'.kind = "None" /\ job'.generation = 0
  BY IdleFacts
<1>2. FreeSlot \in Slots(Holders, Nat) /\ ~Busy(FreeSlot) /\ FreeSlot.job \notin Commands
  BY SlotFacts DEF TypeOK, Holders
<1>3. TypeOK'
  BY <1>1, <1>2 DEF TypeOK, disk, JobRecords, Holders, Answers, NoJob
<1>4. OneEventPending' /\ JobShape' /\ RetriesDated' /\ InvalidatedFirst' /\ CancelledDoomed'
  BY <1>1, <1>2 DEF OneEventPending, JobShape, RetriesDated, InvalidatedFirst, CancelledDoomed,
     Excused
<1>5. MarkerTruth'
  BY <1>2 DEF MarkerTruth, RequiredPresent, Found, RequiredPart, disk, Invalidates, Commands
<1>. QED
  BY <1>3, <1>4, <1>5 DEF IInv, JobAndMarkerAgree

\* cancel() of Shell, with no job active: another client's command is cancelled.
LEMMA CancelOtherInv ==
  ASSUME IInv, CancelOther
  PROVE  IInv'
<1>1. /\ slot \in Slots(Holders, Nat)
      /\ UNCHANGED <<runtime, job, retries, useDxvk, disk, marker, reported, cancelled>>
      /\ slot' = IF Busy(slot) THEN Terminated(slot, "Cancelled") ELSE slot
  BY DEF CancelOther, IInv, JobAndMarkerAgree, TypeOK, Holders
<1>2. /\ slot' \in Slots(Holders, Nat) /\ slot'.job = slot.job /\ slot'.gen = slot.gen
      /\ (slot.forced # Unforced => slot'.forced # Unforced)
  BY <1>1, SlotFacts DEF Terminated, ForcedOutcomes
<1>. QED
  BY <1>1, <1>2, SlotStepInv

LEMMA SlotInv ==
  ASSUME IInv, SlotBegins \/ SlotTimesOut
  PROVE  IInv'
<1>1. /\ slot \in Slots(Holders, Nat)
      /\ UNCHANGED <<runtime, job, retries, useDxvk, disk, marker, reported, cancelled>>
      /\ slot' \in {Began(slot), Doomed(slot, "TimedOut")}
  BY DEF SlotBegins, SlotTimesOut, IInv, JobAndMarkerAgree, TypeOK, Holders
<1>2. /\ slot' \in Slots(Holders, Nat) /\ slot'.job = slot.job /\ slot'.gen = slot.gen
      /\ (slot.forced # Unforced => slot'.forced # Unforced)
  BY <1>1, SlotFacts DEF ForcedOutcomes
<1>. QED
  BY <1>1, <1>2, SlotStepInv

LEMMA InitInv ==
  ASSUME Init
  PROVE  IInv
<1>1. job \in JobRecords /\ job.active = FALSE /\ job.kind = "None" /\ job.generation = 0
  BY IdleFacts DEF Init
<1>2. /\ slot = FreeSlot /\ FreeSlot \in Slots(Holders, Nat) /\ ~Busy(FreeSlot)
      /\ FreeSlot.job \notin Commands
  BY DEF Init, Slots, FreeSlot, Busy, NoJob, Holders, Commands, ForcedOutcomes, Unforced
<1>3. TypeOK
  BY <1>1, <1>2 DEF Init, TypeOK, JobRecords, Holders, Answers, NoJob
<1>4. MarkerTruth /\ OneEventPending
  BY <1>1, <1>2 DEF Init, MarkerTruth, OneEventPending, Invalidates, Commands
<1>5. JobShape /\ RetriesDated /\ InvalidatedFirst /\ CancelledDoomed
  BY <1>1, <1>2 DEF Init, JobShape, RetriesDated, InvalidatedFirst, CancelledDoomed, Excused
<1>. QED
  BY <1>3, <1>4, <1>5 DEF IInv, JobAndMarkerAgree

LEMMA NextInv ==
  ASSUME IInv, Next \/ CancelOther \/ UNCHANGED vars
  PROVE  IInv'
<1>1. CASE CommandDone
  BY <1>1, CommandDoneInv
<1>2. CASE SlotBegins \/ SlotTimesOut
  BY <1>2, SlotInv
<1>3. CASE Retry
  BY <1>3, RetryInv
<1>4. CASE Setup
  BY <1>4, SetupInv
<1>5. CASE ToggleDxvk
  BY <1>5, ToggleInv
<1>6. CASE Cancel
  BY <1>6, CancelInv
<1>7. CASE SelectRuntime
  BY <1>7, SelectInv
<1>8. CASE OtherCommand
  BY <1>8, OtherInv
<1>9. CASE CommandWorks \/ RegistryWritten
  BY <1>9, DiskInv
<1>10. CASE Restart
  <2>1. TypeOK /\ (marker # "none" => RequiredPresent)
    BY DEF IInv, JobAndMarkerAgree, MarkerTruth
  <2>. QED
    BY <1>10, <2>1, FreshInv DEF Restart
<1>11. CASE CancelOther
  BY <1>11, CancelOtherInv
<1>12. CASE UNCHANGED vars
  <2>1. slot \in Slots(Holders, Nat)
    BY DEF IInv, JobAndMarkerAgree, TypeOK, Holders
  <2>. QED
    BY <1>12, <2>1, SlotStepInv DEF vars
<1>. QED
  BY <1>1, <1>2, <1>3, <1>4, <1>5, <1>6, <1>7, <1>8, <1>9, <1>10, <1>11, <1>12 DEF Next

\* A step of the two windows is one of the job or leaves the job alone.
LEMMA DialogStep ==
  ASSUME [DialogNext]_<<vars, dialog>>
  PROVE  Next \/ CancelOther \/ UNCHANGED vars
BY DEF DialogNext, Next, Switch, OpenWindow, CloseWindow, Install, CloseProgress, KeepRunning,
   CancelSetup, BarFull, TimerHides

\* The inductive invariant holds of the job whether or not the windows are looked at.
THEOREM SetupInvariant == (Spec => []IInv) /\ (DialogSpec => []IInv)
<1>1. Init => IInv
  BY InitInv
<1>2. IInv /\ [Next]_vars => IInv'
  BY NextInv
<1>3. DialogInit => IInv
  BY InitInv DEF DialogInit
<1>4. IInv /\ [DialogNext]_<<vars, dialog>> => IInv'
  BY DialogStep, NextInv
<1>5. Spec => []IInv
  BY <1>1, <1>2, PTL DEF Spec
<1>6. DialogSpec => []IInv
  BY <1>3, <1>4, PTL DEF DialogSpec
<1>. QED
  BY <1>5, <1>6

\* JobAndMarkerAgree, for every runtime and any number of runs and validations: the job waits for
\* exactly one event, and a marker on the disk stands for a prefix that has what is required.
THEOREM JobAndMarkerAgreeAlways == DialogSpec => []JobAndMarkerAgree
<1>1. IInv => JobAndMarkerAgree
  BY DEF IInv
<1>. QED
  BY <1>1, SetupInvariant, PTL

(***************************************************************************)
(* SetupSuccessEarned.                                                     *)
(***************************************************************************)

Earned ==
  /\ marker' = "current"
  /\ useDxvk' => runtime = "proton" \/ "dxvk" \in prefix'

\* Only finalize() with the marker written reports the success of a setup.
LEMMA FinalizeEarned ==
  ASSUME NEW j, NEW left, NEW dxvk, NEW others, Finalize(j, left, dxvk, others),
         j.kind # "Dxvk", Reports("ok"), UNCHANGED disk
  PROVE  Earned
<1>1. CASE LookAgain(j, left, dxvk, others)
  BY <1>1 DEF LookAgain, Reports
<1>2. CASE GiveUp(j, left, dxvk, others)
  BY <1>2 DEF GiveUp, FinishFailure, Reports
<1>3. CASE MarkReady(j, left, dxvk, others)
  BY <1>3 DEF MarkReady, DxvkSettled, DxvkInstalled, Found, disk, Earned
<1>. QED
  BY <1>1, <1>2, <1>3 DEF Finalize

LEMMA AdvanceEarned ==
  ASSUME NEW j, Runs(j, retries), NEW dxvk, Advance(j, dxvk), j.kind # "Dxvk", Reports("ok"),
         UNCHANGED disk
  PROVE  Earned
<1>1. PICK next \in j.index .. Len(j.queue) + 1 :
        LET at   == [j EXCEPT !.index = next]
            left == DxvkAfterSkips(j, next, dxvk)
        IN  IF next > Len(j.queue)
            THEN Finalize(at, ValidationRetries, left, retries) /\ slot' = FreeSlot
            ELSE StartCommand(at, left) \/ CannotStart(at, left)
  BY DEF Advance
<1> DEFINE at   == [j EXCEPT !.index = next]
           left == DxvkAfterSkips(j, next, dxvk)
<1>2. at.kind # "Dxvk"
  BY DEF Runs, JobRecords
<1>3. CASE Finalize(at, ValidationRetries, left, retries)
  BY <1>2, <1>3, FinalizeEarned
<1>4. CASE StartCommand(at, left)
  BY <1>4 DEF StartCommand, Reports
<1>5. CASE CannotStart(at, left)
  BY <1>2, <1>5 DEF CannotStart, FinishFailure, Reports
<1>. QED
  BY <1>1, <1>3, <1>4, <1>5

\* What a command of a setup leaves to run is still that setup.
LEMMA ContinueEarned ==
  ASSUME IInv, slot.job \in Commands, Current, job.kind = "Setup", Reports("ok"), UNCHANGED disk,
         Continue(job, useDxvk)
  PROVE  Earned
<1>1. /\ Runs(job, retries) /\ Runs(NextCommand(job), retries) /\ job \in JobRecords
      /\ slot.job = job.queue[job.index]
  BY CompletionFacts DEF Runs
<1>2. NextCommand(job).kind # "Dxvk"
  BY <1>1 DEF NextCommand, JobRecords
<1>3. CASE \E dxvk \in {useDxvk, FALSE} : Advance(NextCommand(job), dxvk)
  BY <1>1, <1>2, <1>3, AdvanceEarned
<1>4. CASE slot.job \in Inspects /\ Advance(NextCommand(WithPlan(job, Plan(useDxvk))), useDxvk)
  <2> DEFINE queue == SubSeq(job.queue, 1, job.index) \o Plan(useDxvk)
                        \o SubSeq(job.queue, job.index + 1, Len(job.queue))
             longer == WithPlan(job, Plan(useDxvk))
  <2>1. Plan(useDxvk) \in Seq(Commands)
    BY PlanTyped
  <2>2. Runs(NextCommand(longer), retries)
    BY <1>4, <2>1, PlanFacts
  <2>3. NextCommand(longer).kind # "Dxvk"
    <3>1. longer = [job EXCEPT !.queue = queue]
      BY DEF WithPlan
    <3> HIDE DEF queue
    <3>. QED
      BY <1>1, <3>1 DEF NextCommand, JobRecords
  <2> HIDE DEF longer
  <2>. QED
    BY <1>4, <2>2, <2>3, AdvanceEarned DEF longer
<1>5. CASE FinishFailure(job, useDxvk)
  BY <1>5 DEF FinishFailure, Reports
<1>. QED
  BY <1>1, <1>3, <1>4, <1>5 DEF Continue

LEMMA StepEarned ==
  ASSUME IInv, Next \/ CancelOther, job.kind = "Setup", Reports("ok")
  PROVE  Earned /\ cancelled \in Excused
<1>1. job.active /\ job \in JobRecords
  BY DEF IInv, JobAndMarkerAgree, TypeOK, JobRecords, JobShape
<1>2. CASE CommandDone
  <2>1. slot.job \in Commands /\ Current /\ UNCHANGED disk
    BY <1>2 DEF CommandDone, IInv, JobAndMarkerAgree, OneEventPending
  <2>2. PICK result \in Results(slot) : OnCompletion(result.outcome = "Success")
    BY <1>2, <2>1 DEF CommandDone
  <2>3. ~FinishFailure(job, useDxvk)
    BY DEF FinishFailure, Reports
  <2>4. \/ Continue(job, useDxvk) /\ (result.outcome = "Success" \/ ReadyAllTheSame)
        \/ Advance(NextCommand(job), FALSE) /\ slot.job \in OptionalCommands
    BY <2>2, <2>3 DEF OnCompletion
  <2>5. cancelled \in Excused
    BY <2>4, CancelledFails
  <2>6. CASE Advance(NextCommand(job), FALSE)
    <3>1. Runs(NextCommand(job), retries) /\ NextCommand(job).kind # "Dxvk"
      BY <1>1, <2>1, CompletionFacts DEF NextCommand, JobRecords
    <3>. QED
      BY <2>1, <2>5, <2>6, <3>1, AdvanceEarned
  <2>. QED
    BY <2>1, <2>4, <2>5, <2>6, ContinueEarned
<1>3. CASE Retry
  <2>1. PICK retry \in retries :
          /\ UNCHANGED disk
          /\ \/ /\ RetryIsCurrent(retry)
                /\ Finalize([job EXCEPT !.kind = retry.kind], retry.left, useDxvk,
                            retries \ {retry})
             \/ UNCHANGED reported
    BY <1>3 DEF Retry
  <2>2. /\ RetryIsCurrent(retry)
        /\ Finalize([job EXCEPT !.kind = retry.kind], retry.left, useDxvk, retries \ {retry})
    BY <2>1 DEF Reports
  <2>3. retry.kind = job.kind
    BY <2>2 DEF RetryIsCurrent, IInv, RetriesDated
  <2>4. [job EXCEPT !.kind = retry.kind] = job
    BY <1>1, <2>3 DEF JobRecords
  <2>5. Earned
    BY <2>1, <2>2, <2>4, FinalizeEarned
  <2>6. ~Busy(slot)
    BY <2>2 DEF RetryIsCurrent, IInv, JobAndMarkerAgree, OneEventPending
  <2>7. cancelled \in Excused
    BY <2>6 DEF IInv, CancelledDoomed, Busy, Excused
  <2>. QED
    BY <2>5, <2>7
<1>4. CASE Setup \/ ToggleDxvk
  BY <1>1, <1>4 DEF Setup, ToggleDxvk, ShellBusy, Rejected, Reports
<1>5. CASE Cancel
  BY <1>5 DEF Cancel, FinishFailure, Reports
<1>6. CASE SlotBegins \/ SlotTimesOut \/ SelectRuntime \/ OtherCommand \/ CommandWorks
             \/ RegistryWritten \/ Restart \/ CancelOther
  BY <1>6 DEF SlotBegins, SlotTimesOut, SelectRuntime, OtherCommand, CommandWorks,
     RegistryWritten, Restart, CancelOther, Reports
<1>. QED
  BY <1>2, <1>3, <1>4, <1>5, <1>6 DEF Next

\* SetupSuccessEarned: however the commands of a setup ended, whatever was skipped, looked for
\* again or cancelled, success is reported only with the marker written and DXVK settled.
THEOREM SetupSuccessEarnedAlways == DialogSpec => SetupSuccessEarned
<1>1. IInv /\ [DialogNext]_<<vars, dialog>>
        => [job.kind = "Setup" /\ Reports("ok")
              => /\ marker' = "current"
                 /\ useDxvk' => runtime = "proton" \/ "dxvk" \in prefix'
                 /\ cancelled \in {NoJob} \cup SucceedsIfReady \cup OptionalCommands]_vars
  BY DialogStep, StepEarned DEF Earned, Excused
<1>. QED
  BY <1>1, SetupInvariant, PTL DEF DialogSpec, SetupSuccessEarned

(***************************************************************************)
(* DxvkKeepsMarker.                                                        *)
(***************************************************************************)

LEMMA FinalizeKeeps ==
  ASSUME NEW j, NEW left, NEW dxvk, NEW others, Finalize(j, left, dxvk, others),
         job'.kind = "Dxvk"
  PROVE  marker' = marker
BY DEF Finalize, LookAgain, GiveUp, MarkReady, FinishFailure, FinishOptionalDxvkFailure,
   ResetState, Idle

LEMMA AdvanceKeeps ==
  ASSUME NEW j, Runs(j, retries), 1 <= j.index, NEW dxvk, Advance(j, dxvk), job'.kind = "Dxvk"
  PROVE  marker' = marker
<1>1. PICK next \in j.index .. Len(j.queue) + 1 :
        LET at   == [j EXCEPT !.index = next]
            left == DxvkAfterSkips(j, next, dxvk)
        IN  IF next > Len(j.queue)
            THEN Finalize(at, ValidationRetries, left, retries) /\ slot' = FreeSlot
            ELSE StartCommand(at, left) \/ CannotStart(at, left)
  BY DEF Advance
<1> DEFINE at   == [j EXCEPT !.index = next]
           left == DxvkAfterSkips(j, next, dxvk)
<1>2. at \in JobRecords /\ at.kind = j.kind /\ at.queue = j.queue /\ at.index = next
  BY DEF Runs, JobRecords
<1>3. CASE next > Len(j.queue)
  BY <1>1, <1>3, FinalizeKeeps
<1>4. CASE ~(next > Len(j.queue))
  <2>1. next \in DOMAIN j.queue
    BY <1>4 DEF Runs, JobRecords
  <2>2. CASE StartCommand(at, left)
    <3>1. job'.kind = at.kind
      BY <1>2, <2>2 DEF StartCommand, JobRecords
    <3>2. at.queue[at.index] \notin Invalidates
      BY <1>2, <2>1, <3>1 DEF Runs, NoInvalidation
    <3>. QED
      BY <2>2, <3>2 DEF StartCommand, MarkerAt, MustInvalidate
  <2>3. CASE CannotStart(at, left)
    BY <2>3 DEF CannotStart, FinishFailure, FinishOptionalDxvkFailure, ResetState, Idle
  <2>. QED
    BY <1>1, <1>4, <2>2, <2>3
<1>. QED
  BY <1>3, <1>4

LEMMA StepKeeps ==
  ASSUME IInv, Next \/ CancelOther, job'.kind = "Dxvk"
  PROVE  marker' = marker
<1>1. job \in JobRecords
  BY DEF IInv, JobAndMarkerAgree, TypeOK, JobRecords
<1>2. CASE CommandDone
  <2>1. slot.job \in Commands /\ Current
    BY <1>2 DEF CommandDone, IInv, JobAndMarkerAgree, OneEventPending
  <2>2. \/ Continue(job, useDxvk)
        \/ Advance(NextCommand(job), FALSE)
        \/ UNCHANGED marker
    BY <1>2, <2>1 DEF CommandDone, OnCompletion
  <2>3. /\ Runs(NextCommand(job), retries) /\ 1 <= NextCommand(job).index
        /\ slot.job = job.queue[job.index]
    BY <2>1, CompletionFacts
  <2>4. CASE \E dxvk \in {useDxvk, FALSE} : Advance(NextCommand(job), dxvk)
    BY <2>3, <2>4, AdvanceKeeps
  <2>5. CASE slot.job \in Inspects /\ Advance(NextCommand(WithPlan(job, Plan(useDxvk))), useDxvk)
    <3>1. Plan(useDxvk) \in Seq(Commands)
      BY PlanTyped
    <3>. QED
      BY <2>1, <2>5, <3>1, PlanFacts, AdvanceKeeps
  <2>. QED
    BY <2>2, <2>3, <2>4, <2>5 DEF Continue
<1>3. CASE Retry
  BY <1>3, FinalizeKeeps DEF Retry
<1>4. CASE Setup
  <2>1. CASE UNCHANGED marker
    BY <2>1
  <2>2. CASE ~ShellBusy /\ Advance(Prepared("Setup", SetupQueue), useDxvk)
    <3>1. SetupQueue \in Seq(Commands)
      BY SetupQueueFacts
    <3>. QED
      BY <2>2, <3>1, PreparedFacts, AdvanceKeeps
  <2>. QED
    BY <1>4, <2>1, <2>2 DEF Setup, Rejected
<1>5. CASE ToggleDxvk
  <2>1. CASE UNCHANGED marker
    BY <2>1
  <2>2. CASE ~ShellBusy /\ Advance(Prepared("Dxvk", <<"dxvk">>), TRUE)
    <3>1. <<"dxvk">> \in Seq(Commands) /\ NoInvalidation(<<"dxvk">>)
      BY DEF Commands, NoInvalidation, Invalidates
    <3> DEFINE j == Prepared("Dxvk", <<"dxvk">>)
    <3>2. Runs(j, retries) /\ j.index = 1
      BY <2>2, <3>1, PreparedFacts
    <3>3. Advance(j, TRUE)
      BY <2>2
    <3> HIDE DEF j
    <3>4. 1 <= j.index
      BY <3>2
    <3>. QED
      BY <3>2, <3>3, <3>4, AdvanceKeeps
  <2>. QED
    BY <1>5, <2>1, <2>2 DEF ToggleDxvk, Rejected
<1>6. CASE SelectRuntime
  <2>1. ~job.active /\ job' = job
    BY <1>6 DEF SelectRuntime
  <2>. QED
    BY <2>1 DEF IInv, JobShape
<1>7. CASE Cancel
  BY <1>7 DEF Cancel
<1>8. CASE SlotBegins \/ SlotTimesOut \/ OtherCommand \/ CommandWorks \/ RegistryWritten
             \/ Restart \/ CancelOther
  BY <1>8 DEF SlotBegins, SlotTimesOut, OtherCommand, CommandWorks, RegistryWritten, Restart,
     CancelOther
<1>. QED
  BY <1>2, <1>3, <1>4, <1>5, <1>6, <1>7, <1>8 DEF Next

\* DxvkKeepsMarker: switching DXVK on, whether it works, fails or is cancelled, leaves a ready
\* prefix ready.
THEOREM DxvkKeepsMarkerAlways == DialogSpec => DxvkKeepsMarker
<1>1. IInv /\ [DialogNext]_<<vars, dialog>>
        => [job'.kind = "Dxvk" /\ marker = "current" => marker' = "current"]_vars
  BY DialogStep, StepKeeps
<1>. QED
  BY <1>1, SetupInvariant, PTL DEF DialogSpec, DxvkKeepsMarker

(***************************************************************************)
(* ProgressTruthful.                                                       *)
(***************************************************************************)

Dialogs ==
  [open : BOOLEAN, installing : BOOLEAN, hidden : BOOLEAN, says : Tellings, asks : BOOLEAN,
   timer : BOOLEAN, again : BOOLEAN]

Truthful == dialog \in Dialogs /\ ProgressTruthful

LEMMA HeardFacts ==
  ASSUME NEW d \in Dialogs
  PROVE  LET h == Heard(d)
         IN  /\ h \in Dialogs /\ h.installing = FALSE /\ h.open = d.open /\ h.hidden = d.hidden
             /\ h.again = d.again
             /\ Visible(d) => h.says # "starting"
BY DEF Heard, Dialogs, Visible, Tellings

LEMMA WindowFacts ==
  ASSUME NEW d \in Dialogs
  PROVE  /\ Unshown(d) \in Dialogs /\ ~Visible(Unshown(d)) /\ Unshown(d).installing = d.installing
         /\ \A again \in BOOLEAN :
              LET s == Shown(d, again)
              IN  /\ s \in Dialogs /\ s.installing = d.installing /\ s.open = d.open
                  /\ s.again = again /\ s.hidden = FALSE
BY DEF Unshown, Shown, Dialogs, Visible, Tellings

\* A job that is not answered before the call returns is under way when it does.
LEMMA AdvanceUnderWay ==
  ASSUME NEW j, Runs(j, retries), NEW dxvk, Advance(j, dxvk)
  PROVE  job'.active \/ reported' # "none"
<1>1. PICK next \in j.index .. Len(j.queue) + 1 :
        LET at   == [j EXCEPT !.index = next]
            left == DxvkAfterSkips(j, next, dxvk)
        IN  IF next > Len(j.queue)
            THEN Finalize(at, ValidationRetries, left, retries) /\ slot' = FreeSlot
            ELSE StartCommand(at, left) \/ CannotStart(at, left)
  BY DEF Advance
<1> DEFINE at   == [j EXCEPT !.index = next]
           left == DxvkAfterSkips(j, next, dxvk)
<1>2. at \in JobRecords /\ at.active
  BY DEF Runs, JobRecords
<1>3. CASE LookAgain(at, ValidationRetries, left, retries)
  BY <1>2, <1>3 DEF LookAgain, JobRecords
<1>4. CASE GiveUp(at, ValidationRetries, left, retries)
  BY <1>4 DEF GiveUp, FinishFailure, FinishOptionalDxvkFailure
<1>5. CASE MarkReady(at, ValidationRetries, left, retries)
  BY <1>5 DEF MarkReady
<1>6. CASE StartCommand(at, left)
  BY <1>2, <1>6 DEF StartCommand, JobRecords
<1>7. CASE CannotStart(at, left)
  BY <1>7 DEF CannotStart, FinishFailure, FinishOptionalDxvkFailure
<1>. QED
  BY <1>1, <1>3, <1>4, <1>5, <1>6, <1>7 DEF Finalize

LEMMA SetupUnderWay ==
  ASSUME IInv, Setup
  PROVE  AnsweredAtOnce \/ job'.active
<1>1. CASE ~ShellBusy /\ Advance(Prepared("Setup", SetupQueue), useDxvk)
  BY <1>1, SetupQueueFacts, PreparedFacts, AdvanceUnderWay DEF AnsweredAtOnce
<1>2. CASE ~ShellBusy /\ reported' = "failed" /\ UNCHANGED job
  BY <1>2 DEF AnsweredAtOnce, ShellBusy
<1>3. CASE Rejected(useDxvk)
  BY <1>3 DEF AnsweredAtOnce, Rejected
<1>. QED
  BY <1>1, <1>2, <1>3 DEF Setup

\* Outside the windows a job is only ended, never begun.
LEMMA JobSteps ==
  ASSUME IInv, CommandDone \/ Retry
  PROVE  job.active \/ UNCHANGED job
BY DEF CommandDone, Retry, RetryIsCurrent, Current, IInv, JobAndMarkerAgree, OneEventPending

LEMMA HearsInv ==
  ASSUME Truthful, Hears, job.active \/ UNCHANGED job
  PROVE  Truthful'
<1>1. CASE JobEnds
  BY <1>1, HeardFacts DEF Hears, Truthful, ProgressTruthful, Visible, Dialogs
<1>2. CASE ~JobEnds
  BY <1>2 DEF Hears, JobEnds, Truthful, ProgressTruthful, Visible
<1>. QED
  BY <1>1, <1>2

LEMMA SwitchInv ==
  ASSUME Truthful, Switch
  PROVE  Truthful'
<1>1. dialog' \in {dialog, Heard(dialog)} /\ ~dialog.open
  BY DEF Switch
<1>2. CASE dialog' = Heard(dialog)
  BY <1>1, <1>2, HeardFacts DEF Truthful, ProgressTruthful, Visible, Dialogs
<1>3. CASE ~AnsweredAtOnce /\ dialog' = dialog
  BY <1>1, <1>3 DEF AnsweredAtOnce, ShellBusy, Truthful, ProgressTruthful, Visible
<1>. QED
  BY <1>1, <1>2, <1>3 DEF Switch

LEMMA InstallInv ==
  ASSUME IInv, Truthful, Install
  PROVE  Truthful'
<1> DEFINE asked == [dialog EXCEPT !.installing = TRUE]
           begun == Shown(asked, FALSE)
<1>1. asked \in Dialogs /\ asked.open
  BY DEF Truthful, Dialogs, Install
<1>2. begun \in Dialogs /\ Visible(begun)
  BY <1>1, WindowFacts DEF Visible
<1>3. dialog' = IF AnsweredAtOnce THEN Heard(begun) ELSE begun
  BY DEF Install
<1>4. AnsweredAtOnce \/ job'.active
  BY SetupUnderWay DEF Install
<1> HIDE DEF begun
<1>5. CASE AnsweredAtOnce
  BY <1>2, <1>3, <1>5, HeardFacts DEF Truthful, ProgressTruthful, Visible, Dialogs
<1>6. CASE ~AnsweredAtOnce
  BY <1>2, <1>3, <1>4, <1>6 DEF Truthful, ProgressTruthful, Dialogs
<1>. QED
  BY <1>5, <1>6

LEMMA CancelSetupInv ==
  ASSUME Truthful, CancelSetup
  PROVE  Truthful'
<1> DEFINE after == IF JobEnds THEN Heard(dialog) ELSE dialog
<1>1. after \in Dialogs /\ (after.installing => dialog.installing /\ ~JobEnds)
  BY HeardFacts DEF Truthful
<1>2. Unshown(after) \in Dialogs /\ ~Visible(Unshown(after))
      /\ Unshown(after).installing = after.installing
  BY <1>1, WindowFacts
<1> DEFINE gone == Unshown(after)
<1>3. dialog' = [gone EXCEPT !.asks = FALSE]
  BY DEF CancelSetup
<1>4. dialog.installing => job.active
  BY DEF Truthful, ProgressTruthful
<1> HIDE DEF gone
<1>5. dialog' \in Dialogs /\ ~Visible(dialog') /\ dialog'.installing = gone.installing
  BY <1>2, <1>3 DEF gone, Visible, Dialogs
<1>6. dialog'.installing => job'.active
  BY <1>1, <1>2, <1>4, <1>5 DEF gone, JobEnds
<1>. QED
  BY <1>5, <1>6 DEF Truthful, ProgressTruthful, Dialogs

\* The windows move while the job stands still.
LEMMA WindowInv ==
  ASSUME Truthful, UNCHANGED job,
         OpenWindow \/ CloseWindow \/ CloseProgress \/ KeepRunning \/ BarFull \/ TimerHides
  PROVE  Truthful'
<1>1. dialog \in Dialogs /\ (dialog.installing => job'.active)
  BY DEF Truthful, ProgressTruthful
<1>2. CASE OpenWindow
  <2> DEFINE opened == [dialog EXCEPT !.open = TRUE]
  <2>1. opened \in Dialogs /\ opened.installing = dialog.installing
        /\ opened.hidden = dialog.hidden
    BY <1>1 DEF Dialogs
  <2>2. CASE dialog.hidden
    BY <1>1, <1>2, <2>1, <2>2 DEF OpenWindow, Truthful, ProgressTruthful, Visible, Dialogs
  <2>3. CASE ~dialog.hidden
    <3>1. dialog' = Shown(opened, TRUE)
      BY <1>2, <2>3 DEF OpenWindow
    <3> HIDE DEF opened
    <3>. QED
      BY <1>1, <2>1, <3>1, WindowFacts DEF Truthful, ProgressTruthful, Dialogs
  <2>. QED
    BY <2>2, <2>3
<1>3. CASE CloseWindow
  BY <1>1, <1>3 DEF CloseWindow, Truthful, ProgressTruthful, Visible, Dialogs, Tellings
<1>4. CASE CloseProgress
  <2>1. CASE dialog' = [dialog EXCEPT !.asks = TRUE]
    BY <1>1, <2>1 DEF Truthful, ProgressTruthful, Visible, Dialogs
  <2>2. CASE dialog' = Unshown(dialog)
    BY <1>1, <2>2, WindowFacts DEF Truthful, ProgressTruthful, Dialogs
  <2>. QED
    BY <1>4, <2>1, <2>2 DEF CloseProgress
<1>5. CASE KeepRunning \/ BarFull
  <2>1. CASE dialog' = [dialog EXCEPT !.asks = FALSE]
    BY <1>1, <2>1 DEF Truthful, ProgressTruthful, Visible, Dialogs
  <2>2. CASE dialog' = [dialog EXCEPT !.timer = TRUE]
    BY <1>1, <2>2 DEF Truthful, ProgressTruthful, Visible, Dialogs
  <2>. QED
    BY <1>5, <2>1, <2>2 DEF KeepRunning, BarFull
<1>6. CASE TimerHides
  <2> DEFINE gone == Unshown(dialog)
  <2>1. gone \in Dialogs /\ ~Visible(gone) /\ gone.installing = dialog.installing
    BY <1>1, WindowFacts
  <2>2. dialog' = [gone EXCEPT !.timer = FALSE]
    BY <1>6 DEF TimerHides
  <2> HIDE DEF gone
  <2>. QED
    BY <1>1, <2>1, <2>2 DEF Truthful, ProgressTruthful, Visible, Dialogs
<1>. QED
  BY <1>2, <1>3, <1>4, <1>5, <1>6

\* ProgressTruthful: between any job, its end, its cancel and the two windows, the dialog never
\* says "Starting..." over nothing, and the buttons of WineInstall never stay disabled.
THEOREM ProgressTruthfulAlways == DialogSpec => []ProgressTruthful
<1>1. DialogInit => Truthful
  BY DEF DialogInit, Hidden, Truthful, ProgressTruthful, Dialogs, Visible, Tellings
<1>2. IInv /\ Truthful /\ [DialogNext]_<<vars, dialog>> => Truthful'
  <2> SUFFICES ASSUME IInv, Truthful, [DialogNext]_<<vars, dialog>>
               PROVE  Truthful'
    OBVIOUS
  <2>1. CASE (CommandDone \/ Retry) /\ Hears
    BY <2>1, JobSteps, HearsInv
  <2>2. CASE /\ SlotBegins \/ SlotTimesOut \/ SelectRuntime \/ OtherCommand \/ CommandWorks
                  \/ RegistryWritten
             /\ UNCHANGED dialog
    <3>1. UNCHANGED job
      BY <2>2 DEF SlotBegins, SlotTimesOut, SelectRuntime, OtherCommand, CommandWorks,
         RegistryWritten
    <3>. QED
      BY <2>2, <3>1 DEF Truthful, ProgressTruthful, Visible
  <2>3. CASE Restart /\ dialog' = Hidden
    BY <2>3 DEF Hidden, Truthful, ProgressTruthful, Dialogs, Visible, Tellings
  <2>4. CASE Switch
    BY <2>4, SwitchInv
  <2>5. CASE Install
    BY <2>5, InstallInv
  <2>6. CASE CancelSetup
    BY <2>6, CancelSetupInv
  <2>7. CASE OpenWindow \/ CloseWindow \/ CloseProgress \/ KeepRunning \/ BarFull \/ TimerHides
    <3>1. UNCHANGED job
      BY <2>7 DEF OpenWindow, CloseWindow, CloseProgress, KeepRunning, BarFull, TimerHides, vars
    <3>. QED
      BY <2>7, <3>1, WindowInv
  <2>8. CASE UNCHANGED <<vars, dialog>>
    BY <2>8 DEF vars, Truthful, ProgressTruthful, Visible
  <2>. QED
    BY <2>1, <2>2, <2>3, <2>4, <2>5, <2>6, <2>7, <2>8 DEF DialogNext
<1>3. Truthful => ProgressTruthful
  BY DEF Truthful
<1>. QED
  BY <1>1, <1>2, <1>3, SetupInvariant, PTL DEF DialogSpec
=============================================================================
