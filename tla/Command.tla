------------------------------- MODULE Command -------------------------------
(***************************************************************************)
(* The vocabulary the launcher's runtime components share about the one   *)
(* external command that ProcessRunner may be running for them            *)
(* (include/runtime/ProcessRunner.hpp): the outcomes of a command, and     *)
(* the slot as a client sees it - whose command it is, whether the         *)
(* operating system has started it, and the outcome that terminate() or    *)
(* the timeout has already forced on it.                                   *)
(***************************************************************************)

Outcomes == {"Success", "NonZeroExit", "FailedToStart", "Crashed", "TimedOut", "Cancelled"}

\* forced_outcome_ holds Success as long as nothing has been forced.
Unforced      == "Success"
ForcedOutcomes == {"TimedOut", "Cancelled"}

NoJob    == "none"
FreeSlot == [job |-> NoJob, gen |-> 0, started |-> FALSE, forced |-> Unforced]

Busy(slot) == slot.job # NoJob

\* start() was accepted for job `job`, issued in the client's generation `gen`.
Accepted(job, gen) == [job |-> job, gen |-> gen, started |-> FALSE, forced |-> Unforced]

\* QProcess::started arrived.
Began(slot) == [slot EXCEPT !.started = TRUE]

\* terminate(outcome), or the timeout: the outcome is decided, the process is
\* still there.
Doomed(slot, outcome) == [slot EXCEPT !.forced = outcome]

\* (mutant of Terminated: the command is left alone)
NotTerminated(slot, outcome) == slot

\* terminate() is a no-op when no command is active.
Terminated(slot, outcome) == IF Busy(slot) THEN Doomed(slot, outcome) ELSE slot

\* What the one completion call of a command may carry.
Results(slot) ==
  [started : {slot.started},
   outcome : IF slot.forced # Unforced THEN {slot.forced}
             ELSE IF slot.started      THEN {"Success", "NonZeroExit", "Crashed"}
                                       ELSE {"FailedToStart"}]

Slots(Jobs, Gens) ==
  [job : Jobs \cup {NoJob}, gen : Gens, started : BOOLEAN, forced : ForcedOutcomes \cup {Unforced}]
=============================================================================
