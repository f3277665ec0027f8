----------------------------- MODULE CommandSlot -----------------------------
(***************************************************************************)
(* What ProcessRunner promises its clients (GameSession, PrefixSetupJob    *)
(* and Shell::run_command): one command at a time; every accepted command  *)
(* is answered by one completion; a command that was cancelled or has      *)
(* timed out is never answered with the outcome of a command that ran its  *)
(* course.  ProcessRunner implements this module.                          *)
(***************************************************************************)
EXTENDS Command, Naturals

CONSTANT Commands       \* identities of the commands that clients submit

VARIABLES slot,         \* the command that holds the runner, if any
          answer        \* answer[c]: what completion was called with for c

NotSubmitted == [started |-> FALSE, outcome |-> "not submitted"]
Pending      == [started |-> FALSE, outcome |-> "pending"]

Init ==
  /\ slot   = FreeSlot
  /\ answer = [c \in Commands |-> NotSubmitted]

Accept(c) ==
  /\ ~Busy(slot)
  /\ answer[c] = NotSubmitted
  /\ slot'   = Accepted(c, 0)
  /\ answer' = [answer EXCEPT ![c] = Pending]

Begin ==
  /\ Busy(slot)
  /\ ~slot.started
  /\ slot' = Began(slot)
  /\ UNCHANGED answer

Doom ==
  /\ Busy(slot)
  /\ \E outcome \in ForcedOutcomes : slot' = Doomed(slot, outcome)
  /\ UNCHANGED answer

Complete ==
  /\ Busy(slot)
  /\ \E result \in Results(slot) : answer' = [answer EXCEPT ![slot.job] = result]
  /\ slot' = FreeSlot

Next ==
  \/ \E c \in Commands : Accept(c)
  \/ Begin
  \/ Doom
  \/ Complete

Spec == Init /\ [][Next]_<<slot, answer>>
=============================================================================
