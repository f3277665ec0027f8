---------------------------- MODULE PrefixDialog ----------------------------
(***************************************************************************)
(* PrefixSetup with the two windows it is started, watched and cancelled   *)
(* in: WineInstall, an overlay that MainWindow opens and closes as the     *)
(* stage changes, and PrefixProgress, a child of it.  Both hear            *)
(* Shell::wine_setup_finished, which does not say what has finished.       *)
(***************************************************************************)
EXTENDS PrefixSetup

VARIABLE dialog

Tellings == {"starting", "ok", "failed"}

\* WineInstall, and PrefixProgress in it: open and installing of the one; hidden, what it
\* says while it is visible, whether it asks for confirmation, and the timer that hides it
\* when its bar is full, of the other.  again is history: it was shown because WineInstall was.
Hidden ==
  [open |-> FALSE, installing |-> FALSE, hidden |-> TRUE, says |-> "starting",
   asks |-> FALSE, timer |-> FALSE, again |-> FALSE]

Visible(d) == d.open /\ ~d.hidden

\* showEvent(), which Qt also calls for a child that was never hidden itself.
Shown(d, again) == [d EXCEPT !.hidden = FALSE, !.says = "starting", !.again = again]

\* (mutant of Unshown: the dialog is hidden with its parent, and not itself)
UnshownByParent(d) == [d EXCEPT !.says = "starting", !.again = FALSE]

\* hide(): what it said does not matter any more.
Unshown(d) == [d EXCEPT !.hidden = TRUE, !.says = "starting", !.again = FALSE]

\* wine_setup_finished(ok), of whatever it is.
Heard(d) ==
  [d EXCEPT !.installing = FALSE,
            !.says = IF ~Visible(d) THEN @ ELSE IF reported' = "ok" THEN "ok" ELSE "failed"]

DialogInit == Init /\ dialog = Hidden

(***************************************************************************)
(* What the job does                                                       *)
(***************************************************************************)
JobEnds == job.active /\ ~job'.active

Hears == dialog' = IF JobEnds THEN Heard(dialog) ELSE dialog

\* A request that is refused, or over at once, is answered before the call returns.
AnsweredAtOnce == ShellBusy \/ (~job'.active /\ reported' # "none")

\* The switch is in the settings, which are reached when WineInstall is closed.
Switch ==
  /\ ~dialog.open
  /\ ToggleDxvk
  /\ dialog' = IF AnsweredAtOnce THEN Heard(dialog) ELSE dialog

(***************************************************************************)
(* The windows                                                             *)
(***************************************************************************)
OpenWindow ==
  /\ ~dialog.open
  /\ LET opened == [dialog EXCEPT !.open = TRUE]
     IN  dialog' = IF dialog.hidden THEN opened ELSE Shown(opened, TRUE)
  /\ UNCHANGED vars

\* MainWindow closes it, or its own buttons.  The bar of its child stands still from now on.
CloseWindow ==
  /\ dialog.open
  /\ dialog' = [dialog EXCEPT !.open = FALSE, !.says = "starting", !.again = FALSE]
  /\ UNCHANGED vars

\* start_install()
Install ==
  /\ dialog.open /\ dialog.hidden /\ ~dialog.installing
  /\ Setup
  /\ LET begun == Shown([dialog EXCEPT !.installing = TRUE], FALSE)
     IN  dialog' = IF AnsweredAtOnce THEN Heard(begun) ELSE begun

\* The close button of PrefixProgress; whether there is something to cancel is decided here.
CloseProgress ==
  /\ Visible(dialog) /\ ~dialog.asks
  /\ dialog' = IF ShellBusy THEN [dialog EXCEPT !.asks = TRUE] ELSE Unshown(dialog)
  /\ UNCHANGED vars

KeepRunning ==
  /\ dialog.asks
  /\ dialog' = [dialog EXCEPT !.asks = FALSE]
  /\ UNCHANGED vars

\* Shell::cancel_current(): what is under way now is cancelled, whatever it is.
CancelOther ==
  /\ ~job.active
  /\ slot' = IF Busy(slot) THEN Terminated(slot, "Cancelled") ELSE slot
  /\ UNCHANGED <<runtime, job, retries, useDxvk, disk, marker, reported, cancelled>>

CancelSetup ==
  /\ dialog.asks
  /\ Cancel \/ CancelOther
  /\ dialog' = [Unshown(IF JobEnds THEN Heard(dialog) ELSE dialog) EXCEPT !.asks = FALSE]

BarFull ==
  /\ Visible(dialog) /\ dialog.says = "ok" /\ ~dialog.timer
  /\ dialog' = [dialog EXCEPT !.timer = TRUE]
  /\ UNCHANGED vars

TimerHides ==
  /\ dialog.timer
  /\ dialog' = [Unshown(dialog) EXCEPT !.timer = FALSE]
  /\ UNCHANGED vars

DialogNext ==
  \/ CommandDone /\ Hears
  \/ Retry /\ Hears
  \/ SlotBegins /\ UNCHANGED dialog
  \/ SlotTimesOut /\ UNCHANGED dialog
  \/ SelectRuntime /\ UNCHANGED dialog
  \/ OtherCommand /\ UNCHANGED dialog
  \/ CommandWorks /\ UNCHANGED dialog
  \/ RegistryWritten /\ UNCHANGED dialog
  \/ Restart /\ dialog' = Hidden
  \/ Switch \/ OpenWindow \/ CloseWindow \/ Install
  \/ CloseProgress \/ KeepRunning \/ CancelSetup \/ BarFull \/ TimerHides

DialogSpec == DialogInit /\ [][DialogNext]_<<vars, dialog>> /\ Fairness

(***************************************************************************)
(* Properties                                                              *)
(***************************************************************************)
(* PrefixProgress says "Starting..." only of a setup that is under way:    *)
(* whoever closes it then, and confirms at once, cancels that setup and    *)
(* nothing else.  The exception is the dialog that comes back with         *)
(* WineInstall because only WineInstall was hidden (showEvent).  And the   *)
(* buttons of WineInstall are disabled at most while a setup is under way. *)
ProgressTruthful ==
  /\ dialog.says \in Tellings
  /\ Visible(dialog) /\ dialog.says = "starting" => job.active \/ dialog.again
  /\ dialog.installing => job.active
=============================================================================
