------------------------------ MODULE Prelaunch ------------------------------
(***************************************************************************)
(* From the button that starts the game to its start: InstallState, the    *)
(* main window and its dialogs, the Courier bridge and the operations of   *)
(* Courier.  A launch is requested, the launcher looks for an update of    *)
(* itself, asks for the game's version, has its files checked, and starts  *)
(* the game; meanwhile the user repairs, updates, cancels or changes to    *)
(* the other game, the integrity watcher reports files, config.json is     *)
(* edited, and the threads of Courier post what they have to say to the    *)
(* event queue of the user interface, late or in vain.                     *)
(*                                                                         *)
(* A signal of Qt calls its slots before emit returns: one event of the    *)
(* user interface is one step, and what it does is the composition of what *)
(* the slots do.  Hence the one variable ui, and the operators that map    *)
(* its value before a call to its value after it.                          *)
(***************************************************************************)
EXTENDS Naturals, Sequences, FiniteSets

CONSTANTS
  Games,       \* each with its own install directory
  OpIds,       \* ids of operations, used again once nobody knows them
  MaxPosted,   \* the user waits while so many events are queued (a bound)
  Setups       \* whether commands of a setup are run (a bound)

ASSUME OpIdsAssumption == OpIds \subseteq Nat \ {0}
ASSUME SetupsAssumption == Setups \in BOOLEAN

Dialogs  == {"update", "repair", "install"}    \* the DownloadProgress dialogs
Couriers == Dialogs \cup {"checker"}           \* theirs, and InstallState's

Operation == [id : OpIds, kind : {"version", "integrity", "transfer"}, game : Games]

NoOp == [id |-> 0]

Outcomes(kind) == CASE kind = "version"   -> {"ok", "outdated", "failed"}
                    [] kind = "integrity" -> {"ok", "damaged", "failed"}
                    [] kind = "transfer"  -> {"ok", "failed"}

Stages == {"Failed", "Running", "SettingUpPrefix", "Updating", "Downloading", "NeedsPrefix",
           "NeedsDownload", "CheckingUpdate", "NeedsUpdate", "Ready"}

\* What can lie over the window: the dialogs (the one of an installation is part of the
\* installation's overlay), the list of changed files, the setup, the launcher's own update.
Overlays == Dialogs \cup {"files", "setup", "offer"}

VARIABLES
  ui,        \* all that belongs to the thread of the user interface
  reports,   \* what a thread of Courier has decided to report and not posted yet
  world,     \* what is on the disk
  strayed    \* history: a launch or its check has met a change of the game

vars == <<ui, reports, world, strayed>>

Status(op, what) == [event |-> "status", op |-> op, what |-> what]
Context(d)       == [event |-> "context", dialog |-> d]
ProbeEvent       == [event |-> "probe"]

(***************************************************************************)
(* Operations                                                              *)
(***************************************************************************)
Known(u) == {u.op} \cup u.active \cup {u.running[c] : c \in Couriers}
              \cup {u.dialog[d].op : d \in Dialogs} \cup {r.op : r \in reports}
              \cup {u.posted[i].op : i \in {j \in DOMAIN u.posted : u.posted[j].event = "status"}}

FreeIds(u) == OpIds \ {o.id : o \in Known(u)}

NewOp(u, kind) == [id |-> CHOOSE i \in FreeIds(u) : TRUE, kind |-> kind, game |-> u.config]

\* (mutant of Run: the bridge is not told)
RunUnannounced(u, c, op) == [u EXCEPT !.running[c] = op]

\* courier_update_check() and the like, and begin_operation()
Run(u, c, op) == [u EXCEPT !.running[c] = op, !.active = @ \cup {op}]

\* courier_cancel(): who is cancelled reports it from the caller's thread.
CourierCancel(u, c) ==
  IF u.running[c] = NoOp THEN u
  ELSE [u EXCEPT !.running[c] = NoOp, !.posted = Append(@, Status(u.running[c], "cancelled"))]

Clear(u, op) == [u EXCEPT !.active = @ \ {op}]

ScheduleProbe(u) ==
  IF \E i \in DOMAIN u.posted : u.posted[i] = ProbeEvent THEN u
  ELSE [u EXCEPT !.posted = Append(@, ProbeEvent)]

(***************************************************************************)
(* InstallState: the stage, and what the main window does when it changes  *)
(***************************************************************************)
\* compute(): the first of these that holds.
Findings(u) == << <<u.failed, "Failed">>, <<u.wine = "game", "Running">>,
                  <<u.wine = "setup", "SettingUpPrefix">>,
                  <<u.transfer /\ u.present, "Updating">>, <<u.transfer, "Downloading">>,
                  <<~u.prefix, "NeedsPrefix">>, <<~u.present, "NeedsDownload">>,
                  <<u.check # "None", "CheckingUpdate">>, <<u.needed, "NeedsUpdate">>,
                  <<TRUE, "Ready">> >>

Compute(u) ==
  LET f == Findings(u)
  IN  f[CHOOSE i \in DOMAIN f : f[i][1] /\ \A j \in 1 .. i - 1 : ~f[j][1]][2]

\* view_for(): what the main window shows for a stage.
View(stage) ==
  CASE stage = "NeedsDownload"                       -> "install"
    [] stage \in {"NeedsPrefix", "SettingUpPrefix"}  -> "setup"
    [] stage \in {"Downloading", "Updating"}         -> "loading"
    [] stage = "Failed"                              -> "error"
    [] OTHER                                         -> "chooser"

\* The overlays that are open, each with those it lies over.
Shows(u, o) == o \in DOMAIN u.overlays
Close(u, o) == [u EXCEPT !.overlays = [x \in DOMAIN @ \ {o} |-> @[x] \ {o}]]

\* open_overlay() raises what is open already.
Open(u, o) ==
  [u EXCEPT !.overlays = [x \in DOMAIN @ \cup {o} |-> (IF x = o THEN DOMAIN @ ELSE @[x]) \ {o}]]

\* The dialog of an installation hides, and its overlay stays.
Hide(u, d) == IF d = "install" THEN [u EXCEPT !.installing = FALSE] ELSE Close(u, d)

ShowView(u) ==
  LET view == View(u.stage)
      v    == [u EXCEPT !.view = view]
  IN  CASE view = u.view               -> u
        [] view # u.view /\ view = "install" -> Open(Close(v, "setup"), "install")
        [] view # u.view /\ view = "setup"   -> Open(Close(v, "install"), "setup")
        [] view # u.view /\ view = "chooser" -> Close(Close(v, "setup"), "install")
        [] view # u.view /\ view \in {"loading", "error"} -> v

\* (mutant of Suspend: an update changes the files as well)
SuspendForDownloads(u) == [u EXCEPT !.suspended = u.repairing \/ u.stage = "Downloading"]

\* The watcher is suspended while the launcher itself changes the files.
Suspend(u) == [u EXCEPT !.suspended = u.repairing \/ u.stage \in {"Downloading", "Updating"}]

\* Shell::run_game() reports its phase before it returns.
RunGame(u) ==
  ShowView(Suspend([Close(u, "update") EXCEPT !.launch = FALSE, !.wine = "game", !.stage = "Running"]))

\* The stages that a launch waits through.
LaunchSurvives == {"CheckingUpdate", "Updating"}

\* MainWindow::on_stage_changed()
StageChanged(u) ==
  LET s == Suspend(u)
      t == [s EXCEPT !.launch = @ /\ s.stage \in LaunchSurvives]
      v == IF t.stage = "Ready" /\ t.dialog["update"].observing THEN Close(t, "update") ELSE t
  IN  IF s.launch /\ s.stage = "Ready" THEN RunGame(s)
      ELSE IF v.repairing /\ Shows(v, "repair") THEN v
      ELSE ShowView(v)

Recompute(u) ==
  LET stage == Compute(u)
  IN  IF stage = u.stage THEN u ELSE StageChanged([u EXCEPT !.stage = stage])

(***************************************************************************)
(* InstallState: the check before a launch                                 *)
(***************************************************************************)
CancelCheck(u) ==
  IF u.op = NoOp THEN u
  ELSE [Clear(CourierCancel(u, "checker"), u.op) EXCEPT !.op = NoOp, !.check = "None"]

\* DownloadProgress::observe_operation() of the update dialog: the game_sync_started slot.
Observe(u) ==
  Open([Clear(CourierCancel(u, "update"), u.dialog["update"].op) EXCEPT
          !.dialog["update"] = [op |-> u.op, observing |-> TRUE, retry |-> FALSE]], "update")

\* (mutant of StopObserving: the dialog keeps the operation)
StillObserving(u) == u

StopObserving(u) ==
  IF ~u.dialog["update"].observing THEN u
  ELSE [u EXCEPT !.dialog["update"].op = NoOp, !.dialog["update"].observing = FALSE]

\* The game_sync_finished slot.
SyncFinished(u, ok) == [Close(StopObserving(u), "update") EXCEPT !.launch = @ /\ ok]

\* The game_repair_required slot.
RepairRequired(u) ==
  Open([u EXCEPT !.launch = FALSE, !.pending = @ \cup {u.game}], "files")

\* "able": the folder is inside the prefix and Courier takes the operation.
StartCheck(u, check, kind, able) ==
  IF able
  THEN LET op == NewOp(u, kind)
       IN  Recompute(Observe([Run(u, "checker", op) EXCEPT !.op = op, !.check = check]))
  ELSE Recompute(SyncFinished([u EXCEPT !.needed = FALSE], FALSE))

StartUpdateCheck(u, able) ==
  IF u.prefix /\ u.present /\ ~u.transfer /\ u.wine = "idle" /\ ~u.failed
  THEN StartCheck(u, "Version", "version", able)
  ELSE u

\* (mutant of RecheckBeforeLaunch: whatever else is going on)
RecheckAnyhow(u, able) ==
  IF u.present THEN StartCheck([CancelCheck(u) EXCEPT !.needed = FALSE], "Version", "version", able) ELSE u

RecheckBeforeLaunch(u, able) ==
  IF u.present /\ ~u.transfer /\ u.wine = "idle"
  THEN StartUpdateCheck([CancelCheck(u) EXCEPT !.needed = FALSE], able)
  ELSE u

CancelPrelaunch(u) == Recompute([CancelCheck(u) EXCEPT !.needed = FALSE])

\* (mutant of Checked: the files of a game that is up to date are not looked at)
CheckedByVersion(u, check, what, able) ==
  CASE what = "outdated"        -> Recompute(SyncFinished([u EXCEPT !.needed = TRUE], FALSE))
    [] what = "ok"              -> Recompute(SyncFinished([u EXCEPT !.needed = FALSE], TRUE))
    [] OTHER                    -> Recompute(SyncFinished([u EXCEPT !.needed = FALSE], FALSE))

\* What follows from a check's result.
Checked(u, check, what, able) ==
  CASE what \in {"failed", "cancelled"} ->
         Recompute(SyncFinished([u EXCEPT !.needed = FALSE], FALSE))
    [] check = "Version" /\ what = "outdated" ->
         Recompute(SyncFinished([u EXCEPT !.needed = TRUE], FALSE))
    [] check = "Version" /\ what = "ok" ->
         StartCheck([u EXCEPT !.needed = FALSE], "Integrity", "integrity", able)
    [] check = "Integrity" /\ what = "damaged" ->
         Recompute(RepairRequired(SyncFinished([u EXCEPT !.needed = FALSE], FALSE)))
    [] check = "Integrity" /\ what = "ok" ->
         Recompute(SyncFinished([u EXCEPT !.needed = FALSE], TRUE))

\* on_courier_status() of a transfer.
Transferred(u, what) ==
  CASE what = "working" -> Recompute([u EXCEPT !.transfer = TRUE])
    [] what # "working" /\ u.repairing ->
         Recompute([u EXCEPT !.transfer = FALSE, !.needed = FALSE])
    [] what \in {"failed", "cancelled"} /\ ~u.repairing ->
         Recompute([u EXCEPT !.transfer = FALSE, !.needed = TRUE])
    [] what \in {"ok", "outdated", "damaged"} /\ ~u.repairing ->
         Recompute(ScheduleProbe([u EXCEPT !.transfer = FALSE, !.needed = FALSE, !.key = u.config,
                                           !.present = u.config \in world.installed]))

OnCourierStatus(u, s, able) ==
  IF s.op # u.op           THEN Transferred(u, s.what)
  ELSE IF s.what = "working" THEN Recompute(u)
  ELSE Checked(Clear([u EXCEPT !.check = "None", !.op = NoOp], s.op), u.check, s.what, able)

(***************************************************************************)
(* The dialogs                                                             *)
(***************************************************************************)
EndRepair(u) ==
  Recompute([u EXCEPT !.repairing = FALSE, !.transfer = FALSE, !.needed = FALSE])

MarkSynchronized(u) == Recompute([CancelCheck(u) EXCEPT !.key = u.config, !.needed = FALSE])

\* The download_finished(true) slots.
Finished(u, d) ==
  CASE d = "install" -> Hide(u, d)
    [] d = "update"  -> StageChanged([MarkSynchronized(Close(u, d)) EXCEPT !.view = "loading"])
    [] d = "repair"  ->
         StageChanged(
           [MarkSynchronized([Close(EndRepair(u), d) EXCEPT !.pending = @ \ {u.game}, !.suspended = FALSE])
              EXCEPT !.view = "loading"])

\* DownloadProgress' own slot: the dialog that shows the operation, if there is one.
OnDialogStatus(u, s) ==
  LET shown == {d \in Dialogs : u.dialog[d].op = s.op}
  IN  IF shown = {} \/ s.what = "working" THEN u
      ELSE LET d == CHOOSE d \in shown : TRUE
               v == [u EXCEPT !.dialog[d].op = NoOp, !.dialog[d].observing = FALSE,
                              !.dialog[d].retry = s.what = "failed"]
           IN  IF u.dialog[d].observing THEN v
               ELSE IF s.what = "ok" THEN Finished(Clear(v, s.op), d)
               ELSE Clear(v, s.op)

\* (mutant of Report: stale callbacks get through)
ReportAll(u, s, able) == OnDialogStatus(OnCourierStatus(u, s, able), s)

\* CourierBridge::report(): callbacks of operations that nobody waits for are ignored.
Report(u, s, able) ==
  IF s.op \notin u.active THEN u
  ELSE LET v == OnDialogStatus(OnCourierStatus(u, s, able), s)
       IN  IF s.what = "working" THEN v ELSE Clear(v, s.op)

StartDownload(u, d, able) ==
  LET op == NewOp(u, "transfer")
      v  == [CourierCancel(u, d) EXCEPT !.dialog[d].observing = FALSE, !.dialog[d].retry = ~able]
  IN  IF u.dialog[d].op # NoOp THEN u
      ELSE IF ~able THEN v
      ELSE Report([Run(v, d, op) EXCEPT !.dialog[d].op = op], Status(op, "working"), able)

CancelActive(u, d) ==
  LET op == u.dialog[d].op
      v  == Report(CourierCancel(u, d), Status(op, "cancelled"), TRUE)
  IN  IF op = NoOp THEN u
      ELSE IF v.dialog[d].op = op THEN [Clear(v, op) EXCEPT !.dialog[d].op = NoOp]
      ELSE v

\* The closed() slots.
Closed(u, d) ==
  LET v == Hide(u, d)
  IN  IF d = "repair"
      THEN StageChanged([EndRepair(v) EXCEPT !.suspended = FALSE, !.view = "loading"])
      ELSE v

\* cancel_download(), whose question is answered before anything else happens.
CancelDownload(u, d) ==
  IF u.dialog[d].observing
  THEN Hide(CancelPrelaunch([StopObserving(u) EXCEPT !.launch = FALSE]), d)
  ELSE Closed(CancelActive(u, d), d)

(***************************************************************************)
(* Configuration and probes                                                *)
(***************************************************************************)
Stale(u, d) == u.dialog[d].op # NoOp /\ u.dialog[d].op.game # u.config

\* Config::changed: a dialog whose operation belongs elsewhere looks at it again, later;
\* so does InstallState.
ConfigChanged(u) ==
  LET post(v, d) == IF Stale(v, d) THEN [v EXCEPT !.posted = Append(@, Context(d))] ELSE v
  IN  ScheduleProbe(post(post(post(u, "update"), "repair"), "install"))

\* (mutant of OnContext: the dialog goes on)
ContextIgnored(u, d) == u

\* DownloadProgress' deferred look at a changed configuration.
OnContext(u, d) == IF Stale(u, d) THEN Closed(CancelActive(u, d), d) ELSE u

Probe(u) ==
  LET v == [u EXCEPT !.prefix = world.prefix, !.present = u.config \in world.installed]
      w == [CourierCancel(CancelCheck(v), "checker") EXCEPT !.needed = FALSE, !.key = u.config]
  IN  Recompute(IF u.config = u.key THEN v ELSE w)

SetGame(u, g) ==
  IF u.game = g THEN u ELSE Probe(ConfigChanged([u EXCEPT !.game = g, !.config = g]))

(***************************************************************************)
(* The main window                                                         *)
(***************************************************************************)
ContinueAfterLauncherCheck(u, able) ==
  IF u.checked THEN u
  ELSE IF u.launch THEN RecheckBeforeLaunch([u EXCEPT !.checked = TRUE], able)
  ELSE [u EXCEPT !.checked = TRUE]

\* The overlay on top has the buttons; the tray is always there.
OnTop(o) == Shows(ui, o) /\ ui.overlays[o] = DOMAIN ui.overlays \ {o}
Bare     == DOMAIN ui.overlays = {}

\* The dialog on top.
InDialog(d) == OnTop(d) /\ (d = "install" => ui.installing)

\* set_game_switching_enabled()
Switchable ==
  ~ui.repairing /\ ui.stage \notin {"SettingUpPrefix", "Downloading", "Updating", "CheckingUpdate", "Running"}

CanRun ==
  ui.stage = "Ready" /\ ui.wine = "idle" /\ world.prefix /\ ui.config \in world.installed

\* The user acts while the queue is short (the bound MaxPosted).
UserActs == Len(ui.posted) < MaxPosted

\* What may begin an operation waits until two of them have an id, and an event until one has
\* (a bound).
HasIds == Cardinality(FreeIds(ui)) > 1

\* request_game_launch(), from the button or the tray.  "service": the launcher's updater
\* is configured and can be asked.
RequestLaunch ==
  /\ UserActs /\ CanRun /\ HasIds
  /\ \E able, service \in BOOLEAN :
       LET asked == [ui EXCEPT !.launch = TRUE]
       IN  ui' = IF ui.game \in ui.pending THEN Open(ui, "files")
                 ELSE IF ui.checked         THEN RecheckBeforeLaunch(asked, able)
                 ELSE IF ui.purpose # "None" THEN asked
                 ELSE IF service            THEN [asked EXCEPT !.purpose = "Startup"]
                 ELSE ContinueAfterLauncherCheck(asked, able)
  /\ UNCHANGED <<reports, world>>

ManageVersions ==
  /\ UserActs /\ Bare /\ ui.purpose = "None"
  /\ ui' = [ui EXCEPT !.purpose = "Manual"]
  /\ UNCHANGED <<reports, world>>

\* The updater's answer: an offer opens a dialog; without one, a launch goes on.
LauncherChecked ==
  /\ HasIds /\ ui.purpose # "None"
  /\ \E offer, able \in BOOLEAN :
       LET idle == [ui EXCEPT !.purpose = "None"]
       IN  ui' = IF offer THEN Open(idle, "offer")
                 ELSE IF ui.purpose = "Startup" THEN ContinueAfterLauncherCheck(idle, able)
                 ELSE idle
  /\ UNCHANGED <<reports, world>>

Postpone ==
  /\ UserActs /\ OnTop("offer") /\ HasIds
  /\ \E able \in BOOLEAN :
       ui' = ContinueAfterLauncherCheck(Close(ui, "offer"), able)
  /\ UNCHANGED <<reports, world>>

SwitchGame ==
  /\ UserActs /\ Bare /\ Switchable
  /\ \E g \in Games \ {ui.game} : ui' = SetGame(ui, g)
  /\ UNCHANGED <<reports, world>>

\* The user edits config.json: the window still shows the game it has shown.
EditConfig ==
  /\ UserActs
  /\ \E g \in Games \ {ui.config} : ui' = ConfigChanged([ui EXCEPT !.config = g])
  /\ UNCHANGED <<reports, world>>

\* The protected_files_changed slot.
OnFilesChanged(u, g) ==
  LET v == [u EXCEPT !.launch = FALSE]
      w == IF v.stage = "CheckingUpdate" THEN Close(StopObserving(CancelPrelaunch(v)), "update") ELSE v
      x == [w EXCEPT !.pending = @ \cup {g}]
  IN  IF u.stage \in {"Downloading", "Updating"} \/ u.repairing \/ Shows(u, "repair") THEN u
      ELSE IF g \in u.pending THEN x
      ELSE Open(SetGame(Close(Close(x, "setup"), "install"), g), "files")

\* The integrity watcher has found files that differ.
FilesChanged ==
  /\ UserActs /\ ~ui.suspended
  /\ \E g \in world.installed : ui' = OnFilesChanged(ui, g)
  /\ UNCHANGED <<reports, world>>

\* The repair_requested slot; a repair does not start beside a command.
RequestRepair ==
  /\ UserActs /\ HasIds /\ OnTop("files") /\ ui.wine = "idle"
  /\ \E able \in BOOLEAN :
       LET begun == Recompute([Close(ui, "files") EXCEPT !.repairing = TRUE, !.needed = FALSE])
       IN  ui' = StartDownload(Open([begun EXCEPT !.suspended = TRUE], "repair"), "repair", able)
  /\ UNCHANGED <<reports, world>>

CloseOverlay ==
  /\ UserActs /\ ~InDialog("install")
  /\ \E o \in {"files", "setup", "install"} : OnTop(o) /\ ui' = Close(ui, o)
  /\ UNCHANGED <<reports, world>>

\* open_for_current_stage()
OpenForStage ==
  /\ UserActs /\ HasIds /\ Bare
  /\ \/ \E able \in BOOLEAN :
          /\ ui.stage = "NeedsUpdate"
          /\ ui' = StartDownload(Open(ui, "update"), "update", able)
     \/ /\ View(ui.stage) \in {"install", "setup"}
        /\ ui' = Open(ui, View(ui.stage))
  /\ UNCHANGED <<reports, world>>

\* GameInstall::start_install()
StartInstall ==
  /\ UserActs /\ HasIds /\ OnTop("install") /\ ~ui.installing
  /\ \E able \in BOOLEAN : ui' = StartDownload([ui EXCEPT !.installing = TRUE], "install", able)
  /\ UNCHANGED <<reports, world>>

Retry ==
  /\ UserActs /\ HasIds
  /\ \E d \in Dialogs, able \in BOOLEAN :
       /\ InDialog(d) /\ ui.dialog[d].retry
       /\ ui' = StartDownload(ui, d, able)
  /\ UNCHANGED <<reports, world>>

Cancel ==
  /\ UserActs
  /\ \E d \in Dialogs :
       /\ InDialog(d)
       /\ ui' = CancelDownload(ui, d)
  /\ UNCHANGED <<reports, world>>

DismissError ==
  /\ UserActs /\ ui.failed
  /\ ui' = Probe([ui EXCEPT !.failed = FALSE])
  /\ UNCHANGED <<reports, world>>

(***************************************************************************)
(* The event queue                                                         *)
(***************************************************************************)
HandleEvent ==
  /\ ui.posted # <<>> /\ FreeIds(ui) # {}
  /\ \E able \in BOOLEAN :
       LET e == Head(ui.posted)
           u == [ui EXCEPT !.posted = Tail(@)]
       IN  ui' = CASE e.event = "status"  -> Report(u, e, able)
                   [] e.event = "context" -> OnContext(u, e.dialog)
                   [] e.event = "probe"   -> Probe(u)
  /\ UNCHANGED <<reports, world>>

(***************************************************************************)
(* The shell: commands of a setup, and the game                            *)
(***************************************************************************)
\* From the setup's overlay, or from the settings.
BeginSetup ==
  /\ Setups /\ UserActs /\ ui.wine = "idle" /\ Switchable
  /\ OnTop("setup") \/ Bare
  /\ ui' = Recompute([ui EXCEPT !.wine = "setup"])
  /\ UNCHANGED <<reports, world>>

\* A failure is shown; a success is followed by a probe.
CommandEnds ==
  /\ ui.wine # "idle"
  /\ \E prefix \in IF ui.wine = "setup" THEN BOOLEAN ELSE {world.prefix} :
       world' = [world EXCEPT !.prefix = prefix]
  /\ \/ ui' = Recompute([ui EXCEPT !.wine = "idle", !.failed = TRUE])
     \/ ui' = ScheduleProbe([ui EXCEPT !.wine = "idle", !.failed = FALSE])
  /\ UNCHANGED reports

(***************************************************************************)
(* The threads of Courier.  One of them at a time is between its look at   *)
(* the current operation and its report (a bound).                         *)
(***************************************************************************)
\* reportProgress() looks whether the operation is current, and then reports.  Progress that
\* is queued is not reported again (a bound).
Progress(c) ==
  /\ ui.running[c] # NoOp /\ reports = {}
  /\ \A i \in DOMAIN ui.posted : ui.posted[i] # Status(ui.running[c], "working")
  /\ reports' = reports \cup {[op |-> ui.running[c], what |-> "working"]}
  /\ UNCHANGED <<ui, world>>

\* reportDone() closes the operation, and then reports.
Finish(c) ==
  /\ ui.running[c] # NoOp /\ reports = {}
  /\ \E what \in Outcomes(ui.running[c].kind) :
       /\ reports' = reports \cup {[op |-> ui.running[c], what |-> what]}
       /\ world' = IF ui.running[c].kind = "transfer" /\ what = "ok"
                   THEN [world EXCEPT !.installed = @ \cup {ui.running[c].game}] ELSE world
  /\ ui' = [ui EXCEPT !.running[c] = NoOp]

Post ==
  /\ \E r \in reports :
       /\ ui' = [ui EXCEPT !.posted = Append(@, Status(r.op, r.what))]
       /\ reports' = reports \ {r}
  /\ UNCHANGED world

(***************************************************************************)
(* The specification                                                       *)
(***************************************************************************)
NoDownload == [op |-> NoOp, observing |-> FALSE, retry |-> FALSE]

\* After the first probe.
Init ==
  /\ reports = {} /\ strayed = FALSE
  /\ world \in [installed : SUBSET Games, prefix : {TRUE}]
  /\ \E g \in Games :
       LET probed == [config |-> g, game |-> g, key |-> g, launch |-> FALSE, checked |-> FALSE,
                      pending |-> {}, repairing |-> FALSE, suspended |-> FALSE,
                      overlays |-> <<>>, installing |-> FALSE, view |-> "loading", purpose |-> "None",
                      prefix |-> world.prefix, present |-> g \in world.installed,
                      wine |-> "idle", failed |-> FALSE,
                      needed |-> FALSE, check |-> "None", op |-> NoOp, transfer |-> FALSE,
                      dialog |-> [d \in Dialogs |-> NoDownload], active |-> {},
                      running |-> [c \in Couriers |-> NoOp], posted |-> <<>>, stage |-> "Failed"]
       IN  ui = Recompute(probed)

Event ==
  \/ RequestLaunch \/ ManageVersions \/ LauncherChecked \/ Postpone \/ SwitchGame \/ EditConfig
  \/ FilesChanged \/ RequestRepair \/ CloseOverlay \/ OpenForStage \/ StartInstall \/ Retry
  \/ Cancel \/ DismissError \/ HandleEvent \/ BeginSetup \/ CommandEnds \/ Post
  \/ \E c \in Couriers : Progress(c) \/ Finish(c)

\* The window, the last probe and config.json name the same game.
Agrees(u) == u.game = u.config /\ u.key = u.config

Going(u) == u.launch \/ u.check # "None"

\* A launch goes on although they do not, or under a configuration it did not begin with.
Strays ==
  Going(ui') /\ (Agrees(ui') => Going(ui) /\ ui'.config # ui.config)

Next == Event /\ strayed' = (strayed \/ Strays)

Spec == Init /\ [][Next]_vars

(***************************************************************************)
(* Properties                                                              *)
(***************************************************************************)
OpsOrNone == Operation \cup {NoOp}

TypeOK ==
  /\ ui.config \in Games /\ ui.game \in Games /\ ui.key \in Games
  /\ \A b \in {ui.launch, ui.checked, ui.repairing, ui.suspended, ui.installing, ui.prefix,
               ui.present, ui.failed, ui.needed, ui.transfer} : b \in BOOLEAN
  /\ ui.pending \in SUBSET Games
  /\ DOMAIN ui.overlays \subseteq Overlays
  /\ ui.purpose \in {"None", "Startup", "Manual"}
  /\ ui.wine \in {"idle", "setup", "game"}
  /\ ui.check \in {"None", "Version", "Integrity"} /\ ui.op \in OpsOrNone
  /\ ui.dialog \in [Dialogs -> [op : OpsOrNone, observing : BOOLEAN, retry : BOOLEAN]]
  /\ ui.active \in SUBSET Operation
  /\ ui.running \in [Couriers -> OpsOrNone]
  /\ ui.stage \in Stages
  /\ reports \in SUBSET [op : Operation, what : {"working", "ok", "outdated", "damaged", "failed"}]
  /\ world \in [installed : SUBSET Games, prefix : BOOLEAN]

\* The game is started by nothing but good news of that very game, from an operation that
\* was still waited for: its integrity check, or an update, which verifies what it installs;
\* and not while a repair of it is due.  "The launcher verifies the configured game state
\* before offering the normal launch path" (docs/PLATFORM_LINUX.md).  A launch that has met a
\* change of the game is the exception (strayed).
LaunchVerified ==
  [][~strayed' /\ ui.wine # "game" /\ ui'.wine = "game" =>
       /\ \E op \in ui.active :
            /\ ui.posted # <<>> /\ Head(ui.posted) = Status(op, "ok")
            /\ op.kind # "version" /\ op.game = ui.config
       /\ ui.config \notin ui.pending]_vars

\* The update dialog shows the check that runs, and shows no other: no dialog waits for an
\* operation that is over, and none is left without its cancel button.
CheckShown ==
  \/ ui.check = "None" /\ (ui.dialog["update"].observing => ui.dialog["update"].op = NoOp)
  \/ ui.check # "None" /\ ui.dialog["update"].observing /\ ui.dialog["update"].op = ui.op

\* A transfer is shown as one exactly while a dialog has an operation that can end it: the
\* one boolean courier_working neither outlives its operation nor is cleared by another's.
TransferShown ==
  ui.transfer <=> \E d \in Dialogs : ui.dialog[d].op \in ui.active /\ ~ui.dialog[d].observing

\* While the launcher itself changes the game's files the watcher is suspended.
WatcherSuspended == ui.transfer => ui.suspended

\* No check runs beside a transfer, nor beside the game.
OneAtATime == ui.check # "None" => ~ui.transfer /\ ui.wine # "game"

\* A window shows the operation that goes on, and nothing else (observe_operation,
\* stop_observing_operation, download_started, download_finished), unless a launch has strayed.
OperationShown == strayed \/ (CheckShown /\ TransferShown)

\* What excludes one another does not go on at once (set_suspended, recheck_before_launch,
\* start_update_check_if_needed), and no variable leaves its type, unless a launch has strayed.
NothingBeside == strayed \/ (TypeOK /\ WatcherSuspended /\ OneAtATime)

\* Whoever waits is answered: the operation of a check, or of a dialog, is still let through
\* by the bridge, and its last report is to come, on its way, or queued; unless a launch has
\* strayed.
Answered ==
  strayed \/ \A op \in ({ui.op} \cup {ui.dialog[d].op : d \in Dialogs}) \ {NoOp} :
     /\ op \in ui.active
     /\ \/ \E c \in Couriers : ui.running[c] = op
        \/ \E r \in reports : r.op = op /\ r.what # "working"
        \/ \E i \in DOMAIN ui.posted :
             /\ ui.posted[i].event = "status" /\ ui.posted[i].op = op
             /\ ui.posted[i].what # "working"

\* Nothing goes on for a game that is no longer the configured one, but for what an event in
\* the queue is going to cancel; and what goes on is shown, whichever game it is for.  This is
\* so of a launch that has strayed, too.
FollowsConfig ==
  LET queued == {ui.posted[i] : i \in DOMAIN ui.posted}
  IN  /\ TypeOK
      /\ \A d \in Dialogs : Stale(ui, d) => Context(d) \in queued
      /\ ui.op # NoOp /\ ui.op.game # ui.config => ProbeEvent \in queued
      /\ TransferShown
=============================================================================
