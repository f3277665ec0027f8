---------------------------- MODULE LauncherUpdate ----------------------------
(***************************************************************************)
(* The launcher's update of itself.  Three parties: the service of the    *)
(* network library (LauncherUpdateService.swift), whose one task runs on a *)
(* thread of its own; LauncherUpdateManager, which belongs to the thread   *)
(* of the user interface; and the main window with the dialog that offers  *)
(* the update (ui/LauncherUpdate.cpp).  The service reports through a      *)
(* serial queue and the event queue of the user interface, both first in   *)
(* first out: one sequence, inbox.  An update that has been downloaded is  *)
(* installed: on Linux by renaming AppImages, in one call of the user      *)
(* interface's thread during which the launcher may be killed, on macOS by *)
(* two commands that verify the image and a third that opens it.           *)
(***************************************************************************)
EXTENDS Integers, Sequences, SequencesExt

CONSTANTS
  Releases,      \* the versions of the launcher there are
  Number,        \* Number[r] = [core |-> numbers, pre |-> identifiers]
  First,         \* the one that is installed to begin with
  Mandatory,     \* those whose manifest says "required"
  Outdated,      \* those that were released more than a year ago
  Catalogues,    \* the sets of releases the server may list, from one check to the next
  Endpoints,     \* manifest URLs, or mirrors of a package, tried in turn
  MaxRequests,   \* checks and downloads the user asks for (a bound)
  MaxSessions    \* times the launcher is started (a bound)

None    == "none"
Partial == "partial"     \* a file that has not been written to its end
Garbage == "garbage"     \* a whole file that is not the release it should be

\* The identifiers of a prerelease: a number, or a text at its place in the order of texts.
Identifiers == [numeric : BOOLEAN, key : Nat]

ASSUME ReleasesAssumption ==
  /\ IsFiniteSet(Releases) /\ Releases \cap {None, Partial, Garbage} = {}
  /\ First \in Releases /\ Mandatory \cup Outdated \subseteq Releases
  /\ Catalogues \subseteq (SUBSET Releases) \ {{}}
ASSUME NumberAssumption == Number \in [Releases -> [core : Seq(Nat), pre : Seq(Identifiers)]]
ASSUME BoundsAssumption == Endpoints \in Nat \ {0} /\ MaxRequests \in Nat /\ MaxSessions \in Nat

VARIABLES
  session,   \* the run of the launcher: what it is and where it was started from
  service,   \* LauncherUpdateService: its task, selection and catalogue
  inbox,     \* what the service has reported and the user interface not handled
  ui,        \* LauncherUpdateManager, MainWindow and the dialog
  disk,      \* the AppImages beside the launcher, and the cache of downloads
  asked      \* the release that was selected when an update was last requested

vars == <<session, service, inbox, ui, disk, asked>>

(***************************************************************************)
(* The order of versions                                                   *)
(***************************************************************************)
\* The signs of what is compared place by place: the first that is not 0 decides.
FirstDifference(signs) ==
  LET first == SelectInSeq(signs, LAMBDA s : s # 0)
  IN IF first = 0 THEN 0 ELSE signs[first]

Sign(a, b) == IF a < b THEN -1 ELSE IF a > b THEN 1 ELSE 0

\* A version as parseVersion() reads it.
Parsed(release) == Number[release]

\* An identifier of a prerelease is a number or a word; numbers come first.
IdentifierSign(a, b) ==
  CASE a.numeric = b.numeric  -> Sign(a.key, b.key)
    [] a.numeric /\ ~b.numeric -> -1
    [] OTHER                   -> 1

Prerelease(l, r) ==
  CASE l = <<>> /\ r = <<>> -> 0
    [] l = <<>> /\ r # <<>> -> 1
    [] l # <<>> /\ r = <<>> -> -1
    [] OTHER ->
         LET shared == IF Len(l) < Len(r) THEN Len(l) ELSE Len(r)
             sign   == FirstDifference([i \in 1 .. shared |-> IdentifierSign(l[i], r[i])])
         IN IF sign # 0 THEN sign ELSE Sign(Len(l), Len(r))

CompareVersions(left, right) ==
  LET l == Parsed(left)
      r == Parsed(right)
      Part(s, i) == IF i <= Len(s) THEN s[i] ELSE 0
      count == IF Len(l.core) < Len(r.core) THEN Len(r.core) ELSE Len(l.core)
      core  == FirstDifference([i \in 1 .. count |-> Sign(Part(l.core, i), Part(r.core, i))])
  IN IF core # 0 THEN core ELSE Prerelease(l.pre, r.pre)

Newer(a, b) == CompareVersions(a, b) > 0

(***************************************************************************)
(* State                                                                   *)
(***************************************************************************)
Idle        == [kind |-> "none", pc |-> "done", left |-> 0, release |-> None, cancelled |-> FALSE]
CheckTask   == [Idle EXCEPT !.kind = "check", !.pc = "fetch", !.left = Endpoints]
Transfer(r) == [Idle EXCEPT !.kind = "download", !.pc = "transfer", !.left = Endpoints,
                            !.release = r]

FreshService == [task |-> Idle, selection |-> None, catalogue |-> <<>>]

CheckReport(result, releases, valid) ==
  [event |-> "check", result |-> result, releases |-> releases, valid |-> valid, file |-> None]
DownloadReport(result, file) ==
  [event |-> "download", result |-> result, releases |-> <<>>, valid |-> TRUE, file |-> file]

ClosedDialog == [open |-> FALSE, versions |-> <<>>, catalogue |-> FALSE, shown |-> None,
                 required |-> FALSE, downloading |-> FALSE, starting |-> FALSE]

FreshUi ==
  [purpose |-> "none", downloading |-> FALSE, releases |-> <<>>, release |-> None,
   path |-> None,              \* final_download_path
   step |-> "idle",            \* where install_linux_appimage() is
   images |-> 0, seals |-> 0,  \* hdiutil and spctl commands that run (macOS)
   dialog |-> ClosedDialog,
   manage |-> TRUE,            \* the button "Manage Launcher Versions"
   launch |-> "none",          \* launch_after_preflight_check; "handed" to Prelaunch
   checked |-> FALSE,          \* launcher_update_check_complete
   health |-> FALSE,           \* the timer of schedule_health_checkpoint()
   quit |-> FALSE]             \* the timer that quits for the installer

Responsive == session.up /\ ui.step = "idle"

Init ==
  /\ \E mac \in BOOLEAN, inplace \in BOOLEAN, configured \in BOOLEAN :
       /\ mac => ~inplace
       /\ session = [up |-> TRUE, mac |-> mac, inplace |-> inplace, configured |-> configured,
                     version |-> First, count |-> 1, requests |-> 0, stranded |-> FALSE]
  /\ service = FreshService
  /\ inbox = <<>>
  /\ ui = FreshUi
  /\ disk = [current |-> First, staging |-> None, previous |-> None, part |-> None,
             final |-> None, opened |-> None]
  /\ asked = None

TypeOK ==
  /\ session.version \in Releases
  /\ service.selection \in Releases \cup {None}
  /\ ui.release \in Releases \cup {None}
  /\ ui.step \in {"idle", "prepare", "stage", "clear", "retire", "place", "restart"}
  /\ disk.current \in Releases \cup {None, Garbage}

Spend == /\ session.requests < MaxRequests
         /\ session' = [session EXCEPT !.requests = @ + 1]

(***************************************************************************)
(* The service                                                             *)
(***************************************************************************)
\* What an endpoint may send: the releases it lists, whether the seal is that of the launcher's
\* key, whether each entry is a manifest for this platform, and whether the launcher's own
\* parser will take the document too, which is stricter (a version "v1", a digest "sha256:...").
Documents == [releases : Catalogues, sealed : BOOLEAN, sound : BOOLEAN, strict : BOOLEAN]

Sealed(d) == d.sealed
Sound(d)  == d.sound
Recent(d) == d.releases \ Outdated

\* (mutant of Sorted: a version with more parts counts as newer)
LongestFirst(set) ==
  LET More(a, b)   == Len(Parsed(a).pre) > Len(Parsed(b).pre)
      Before(a, b) == More(a, b) \/ (~More(b, a) /\ Newer(a, b))
  IN {s \in SetToSeqs(set) : \A i, j \in DOMAIN s : i < j => ~Before(s[j], s[i])}

\* sort() puts the newer first, and leaves open which comes first of two that compare equal.
Sorted(set) ==
  {s \in SetToSeqs(set) : \A i, j \in DOMAIN s : i < j => ~Newer(s[j], s[i])}

\* The releases of a catalogue, the newest first; none if the document is not accepted.
LoadCatalogue(d) == IF Sealed(d) /\ Sound(d) THEN Sorted(Recent(d)) ELSE {<<>>}

Report(message) == inbox' = Append(inbox, message)
CancelTask(s)   == IF s.task = Idle THEN s ELSE [s EXCEPT !.task.cancelled = TRUE]

\* performCheck() with one endpoint; when its answer is of no use, the next endpoint is tried.
\* Storing, comparing and reporting need no step each: nobody reads the selection while the
\* task runs.  A check is not cancelled: cancel_download() asks for a download that is under
\* way, and no check begins as long as there is one.
CheckEndpoint ==
  /\ service.task.kind = "check"
  /\ service.task.pc = "fetch"
  /\ LET done == [service EXCEPT !.task.pc = "clear"]
     IN \/ \E d \in Documents : \E listed \in LoadCatalogue(d) :
             LET newer == Newer(listed[1], session.version)
             IN /\ listed # <<>>
                /\ service' = [done EXCEPT !.catalogue = listed,
                                           !.selection = IF newer THEN listed[1] ELSE @]
                /\ Report(CheckReport(IF newer THEN "available" ELSE "current", listed, d.strict))
        \/ /\ service.task.left > 1
           /\ service' = [service EXCEPT !.task.left = @ - 1]
           /\ UNCHANGED inbox
        \/ /\ service.task.left = 1
           /\ service' = done
           /\ Report(CheckReport("failed", service.catalogue, TRUE))
  /\ UNCHANGED <<session, ui, disk, asked>>

\* The result was reported before this step: clearTask().
ClearTask ==
  /\ service.task.pc = "clear"
  /\ service' = [service EXCEPT !.task = Idle]
  /\ UNCHANGED <<session, inbox, ui, disk, asked>>

\* LauncherAssetDelegate accepts what it has received.
\* (mutant of Accepts: the length is checked, the digest is not)
AcceptsAnySize(release, content) == content # Partial
Accepts(release, content) == content = release

\* One mirror of the package: its bytes are written to the .part file, counted and hashed.
TransferPackage ==
  /\ service.task.pc = "transfer"
  /\ LET r == service.task.release
         failed == /\ service' = [service EXCEPT !.task.pc = "clear"]
                   /\ disk' = [disk EXCEPT !.part = None]
     IN \/ /\ service.task.cancelled
           /\ failed
           /\ Report(DownloadReport("cancelled", None))
        \/ \E content \in {r, Partial, Garbage} :
             IF Accepts(r, content)
             THEN /\ disk' = [disk EXCEPT !.part = content]
                  /\ service' = [service EXCEPT !.task.pc = "move"]
                  /\ UNCHANGED inbox
             ELSE IF service.task.left > 1
             THEN /\ disk' = [disk EXCEPT !.part = content]
                  /\ service' = [service EXCEPT !.task.left = @ - 1]
                  /\ UNCHANGED inbox
             ELSE failed /\ Report(DownloadReport("failed", None))
  /\ UNCHANGED <<session, ui, asked>>

\* The end of performDownload().  A cancellation is not looked at any more.
FinalizePackage ==
  /\ service.task.pc = "move"
  /\ service' = [service EXCEPT !.task.pc = "clear"]
  /\ \/ /\ disk' = [disk EXCEPT !.final = disk.part, !.part = None]
        /\ Report(DownloadReport("completed", disk.part))
     \/ /\ disk' = [disk EXCEPT !.final = None, !.part = None]
        /\ Report(DownloadReport("failed", None))
  /\ UNCHANGED <<session, ui, asked>>

(***************************************************************************)
(* The user interface: what follows an event, as operators on ui           *)
(***************************************************************************)
Continue(u) ==
  IF u.checked THEN u
  ELSE [u EXCEPT !.checked = TRUE, !.launch = IF @ = "waiting" THEN "handed" ELSE @]

ResetRelease(u)  == [u EXCEPT !.release = None, !.path = None]
\* (mutant of NothingFound: the menu's entry stays disabled)
NothingFoundMenuOff(u) == Continue(u)
NothingFound(u)  == Continue([u EXCEPT !.manage = TRUE])       \* also check_failed
ManualFailed(u)  == [u EXCEPT !.manage = TRUE]                 \* and a message
Forgotten(u)     == ResetRelease([u EXCEPT !.releases = <<>>])

Shown(versions, release, catalogue) ==
  [ClosedDialog EXCEPT !.open = TRUE, !.versions = versions, !.catalogue = catalogue,
                       !.shown = release, !.required = ~catalogue /\ release \in Mandatory]
Offer(u, catalogue) ==
  [u EXCEPT !.manage = TRUE, !.dialog = Shown(u.releases, u.release, catalogue)]

\* (mutant of UpdateFailed: the dialog still shows the download)
UpdateFailedStillShown(u) == [u EXCEPT !.dialog.starting = FALSE]
UpdateFailed(u) == [u EXCEPT !.dialog.downloading = FALSE, !.dialog.starting = FALSE]
InstallerStarted(u) ==
  [u EXCEPT !.dialog.downloading = FALSE, !.dialog.starting = TRUE, !.quit = TRUE]

\* select_version() of the manager and of the service.
Selectable(u, r) == ~u.downloading /\ r \in ToSet(u.releases) /\ r \in ToSet(service.catalogue)
Selected(u, r)   == [u EXCEPT !.release = r, !.path = None]

\* soa_launcher_updater_check() with the user interface in state u.
StartCheck(u, purpose) ==
  /\ ui' = Forgotten([u EXCEPT !.purpose = purpose, !.manage = FALSE])
  /\ IF service.task = Idle
     THEN service' = [FreshService EXCEPT !.task = CheckTask] /\ UNCHANGED inbox
     ELSE /\ Report(CheckReport("failed", service.catalogue, TRUE))
          /\ UNCHANGED service

CheckForUpdates(u) ==
  IF u.downloading \/ u.purpose # "none" THEN ui' = u /\ UNCHANGED <<service, inbox>>
  ELSE IF ~session.configured
  THEN ui' = NothingFound(ResetRelease(u)) /\ UNCHANGED <<service, inbox>>
  ELSE StartCheck(u, "startup")

\* request_game_launch(): the button of the main window, or the tray, which also works while
\* the dialog is open.
Play ==
  /\ Responsive
  /\ ui.launch # "handed"
  /\ Spend
  /\ IF ui.checked
     THEN ui' = [ui EXCEPT !.launch = "handed"] /\ UNCHANGED <<service, inbox>>
     ELSE CheckForUpdates([ui EXCEPT !.launch = "waiting"])
  /\ UNCHANGED <<disk, asked>>

\* The menu is hidden as long as the dialog is open.
ManageVersions ==
  /\ Responsive
  /\ ui.manage /\ ~ui.dialog.open
  /\ Spend
  /\ IF ui.downloading \/ ui.purpose # "none" \/ ~session.configured
     THEN ui' = ManualFailed(ui) /\ UNCHANGED <<service, inbox>>
     ELSE StartCheck(ui, "manual")
  /\ UNCHANGED <<disk, asked>>

\* The queued part of check_callback() and download_callback().
Deliver(event) == /\ Responsive
                  /\ inbox # <<>> /\ Head(inbox).event = event
                  /\ inbox' = Tail(inbox)

\* parse_launcher_release_catalogue() takes what the service has reported.
Readable(m) == m.result # "failed" /\ m.valid

HandleCheck ==
  /\ Deliver("check")
  /\ LET m      == Head(inbox)
         manual == ui.purpose = "manual"
         u      == [ui EXCEPT !.purpose = "none"]
         listed == ResetRelease([u EXCEPT !.releases = m.releases])
     IN CASE ~Readable(m) ->
               /\ ui' = IF manual THEN ManualFailed(Forgotten(u)) ELSE NothingFound(Forgotten(u))
               /\ UNCHANGED service
          [] Readable(m) /\ ~manual /\ m.result = "current" ->
               ui' = NothingFound(listed) /\ UNCHANGED service
          [] Readable(m) /\ (manual \/ m.result = "available") ->
               IF Selectable(listed, m.releases[1])
               THEN /\ ui' = Offer(Selected(listed, m.releases[1]), manual)
                    /\ service' = [service EXCEPT !.selection = m.releases[1]]
               ELSE /\ ui' = IF manual THEN ManualFailed(Forgotten(u))
                             ELSE NothingFound(Forgotten(u))
                    /\ UNCHANGED service
  /\ UNCHANGED <<session, disk, asked>>

PickVersion(r) ==
  /\ Responsive
  /\ LET d == ui.dialog
     IN /\ d.open /\ d.catalogue /\ ~d.downloading /\ ~d.starting
        /\ r \in ToSet(d.versions) \ {d.shown}
  /\ LET u == [ui EXCEPT !.dialog.shown = r]
     IN IF Selectable(ui, r)
        THEN ui' = Selected(u, r) /\ service' = [service EXCEPT !.selection = r]
        ELSE ui' = u /\ UNCHANGED service
  /\ UNCHANGED <<session, inbox, disk, asked>>

\* The button of the dialog, and download_and_install().
RequestUpdate ==
  /\ Responsive
  /\ ui.dialog.open /\ ~ui.dialog.downloading /\ ~ui.dialog.starting
  /\ ~ui.downloading /\ ui.release # None
  /\ Spend
  /\ asked' = ui.release
  /\ ui' = [ui EXCEPT !.downloading = TRUE, !.dialog.downloading = TRUE]
  /\ IF service.task = Idle /\ service.selection # None
     THEN service' = [service EXCEPT !.task = Transfer(service.selection)] /\ UNCHANGED inbox
     ELSE Report(DownloadReport("failed", None)) /\ UNCHANGED service
  /\ UNCHANGED disk

\* The dialog's Cancel button: cancel_download(), then the game's own checks go on.
Postpone ==
  /\ Responsive
  /\ ui.dialog.open /\ ~ui.dialog.starting /\ ~ui.dialog.required
  /\ service' = IF ui.downloading THEN CancelTask(service) ELSE service
  /\ ui' = Continue([ui EXCEPT !.dialog = [@ EXCEPT !.open = FALSE, !.downloading = FALSE,
                                                    !.starting = FALSE]])
  /\ UNCHANGED <<session, inbox, disk, asked>>

HandleDownload ==
  /\ Deliver("download")
  /\ LET m == Head(inbox)
         u == [ui EXCEPT !.downloading = FALSE]
     IN ui' = CASE m.result = "cancelled" -> [u EXCEPT !.path = None]
                [] m.result = "failed"    -> UpdateFailed(u)
                [] m.result = "completed" ->
                     IF session.mac THEN [u EXCEPT !.path = m.file, !.images = @ + 1]
                     ELSE [u EXCEPT !.path = m.file, !.step = "prepare"]
  /\ UNCHANGED <<session, service, disk, asked>>

(***************************************************************************)
(* The installation on macOS: hdiutil, spctl, open                         *)
(***************************************************************************)
VerifyImage ==
  /\ Responsive
  /\ ui.images > 0
  /\ \E valid \in BOOLEAN :
       ui' = IF valid THEN [ui EXCEPT !.images = @ - 1, !.seals = @ + 1]
             ELSE UpdateFailed([ui EXCEPT !.images = @ - 1])
  /\ UNCHANGED <<session, service, inbox, disk, asked>>

\* The path may have been cleared meanwhile: by a check, or by the choice of a version.
VerifySeal ==
  /\ Responsive
  /\ ui.seals > 0
  /\ LET u == [ui EXCEPT !.seals = @ - 1]
     IN \/ ui' = UpdateFailed(u) /\ UNCHANGED disk
        \/ /\ ui' = InstallerStarted(u)
           /\ disk' = [disk EXCEPT !.opened = ui.path]
  /\ UNCHANGED <<session, service, inbox, asked>>

(***************************************************************************)
(* The installation on Linux: install_linux_appimage(), step by step,      *)
(* since the launcher may be killed between any two of them                *)
(***************************************************************************)
Replacing == session.inplace /\ disk.current # None

InstallFailed == ui' = UpdateFailed([ui EXCEPT !.step = "idle"])
Proceed(step) == ui' = [ui EXCEPT !.step = step]

Prepare ==
  /\ ui.step = "prepare"
  /\ \/ InstallFailed
     \/ disk.final # None /\ Proceed(IF Replacing THEN "stage" ELSE "restart")
  /\ UNCHANGED <<session, service, inbox, disk, asked>>

\* The image is copied in parts: the launcher may be killed while part of it is there.
Stage ==
  /\ ui.step = "stage"
  /\ \/ /\ disk.staging # Partial
        /\ disk' = [disk EXCEPT !.staging = Partial]
        /\ UNCHANGED ui
     \/ disk' = [disk EXCEPT !.staging = ui.path] /\ Proceed("clear")
     \/ disk' = [disk EXCEPT !.staging = None] /\ InstallFailed
  /\ UNCHANGED <<session, service, inbox, asked>>

ClearPrevious ==
  /\ ui.step = "clear"
  /\ disk' = [disk EXCEPT !.previous = None]
  /\ Proceed("retire")
  /\ UNCHANGED <<session, service, inbox, asked>>

\* (mutant of Retire: the old AppImage makes room before the new one is there)
RetireByRemoval ==
  /\ ui.step = "retire"
  /\ disk' = [disk EXCEPT !.current = None] /\ Proceed("place")
  /\ UNCHANGED <<session, service, inbox, asked>>

Retire ==
  /\ ui.step = "retire"
  /\ \/ disk' = [disk EXCEPT !.previous = disk.current, !.current = None] /\ Proceed("place")
     \/ disk' = [disk EXCEPT !.staging = None] /\ InstallFailed
  /\ UNCHANGED <<session, service, inbox, asked>>

\* rename(previous, current), which may fail too.
PutBack(d) == {[d EXCEPT !.current = d.previous, !.previous = None], d}

Place ==
  /\ ui.step = "place"
  /\ \/ /\ disk' = [disk EXCEPT !.current = disk.staging, !.staging = None]
        /\ Proceed("restart")
        /\ UNCHANGED session
     \/ /\ disk' \in PutBack([disk EXCEPT !.staging = None])
        /\ session' = [session EXCEPT !.stranded = @ \/ disk'.current = None]
        /\ InstallFailed
  /\ UNCHANGED <<service, inbox, asked>>

\* A detached shell waits for the launcher to end and starts the new one.
ScheduleRestart ==
  /\ ui.step = "restart"
  /\ \/ /\ ui' = InstallerStarted([ui EXCEPT !.step = "idle"])
        /\ disk' = IF Replacing THEN [disk EXCEPT !.final = None] ELSE disk
        /\ UNCHANGED session
     \/ /\ disk' \in IF Replacing THEN PutBack([disk EXCEPT !.current = None]) ELSE {disk}
        /\ session' = [session EXCEPT !.stranded = @ \/ disk'.current = None]
        /\ InstallFailed
  /\ UNCHANGED <<service, inbox, asked>>

(***************************************************************************)
(* The end of the launcher, and its start                                  *)
(***************************************************************************)
\* The service is shut down and what it had reported is lost.
Ended == /\ session' = [session EXCEPT !.up = FALSE]
         /\ service' = FreshService
         /\ inbox' = <<>>
         /\ ui' = FreshUi
         /\ UNCHANGED <<disk, asked>>

\* request_quit(), 350 ms after the installer was started.
QuitForInstaller == Responsive /\ ui.quit /\ Ended

\* The user quits, or the launcher is killed, in the middle of anything.
Stop == session.up /\ Ended

Start ==
  /\ ~session.up
  /\ session.count < MaxSessions
  /\ session.inplace => disk.current \in Releases
  /\ session' = [session EXCEPT !.up = TRUE, !.count = @ + 1,
                                !.version = IF session.inplace THEN disk.current ELSE @]
  /\ \E updated \in BOOLEAN :      \* --launcher-updated
       ui' = [FreshUi EXCEPT !.health = session.inplace /\ (updated \/ disk.previous # None)]
  /\ disk' = [disk EXCEPT !.part = None, !.final = None, !.opened = None]
  /\ asked' = None
  /\ UNCHANGED <<service, inbox>>

HealthCheckpoint ==
  /\ Responsive
  /\ ui.health
  /\ ui' = [ui EXCEPT !.health = FALSE]
  /\ disk' = [disk EXCEPT !.previous = None]
  /\ UNCHANGED <<session, service, inbox, asked>>

(***************************************************************************)
(* Specification                                                           *)
(***************************************************************************)
UserActs == \/ Play \/ ManageVersions \/ RequestUpdate \/ Postpone
            \/ \E r \in Releases : PickVersion(r)

ServiceActs == CheckEndpoint \/ TransferPackage \/ FinalizePackage \/ ClearTask

UiActs == HandleCheck \/ HandleDownload \/ VerifyImage \/ VerifySeal

InstallActs == Prepare \/ Stage \/ ClearPrevious \/ Retire \/ Place \/ ScheduleRestart

Next == \/ UserActs \/ ServiceActs \/ UiActs \/ InstallActs
        \/ QuitForInstaller \/ Stop \/ Start \/ HealthCheckpoint

\* A request ends by its timeout, a task of the service runs on, the event loop of the user
\* interface handles what is queued, commands end, and the timer of the quit fires.
Fairness == /\ WF_vars(ServiceActs)
            /\ WF_vars(UiActs)
            /\ WF_vars(InstallActs)
            /\ WF_vars(QuitForInstaller)

Spec == Init /\ [][Next]_vars /\ Fairness

(***************************************************************************)
(* Properties                                                              *)
(***************************************************************************)
\* Whatever fails, and wherever the launcher is killed, an AppImage that can be run is beside
\* it: the new one, the old one, or the old one under its second name.  The only way to lose
\* it is that an installation could not put the old one back and the checkpoint of the
\* launcher's own start comes afterwards (install_linux_appimage, schedule_health_checkpoint).
LauncherNeverLost ==
  /\ TypeOK
  /\ session.inplace /\ ~session.stranded =>
       disk.current \in Releases \/ disk.previous \in Releases

\* What is installed, or opened as an installer, is the release that the manager had selected
\* when the update was requested, its bytes verified: the selection of the service is the
\* same, and no check, choice or cancellation that comes between changes it (storeSelection,
\* selectVersion, select_version, handle_check, performDownload).
InstalledAsAsked ==
  [][/\ disk'.current \notin {disk.current, disk.previous, None} => disk'.current = asked
     /\ disk'.opened \notin {disk.opened, None} => disk'.opened = asked]_vars

\* Unless the user has opened the list of versions, what is offered is newer than what runs,
\* and nothing newer is in the catalogue (performCheck, parseCatalogue, compareVersions).
OffersNewest ==
  LET d == ui.dialog
  IN d.open /\ ~d.catalogue =>
       /\ Newer(d.shown, session.version)
       /\ \A r \in ToSet(d.versions) : ~Newer(r, d.shown)

\* The dialog does not stay in "Downloading": the package comes, or the failure, or the
\* cancellation (performDownload, download_callback, handle_download, LauncherUpdate).
DownloadResolves == ui.dialog.downloading ~> ~ui.dialog.downloading

\* The entry of the menu that a check disables can be used again, or the launcher has ended
\* (check_started and the four signals that enable it).
MenuReturns == ~ui.manage ~> ui.manage

\* Whoever has asked the updater for something gets the window back.
NothingHangs == DownloadResolves /\ MenuReturns
===============================================================================
