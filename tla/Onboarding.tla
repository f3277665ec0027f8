----------------------------- MODULE Onboarding -----------------------------
(***************************************************************************)
(* From the first start to the button that enters the game: the boxes of   *)
(* the main window, the state of the installation that selects among them, *)
(* the rules agreement, the sign-in with its callbacks from the browser,   *)
(* and what comes across: the integrity watcher's report, a repair, an     *)
(* error, a factory reset, a restart.                                      *)
(*                                                                         *)
(* A signal of Qt calls its slots before emit returns: one event of the    *)
(* user interface is one step.  The launch itself is Prelaunch's, what the *)
(* configuration does with its files is Settings'.                         *)
(***************************************************************************)
EXTENDS RulesBox, Sequences, FiniteSets

CONSTANT
  MaxPosted    \* events of the sign-in that wait at a time (a bound)

Stages == {"Probing", "Failed", "NeedsLanguage", "NeedsPrerequisites", "NeedsRuntime",
           "SettingUpPrefix", "Updating", "Downloading", "NeedsPrefix", "PrefixBroken",
           "NeedsDownload", "NeedsRules", "Authenticating", "NeedsAuth", "Ready"}

\* The boxes of the setup, the list of changed files and the dialog of a repair.
SetupBoxes == {"language", "prerequisites", "runtime", "prefix", "game", "rules"}
Boxed      == SetupBoxes \cup {"files", "repair"}

VARIABLE ui    \* the launcher, its configuration and what it has put on the disk

vars == <<ui>>

Empty == [language |-> FALSE, prerequisites |-> FALSE, runtime |-> FALSE, rules |-> FALSE,
          account |-> FALSE]

\* MainWindow, InstallState, RulesAgreement and AuthHandler as they are constructed.
Fresh(config, disk, read) ==
  [config |-> config, disk |-> disk, read |-> read,
   seen |-> [config |-> Empty, prefix |-> "none", game |-> FALSE], probed |-> FALSE,
   reviewed |-> FALSE, signing |-> FALSE, wine |-> FALSE, transfer |-> FALSE, failed |-> "none",
   stage |-> IF config.language THEN "Probing" ELSE "NeedsLanguage",
   view |-> "loading", open |-> [o \in IF config.language THEN {} ELSE {"language"} |-> {}],
   message |-> FALSE, muted |-> FALSE, damaged |-> FALSE, repairing |-> FALSE,
   box |-> NewBox, pending |-> FALSE, scheduled |-> FALSE,
   posted |-> <<>>, changed |-> FALSE, probe |-> config.language]

Disks == {[prefix |-> "none", game |-> FALSE, rules |-> NoDocument],
          [prefix |-> "ready", game |-> TRUE, rules |-> NoDocument]}

Callback == [event |-> "url", over |-> FALSE]

\* main() of the only launcher: a URL it was started with waits for the event loop.
Started(u) == {u, [u EXCEPT !.posted = <<Callback>>]}

\* A new user, or one whose config.json is lost and whose game is not.
Init == \E disk \in Disks : ui \in Started(Fresh(Empty, disk, FALSE))

(***************************************************************************)
(* The window                                                              *)
(***************************************************************************)
\* The boxes that are open, each with those it lies over.
Shows(u, o) == o \in DOMAIN u.open
Close(u, boxes) == [u EXCEPT !.open = [o \in DOMAIN @ \ boxes |-> @[o] \ boxes]]

\* open_overlay() raises what is open already.
Open(u, o) ==
  LET raised == [u EXCEPT !.open = [x \in DOMAIN @ \cup {o} |->
                                     (IF x = o THEN DOMAIN @ ELSE @[x]) \ {o}]]
  IN  IF o = "rules" /\ ~Shows(u, o) THEN [raised EXCEPT !.box = ShowBox(@, u.disk.rules)]
      ELSE raised

\* view_for()
View(stage) ==
  CASE stage = "NeedsLanguage"                                    -> "language"
    [] stage = "NeedsPrerequisites"                               -> "prerequisites"
    [] stage = "NeedsRuntime"                                     -> "runtime"
    [] stage \in {"NeedsPrefix", "PrefixBroken", "SettingUpPrefix"} -> "prefix"
    [] stage = "NeedsDownload"                                    -> "game"
    [] stage = "NeedsRules"                                       -> "rules"
    [] stage \in {"Probing", "Downloading", "Updating"}           -> "loading"
    [] stage = "Failed"                                           -> "error"
    [] stage \in {"NeedsAuth", "Authenticating", "Ready"}         -> "chooser"

\* What a change to a view opens by itself: not the runtimes, and the setup of a prefix
\* only when it is under way or to be repaired.
OpensItself(u) == /\ View(u.stage) \in SetupBoxes \ {"runtime"}
                  /\ u.stage # "NeedsPrefix"

ShowView(u) ==
  LET view   == View(u.stage)
      closed == IF view \in {"loading", "error"} THEN {"language"} ELSE SetupBoxes \ {view}
      v      == Close([u EXCEPT !.view = view], closed)
  IN  IF view = u.view THEN u
      ELSE IF OpensItself(u) THEN Open(v, view) ELSE v

\* MainWindow::on_stage_changed()
StageChanged(u) == IF u.repairing /\ Shows(u, "repair") THEN u ELSE ShowView(u)

OpenForCurrentStage(u) == IF View(u.stage) \in SetupBoxes THEN Open(u, View(u.stage)) ELSE u

(***************************************************************************)
(* InstallState                                                            *)
(***************************************************************************)
\* compute(): the first of these that holds.
Findings(u) ==
  LET c == u.seen.config
  IN  << <<~u.probed, "Probing">>, <<u.failed # "none", "Failed">>,
         <<~c.prerequisites, "NeedsPrerequisites">>, <<~c.runtime, "NeedsRuntime">>,
         <<u.wine, "SettingUpPrefix">>, <<u.transfer /\ u.seen.game, "Updating">>,
         <<u.transfer, "Downloading">>, <<u.seen.prefix = "none", "NeedsPrefix">>,
         <<u.seen.prefix = "incomplete", "PrefixBroken">>, <<~u.seen.game, "NeedsDownload">>,
         <<~c.rules /\ ~u.reviewed, "NeedsRules">>, <<u.signing, "Authenticating">>,
         <<~c.account, "NeedsAuth">>, <<TRUE, "Ready">> >>

Compute(u) ==
  LET f == Findings(u)
  IN  f[CHOOSE i \in DOMAIN f : f[i][1] /\ \A j \in 1 .. i - 1 : ~f[j][1]][2]

Become(u, stage) == IF stage = u.stage THEN u ELSE StageChanged([u EXCEPT !.stage = stage])

Recompute(u) == Become(u, Compute(u))

Probe(u) ==
  IF ~u.config.language THEN Become(u, "NeedsLanguage")
  ELSE Recompute([u EXCEPT !.probe = FALSE, !.probed = TRUE,
                           !.seen = [config |-> u.config, prefix |-> u.disk.prefix,
                                     game |-> u.disk.game]])

ScheduleProbe(u) ==
  IF u.config.language THEN [u EXCEPT !.probe = TRUE] ELSE Become(u, "NeedsLanguage")

\* The error is shown in a box of its own, unless a dialog of a transfer is visible.
SetError(u, who) ==
  LET covered == Shows(u, "game") \/ Shows(u, "repair")
  IN  IF u.failed = who THEN u
      ELSE [u EXCEPT !.failed = who, !.message = @ \/ ~covered, !.muted = covered]

ClearError(u) == [u EXCEPT !.failed = "none", !.muted = FALSE]

\* on_reporter_changed(), for a reporter's failure and for its success.
Failure(u, who) == Recompute(SetError(u, who))
Success(u)      == ScheduleProbe(ClearError(u))

\* Config::changed, which InstallState hears by a queued connection.  What a thread
\* reports is posted as well, and comes after it.
Set(u, fields) ==
  [u EXCEPT !.config = [f \in DOMAIN @ |-> IF f \in DOMAIN fields THEN fields[f] ELSE @[f]],
            !.changed = TRUE]

(***************************************************************************)
(* AuthHandler                                                             *)
(***************************************************************************)
Due      == [event |-> "complete", over |-> FALSE]
Overdue  == [event |-> "complete", over |-> TRUE]

\* History: the completions that wait are those of an attempt that is over.
Over(u) ==
  [u EXCEPT !.posted = [i \in DOMAIN @ |-> IF @[i].event = "complete" THEN Overdue ELSE @[i]]]

ResetPendingLogin(u) == [u EXCEPT !.pending = FALSE]

\* (mutant of CancelLogin: the completion that is on its way is forgotten)
CancelLoginOnly(u) ==
  IF ~u.pending /\ ~u.scheduled /\ ~u.signing THEN u
  ELSE Recompute([Over(ResetPendingLogin(u)) EXCEPT !.signing = FALSE])

CancelLogin(u) ==
  IF ~u.pending /\ ~u.scheduled /\ ~u.signing THEN u
  ELSE Recompute([Over(ResetPendingLogin(u)) EXCEPT !.scheduled = FALSE, !.signing = FALSE])

FailLogin(u) ==
  Failure([Over(ResetPendingLogin(u)) EXCEPT !.signing = FALSE], "auth")

\* schedule_login_completion()
ScheduleCompletion(u) ==
  [u EXCEPT !.pending = FALSE, !.scheduled = TRUE,
            !.posted = Append(@, Due)]

\* The callback that is posted: set_auth(), then done().
CompleteLogin(u) ==
  IF ~u.scheduled THEN u
  ELSE Success([Set(u, [account |-> TRUE]) EXCEPT !.scheduled = FALSE, !.signing = FALSE])

(***************************************************************************)
(* The user goes through the setup                                         *)
(***************************************************************************)
\* A setup, a transfer or a repair takes longer than the event loop needs for what is queued
\* and for a timer of no time.
Prompt == ~ui.changed /\ ~ui.probe

Top(u) == IF DOMAIN u.open = {} THEN "none"
          ELSE CHOOSE o \in DOMAIN u.open : u.open[o] = DOMAIN u.open \ {o}

AcceptLanguage ==
  /\ Top(ui) = "language"
  /\ ui' = Close(Set(ui, [language |-> TRUE]), {"language"})

(***************************************************************************)
(* The chooser                                                             *)
(***************************************************************************)
\* state_for(); a game that is being updated stays signed in.
ChooserState(u) ==
  CASE u.stage = "NeedsAuth"                            -> "login"
    [] u.stage = "Authenticating"                       -> "waiting"
    [] u.stage = "Ready"                                -> "signed in"
    [] u.stage = "Updating" /\ u.config.account         -> "signed in"
    [] OTHER                                            -> "download"

\* The stages in which the button of the state "download" is enabled.
Actionable == {"NeedsRuntime", "NeedsPrefix", "PrefixBroken", "NeedsDownload"}

\* The button that enters the game, with its two acknowledgements ticked.
EnterEnabled(u) == u.stage = "Ready"

\* apply_state_visibility(): what can be pressed.
Controls(u) ==
  CASE ChooserState(u) = "download"  -> IF u.stage \in Actionable THEN {"download"} ELSE {}
    [] ChooserState(u) = "login"     -> {"discord", "reset"}
    [] ChooserState(u) = "waiting"   -> {"try again", "reset"}
    [] ChooserState(u) = "signed in" -> {"sign out", "reset"} \cup
                                          (IF EnterEnabled(u) THEN {"enter"} ELSE {})

Offered(control) == Top(ui) = "none" /\ control \in Controls(ui)

(***************************************************************************)
(* The setup                                                               *)
(***************************************************************************)
\* The recommendation is taken as it is (macOS), when the machine has what it needs.
UseRecommended ==
  /\ Top(ui) = "prerequisites"
  /\ ui' = Set(Close(Set(ui, [runtime |-> TRUE]), {"prerequisites"}), [prerequisites |-> TRUE])

\* The user wants to choose; on Linux both buttons of the assistant end here.  The
\* machine is an x86-64 one or a Mac: on others the assistant offers neither.
ChooseOwn ==
  /\ Top(ui) = "prerequisites"
  /\ LET chosen == Set(Close(ui, {"prerequisites"}), [prerequisites |-> TRUE, runtime |-> FALSE])
     IN  ui' = OpenForCurrentStage(Probe(chosen))

ConfirmRuntime ==
  /\ Top(ui) = "runtime"
  /\ ui' = OpenForCurrentStage(Probe(Close(Set(ui, [runtime |-> TRUE]), {"runtime"})))

\* The buttons that close a box, which a setup or a transfer takes away.
CloseBox ==
  /\ Top(ui) \in {"runtime", "prefix", "game", "files"}
  /\ ~(Top(ui) = "prefix" /\ ui.wine) /\ ~(Top(ui) = "game" /\ ui.transfer)
  /\ ui' = Close(ui, {Top(ui)})

SetUpPrefix ==
  /\ Top(ui) = "prefix" /\ ~ui.wine
  /\ ui' = Recompute([ui EXCEPT !.wine = TRUE])

SetupEnds ==
  /\ ui.wine /\ Prompt
  /\ \/ ui' = Success([ui EXCEPT !.wine = FALSE, !.disk.prefix = "ready"])
     \/ ui' = Failure([ui EXCEPT !.wine = FALSE, !.disk.prefix = "incomplete"], "wine")

InstallGame ==
  /\ Top(ui) = "game" /\ ~ui.transfer
  /\ ui' = Recompute([ui EXCEPT !.transfer = TRUE])

TransferEnds ==
  /\ ui.transfer /\ ~ui.repairing /\ Prompt
  /\ \/ ui' = Recompute(ScheduleProbe([ui EXCEPT !.transfer = FALSE, !.disk.game = TRUE,
                                                 !.seen.game = TRUE]))
     \/ ui' = Recompute([ui EXCEPT !.transfer = FALSE])

ChooserDownload == Offered("download") /\ ui' = OpenForCurrentStage(ui)

\* The error's own box is closed.
\* (mutant of DismissError: and nothing is looked at again)
DismissErrorOnly(u) == [ClearError(u) EXCEPT !.message = FALSE]

DismissError(u) == Probe([ClearError(u) EXCEPT !.message = FALSE])

CloseMessage == ui.message /\ ui' = DismissError(ui)

(***************************************************************************)
(* The rules                                                               *)
(***************************************************************************)
RulesTick ==
  /\ ui.box.ticking
  /\ ui' = [ui EXCEPT !.box = Tick(@, Shows(ui, "rules"))]

RulesScroll ==
  /\ Top(ui) = "rules" /\ CanScroll(ui.box)
  /\ ui' = [ui EXCEPT !.box = ScrollToEnd(@)]

RulesRetry ==
  /\ Top(ui) = "rules" /\ CanRetry(ui.box)
  /\ ui' = [ui EXCEPT !.box = LoadRules(@)]

RulesAnswered ==
  /\ ui.box.request
  /\ \E outcome \in Outcomes : \E cache \in Caches(outcome, ui.disk.rules) :
       ui' = [ui EXCEPT !.box = Answered(@, outcome, ui.disk.rules), !.disk.rules = cache]

\* The box hides, and InstallState knows; read is history.
RulesAgree ==
  /\ Top(ui) = "rules" /\ CanAgree(ui.box)
  /\ LET agreed == [Close(ui, {"rules"}) EXCEPT !.reviewed = TRUE, !.read = @ \/ HasRead(ui.box)]
     IN  ui' = IF ui.reviewed THEN agreed ELSE Recompute(agreed)

\* The window comes back from the tray: its boxes are shown again.
Reshow ==
  /\ Shows(ui, "rules")
  /\ ui' = [ui EXCEPT !.box = ShowBox(@, ui.disk.rules)]

(***************************************************************************)
(* Signing in                                                              *)
(***************************************************************************)
\* The Discord button; neither a browser nor a clipboard may be there.
OpenLogin ==
  /\ Offered("discord") /\ ~ui.pending /\ ~ui.scheduled
  /\ LET begun == Recompute([ui EXCEPT !.pending = TRUE, !.signing = TRUE])
     IN  ui' = begun \/ ui' = FailLogin(begun)

TryAgain == Offered("try again") /\ ui' = CancelLogin(ui)

LoginTimesOut == ui.pending /\ ui' = FailLogin(ui)

\* What a URL may be, none of which names an attempt: of another kind than the launcher's
\* own, one of those with something wrong, one that comes when the timer is to fire.
Urls == {"foreign", "malformed", "late", "good"}

\* is_auth_url(); both sides of the socket look at it.
IsAuthUrl(url) == url # "foreign"

\* handle_command()
Activate(url) ==
  /\ Len(ui.posted) < MaxPosted
  /\ ui' = IF IsAuthUrl(url) THEN [ui EXCEPT !.posted = Append(@, Callback)] ELSE ui

\* The system opens a URL of the launcher's kind in it (macOS).
UrlOpened == \E url \in Urls : IsAuthUrl(url) /\ Activate(url)

\* A second launcher hands on the URL it was started with, if any, and ends.
HandedOn == \E url \in Urls : Activate(url)

\* handle_url(): refused, too late while its timer is still to fire, or taken.  That the
\* same URL is not taken twice in a row is left out: the first time ends what was pending.
HandleUrl(u, kind) ==
  CASE ~u.pending \/ kind = "malformed" -> u
    [] u.pending /\ kind = "late"       -> FailLogin(u)
    [] u.pending /\ kind = "good"       -> ScheduleCompletion(u)

\* The event loop takes what waits at this time, in its order, before it takes anything of
\* the user's; what is posted meanwhile waits for the next time.
Handle(u, e, kind) == IF e.event = "complete" THEN CompleteLogin(u) ELSE HandleUrl(u, kind)

Deliver ==
  /\ ui.posted # <<>>
  /\ LET n    == Len(ui.posted)
         rest == [ui EXCEPT !.posted = <<>>]
     IN  \E kinds \in [1 .. n -> {url \in Urls : IsAuthUrl(url)}] :
           LET after[i \in 0 .. n] ==
                 IF i = 0 THEN rest ELSE Handle(after[i - 1], ui.posted[i], kinds[i])
           IN  ui' = after[n]

SignOut == Offered("sign out") /\ ui' = Set(ui, [account |-> FALSE])

\* The first time; the launch that follows is Prelaunch's.
Enter == Offered("enter") /\ ~ui.config.rules /\ ui' = Set(ui, [rules |-> TRUE])

(***************************************************************************)
(* What comes across                                                       *)
(***************************************************************************)
ConfigChanged == ui.changed /\ ui' = ScheduleProbe([ui EXCEPT !.changed = FALSE])
ProbeTimer    == ui.probe /\ ui' = Probe([ui EXCEPT !.probe = FALSE])

\* protected_files_changed: what has been reported already opens no box.
FilesReported ==
  /\ ui.config.language /\ ui.disk.game /\ ~ui.changed
  /\ ui.stage \notin {"Downloading", "Updating"} /\ ~ui.repairing /\ ~Shows(ui, "repair")
  /\ ~ui.damaged
  /\ ui' = Open(Close([ui EXCEPT !.damaged = TRUE], SetupBoxes \ {"language"}), "files")

StartRepair ==
  /\ Top(ui) = "files" /\ ~ui.wine
  /\ LET begun == Recompute([Close(ui, {"files"}) EXCEPT !.repairing = TRUE, !.transfer = TRUE])
     IN  ui' = Open(begun, "repair")

\* The dialog reports success, or is closed after a failure; either way the window looks at
\* the stage as if for the first time.
RepairEnds ==
  /\ ui.repairing /\ Prompt
  /\ \E ok \in BOOLEAN :
       LET ended  == Recompute([ui EXCEPT !.repairing = FALSE, !.transfer = FALSE,
                                          !.damaged = @ /\ ~ok])
           closed == Close(ended, {"repair"})
       IN  ui' = StageChanged([closed EXCEPT !.view = "loading"])

ForgetReview(u) == [u EXCEPT !.reviewed = FALSE]

\* The reset of the launcher: it cannot start, removes everything, or leaves files behind.
FactoryReset ==
  /\ Offered("reset")
  /\ LET cleared == [ForgetReview(CancelLogin(ui)) EXCEPT !.damaged = FALSE]
         wiped   == [cleared EXCEPT !.config = Empty, !.changed = TRUE, !.read = FALSE,
                                    !.disk = [prefix |-> "none", game |-> FALSE,
                                              rules |-> NoDocument], !.view = "loading"]
     IN  ui' = cleared \/ ui' = Probe(wiped) \/ ui' = Probe([wiped EXCEPT !.disk = ui.disk])

\* The launcher ends and starts again; without "keep me signed in" the account is gone.
Restart ==
  \E keep \in BOOLEAN :
    ui' \in Started(Fresh([ui.config EXCEPT !.account = @ /\ keep], ui.disk,
                          ui.read /\ ui.config.rules))

Next ==
  \/ AcceptLanguage \/ UseRecommended \/ ChooseOwn \/ ConfirmRuntime \/ CloseBox
  \/ SetUpPrefix \/ SetupEnds \/ InstallGame \/ TransferEnds \/ ChooserDownload \/ CloseMessage
  \/ RulesTick \/ RulesScroll \/ RulesRetry \/ RulesAnswered \/ RulesAgree \/ Reshow
  \/ OpenLogin \/ TryAgain \/ LoginTimesOut \/ UrlOpened \/ HandedOn \/ Deliver \/ SignOut \/ Enter
  \/ ConfigChanged \/ ProbeTimer \/ FilesReported \/ StartRepair \/ RepairEnds
  \/ FactoryReset \/ Restart

Spec == Init /\ [][Next]_vars

(***************************************************************************)
(* Properties                                                              *)
(***************************************************************************)
TypeOK ==
  /\ ui.config \in [DOMAIN Empty -> BOOLEAN] /\ ui.seen.config \in [DOMAIN Empty -> BOOLEAN]
  /\ ui.stage \in Stages /\ ui.box \in Boxes
  /\ DOMAIN ui.open \subseteq Boxed

(* The rules of the playtest count as reviewed or accepted only when the   *)
(* user has had the document on the screen for its countdown, or to its    *)
(* end, since the launcher was last reset - however often the box was      *)
(* hidden, closed by a report, reopened from the cache or refilled by an   *)
(* answer that came late (RulesAgreement, InstallState, factory reset).    *)
RulesReadFirst ==
  TypeOK /\ (ui.reviewed \/ ui.config.rules => ui.read)

(* An account is only ever stored by the attempt to sign in that is under  *)
(* way: what was scheduled for one that the user cancelled, that timed out *)
(* or that a factory reset ended signs nobody in (AuthHandler).            *)
SignedInByThisAttempt ==
  [][~ui.config.account /\ ui'.config.account
       => \E i \in DOMAIN ui.posted : ui.posted[i] = Due]_vars

Quiet == ui.posted = <<>> /\ ~ui.changed /\ ~ui.probe /\ ~ui.box.request
           /\ ~ui.wine /\ ~ui.transfer

Closable == {"runtime", "prefix", "game", "files", "repair"}

\* A box of the setup that the user cannot close must be able to take the setup further.
LeadsOn ==
  \/ Top(ui) \in Closable
  \/ Top(ui) \in {"language", "prerequisites"} /\ View(ui.stage) = Top(ui)
  \/ Top(ui) = "rules" /\ (CanRetry(ui.box) \/ CanAgree(ui.box) \/ CanScroll(ui.box) \/ ui.box.ticking)
  \/ Top(ui) = "none" /\ Controls(ui) # {}
  \/ ui.message

\* Where the launcher does leave the user without a control: a report has closed a box that
\* the chooser cannot open again, a failure was kept from the user by the dialog of a
\* repair, or the countdown stands still.
KnownDeadEnds ==
  \/ ui.damaged /\ ui.stage \in {"NeedsRules", "NeedsPrerequisites"}
  \/ ui.stage = "Failed" /\ ui.muted
  \/ Top(ui) = "rules" /\ Frozen(ui.box)

(* Whenever nothing is under way, the user has a control that takes the    *)
(* setup further, whichever boxes a stage, a report, an error, a repair, a *)
(* reset or a restart have opened and closed - but for the dead ends named *)
(* above (MainWindow, InstallState, AliciaChooser).                        *)
WayForward == Quiet => LeadsOn \/ KnownDeadEnds
=============================================================================
