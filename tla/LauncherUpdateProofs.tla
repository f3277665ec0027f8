------------------------- MODULE LauncherUpdateProofs -------------------------
(***************************************************************************)
(* What holds of the launcher's update of itself, for every set of         *)
(* releases and catalogues, any number of endpoints, requests and starts   *)
(* of the launcher.                                                        *)
(***************************************************************************)
EXTENDS LauncherUpdate, FiniteSetTheorems, TLAPS

(***************************************************************************)
(* The inductive invariant                                                 *)
(***************************************************************************)
MaybeRelease == Releases \cup {None}
Steps        == {"idle", "prepare", "stage", "clear", "retire", "place", "restart"}

Sessions == [up : BOOLEAN, mac : BOOLEAN, inplace : BOOLEAN, configured : BOOLEAN,
             version : Releases, count : Nat, requests : Nat, stranded : BOOLEAN]
Tasks    == [kind : {"none", "check", "download"},
             pc : {"done", "fetch", "clear", "transfer", "move"},
             left : Int, release : MaybeRelease, cancelled : BOOLEAN]
Services == [task : Tasks, selection : MaybeRelease, catalogue : Seq(Releases)]
Messages == [event : {"check"}, result : {"available", "current", "failed"},
             releases : Seq(Releases), valid : BOOLEAN, file : MaybeRelease]
            \cup
            [event : {"download"}, result : {"completed", "failed", "cancelled"},
             releases : Seq(Releases), valid : BOOLEAN, file : MaybeRelease]
Dialogs  == [open : BOOLEAN, versions : Seq(Releases), catalogue : BOOLEAN,
             shown : MaybeRelease, required : BOOLEAN, downloading : BOOLEAN,
             starting : BOOLEAN]
Uis      == [purpose : {"none", "startup", "manual"}, downloading : BOOLEAN,
             releases : Seq(Releases), release : MaybeRelease, path : MaybeRelease,
             step : Steps, images : Int, seals : Int, dialog : Dialogs, manage : BOOLEAN,
             launch : {"none", "waiting", "handed"}, checked : BOOLEAN, health : BOOLEAN,
             quit : BOOLEAN]
Disks    == [current : MaybeRelease, staging : MaybeRelease \cup {Partial},
             previous : MaybeRelease, part : MaybeRelease \cup {Partial, Garbage},
             final : MaybeRelease, opened : MaybeRelease]

Typed ==
  /\ session \in Sessions /\ service \in Services /\ inbox \in Seq(Messages)
  /\ ui \in Uis /\ disk \in Disks /\ asked \in MaybeRelease

\* A catalogue is in order: nothing in it is newer than its first release.
Headed(c) == \A i \in DOMAIN c : ~Newer(c[i], c[1])

Pending(event) == \E i \in DOMAIN inbox : inbox[i].event = event
AtMostOne(event) ==
  \A i, j \in DOMAIN inbox : inbox[i].event = event /\ inbox[j].event = event => i = j

\* A request of the user interface is with the service's task, or its one report is on its way.
OneReport ==
  /\ AtMostOne("check") /\ AtMostOne("download")
  /\ Pending("check") => service.task.pc # "fetch" /\ ui.purpose # "none"
  /\ service.task.pc = "fetch" => ui.purpose # "none"
  /\ Pending("download") => service.task.pc \notin {"transfer", "move"} /\ ui.downloading
  /\ service.task.pc \in {"transfer", "move"} => ui.downloading

\* What the service reports: catalogues in order, an update that is newer than what runs, and
\* the release that was asked for.
True(m) ==
  /\ m.event = "check" /\ m.result = "available" =>
       Headed(m.releases) /\ Newer(m.releases[1], session.version)
  /\ m.event = "download" /\ m.result = "completed" => m.file = asked /\ asked # None

ReportsTrue == \A i \in DOMAIN inbox : True(inbox[i])

\* The manager, the service and the user speak of the same release.
SameRelease ==
  /\ ui.purpose # "none" => ui.release = None /\ ui.releases = <<>>
  /\ ui.release # None => service.selection = ui.release
  /\ ui.downloading => ui.release # None /\ ui.release = asked
  /\ ui.path # None => ui.path = ui.release /\ ui.path = asked
  /\ service.task.pc \in {"transfer", "move"} => service.task.release = asked
  /\ service.task.pc = "move" => disk.part = asked

\* How far install_linux_appimage() has come, and what it has left of the AppImages.
Installing ==
  /\ session.mac => ~session.inplace
  /\ ui.step # "idle" => session.up /\ ui.path # None
  /\ ui.step \in {"stage", "clear", "retire"} => session.inplace /\ disk.current # None
  /\ ui.step \in {"clear", "retire", "place"} => disk.staging = ui.path
  /\ ui.step = "place" => disk.current = None
  /\ session.inplace /\ ~session.stranded =>
       /\ ui.step = "place" => disk.previous \in Releases
       /\ session.up /\ ui.step # "place" => disk.current \in Releases
       /\ disk.current \in Releases \/ disk.previous \in Releases

Down == ~session.up => service = FreshService /\ inbox = <<>> /\ ui = FreshUi

IInv ==
  /\ Typed /\ OneReport /\ ReportsTrue /\ SameRelease /\ Installing /\ Down
  /\ OffersNewest

(***************************************************************************)
(* The operators                                                           *)
(***************************************************************************)

LEMMA NoneFacts ==
  /\ None \notin Releases /\ Partial \notin Releases /\ Garbage \notin Releases
  /\ None # Partial /\ None # Garbage
BY ReleasesAssumption DEF None, Partial, Garbage

\* No version is newer than itself.
LEMMA NotNewerThanItself ==
  ASSUME NEW r \in Releases
  PROVE  ~Newer(r, r)
<1> DEFINE l == Parsed(r)
           Part(s, i) == IF i <= Len(s) THEN s[i] ELSE 0
           count == IF Len(l.core) < Len(l.core) THEN Len(l.core) ELSE Len(l.core)
           signs == [i \in 1 .. count |-> Sign(Part(l.core, i), Part(l.core, i))]
<1>1. l.core \in Seq(Nat) /\ l.pre \in Seq(Identifiers)
  BY NumberAssumption DEF Parsed
<1>2. \A n \in Int : Sign(n, n) = 0
  BY DEF Sign
<1>3. FirstDifference(signs) = 0
  <2>1. \A i \in 1 .. Len(signs) : signs[i] = 0
    BY <1>1, <1>2
  <2> HIDE DEF signs
  <2>. QED
    BY <2>1 DEF FirstDifference, SelectInSeq
<1>4. Prerelease(l.pre, l.pre) = 0
  <2> DEFINE p == l.pre
             both == [i \in 1 .. Len(p) |-> IdentifierSign(p[i], p[i])]
  <2>1. \A i \in 1 .. Len(both) : both[i] = 0
    <3>1. ASSUME NEW x \in Identifiers
          PROVE  IdentifierSign(x, x) = 0
      <4>1. Sign(x.key, x.key) = 0
        BY <1>2 DEF Identifiers
      <4>. QED
        BY <4>1 DEF IdentifierSign
    <3>2. Len(both) = Len(p) /\ \A i \in 1 .. Len(p) : p[i] \in Identifiers
      BY <1>1
    <3>. QED
      BY <3>1, <3>2
  <2>2. FirstDifference(both) = 0
    <3> HIDE DEF both
    <3>. QED
      BY <2>1 DEF FirstDifference, SelectInSeq
  <2>3. Len(p) \in Nat /\ Sign(Len(p), Len(p)) = 0
    BY <1>1, <1>2
  <2>. QED
    BY <2>2, <2>3 DEF Prerelease
<1>5. CompareVersions(r, r) = 0
  <2>1. CompareVersions(r, r)
          = IF FirstDifference(signs) # 0 THEN FirstDifference(signs) ELSE Prerelease(l.pre, l.pre)
    BY DEF CompareVersions
  <2>. QED
    BY <1>3, <1>4, <2>1
<1>. QED
  BY <1>5 DEF Newer

\* What parseCatalogue() leaves of a document: releases, the newest first.
LEMMA CatalogueFacts ==
  ASSUME NEW d \in Documents, NEW listed \in LoadCatalogue(d), listed # <<>>
  PROVE  listed \in Seq(Releases) /\ 1 \in DOMAIN listed /\ Headed(listed)
<1> DEFINE set == Recent(d)
<1>1. set \subseteq Releases /\ IsFiniteSet(set)
  <2>1. set \subseteq Releases
    BY ReleasesAssumption DEF Documents, Recent
  <2>. QED
    BY <2>1, ReleasesAssumption, FS_Subset
<1>2. listed \in SetToSeqs(set) /\ \A i, j \in DOMAIN listed : i < j => ~Newer(listed[j], listed[i])
  BY DEF LoadCatalogue, Sorted
<1>3. Cardinality(set) \in Nat
  BY <1>1, FS_CardinalityType
<1> DEFINE n == Cardinality(set)
<1>4. listed \in [1 .. n -> set]
  BY <1>2 DEF SetToSeqs
<1> HIDE DEF n
<1>5. n \in Nat /\ listed \in Seq(set) /\ Len(listed) = n
  BY <1>3, <1>4 DEF n
<1>6. 1 \in DOMAIN listed
  BY <1>5
<1>7. \A i \in DOMAIN listed : i = 1 \/ 1 < i
  BY <1>5
<1>. QED
  BY <1>1, <1>2, <1>5, <1>6, <1>7, NotNewerThanItself DEF Headed

\* Two states of the dialog that offer the same, and two states of the user interface that
\* differ only in what no other part looks at.
Look(d, e) ==
  /\ d.open = e.open /\ d.catalogue = e.catalogue
  /\ d.versions = e.versions /\ d.shown = e.shown

Same(u, v) ==
  /\ u.purpose = v.purpose /\ u.downloading = v.downloading /\ u.releases = v.releases
  /\ u.release = v.release /\ u.path = v.path /\ u.step = v.step /\ u.dialog = v.dialog

Alike(u, v) ==
  /\ u.purpose = v.purpose /\ u.downloading = v.downloading /\ u.releases = v.releases
  /\ u.release = v.release /\ u.path = v.path /\ u.step = v.step
  /\ Look(u.dialog, v.dialog)

LEMMA NothingFoundSame ==
  ASSUME NEW u \in Uis
  PROVE  /\ Continue(u) \in Uis /\ Same(Continue(u), u)
         /\ NothingFound(u) \in Uis /\ Same(NothingFound(u), u)
         /\ ManualFailed(u) \in Uis /\ Same(ManualFailed(u), u)
<1>1. ASSUME NEW v \in Uis
      PROVE  Continue(v) \in Uis /\ Same(Continue(v), v)
  BY DEF Continue, Uis, Same
<1> DEFINE w == [u EXCEPT !.manage = TRUE]
<1>2. w \in Uis /\ Same(w, u)
  BY DEF Uis, Same
<1>3. Continue(w) \in Uis /\ Same(Continue(w), u)
  <2> HIDE DEF w
  <2>. QED
    BY <1>1, <1>2 DEF Same
<1>. QED
  BY <1>1, <1>2, <1>3 DEF NothingFound, ManualFailed

LEMMA ForgottenFacts ==
  ASSUME NEW u \in Uis
  PROVE  LET v == Forgotten(u)
             w == ResetRelease(u)
         IN  /\ v \in Uis /\ v.releases = <<>> /\ v.release = None /\ v.path = None
             /\ v.purpose = u.purpose /\ v.downloading = u.downloading /\ v.step = u.step
             /\ v.dialog = u.dialog
             /\ w \in Uis /\ w.releases = u.releases /\ w.release = None /\ w.path = None
             /\ w.purpose = u.purpose /\ w.downloading = u.downloading /\ w.step = u.step
             /\ w.dialog = u.dialog
<1>1. <<>> \in Seq(Releases) /\ None \in MaybeRelease
  BY DEF MaybeRelease
<1> DEFINE e == [u EXCEPT !.releases = <<>>]
<1>2. /\ e \in Uis /\ e.releases = <<>> /\ e.purpose = u.purpose /\ e.downloading = u.downloading
      /\ e.step = u.step /\ e.dialog = u.dialog
  BY <1>1 DEF Uis
<1>3. ASSUME NEW x \in Uis
      PROVE  LET w == ResetRelease(x)
             IN  /\ w \in Uis /\ w.releases = x.releases /\ w.release = None /\ w.path = None
                 /\ w.purpose = x.purpose /\ w.downloading = x.downloading /\ w.step = x.step
                 /\ w.dialog = x.dialog
  BY <1>1 DEF ResetRelease, Uis
<1>4. Forgotten(u) = ResetRelease(e)
  BY DEF Forgotten
<1> HIDE DEF e
<1>. QED
  BY <1>2, <1>3, <1>4

LEMMA SelectedFacts ==
  ASSUME NEW u \in Uis, NEW r \in Releases
  PROVE  LET v == Selected(u, r)
         IN  /\ v \in Uis /\ v.releases = u.releases /\ v.release = r /\ v.path = None
             /\ v.purpose = u.purpose /\ v.downloading = u.downloading /\ v.step = u.step
             /\ v.dialog = u.dialog
BY DEF Selected, Uis, MaybeRelease

LEMMA FailedFacts ==
  ASSUME NEW u \in Uis
  PROVE  /\ UpdateFailed(u) \in Uis /\ Alike(UpdateFailed(u), u)
         /\ InstallerStarted(u) \in Uis /\ Alike(InstallerStarted(u), u)
<1>1. ASSUME NEW d \in Dialogs, NEW b \in BOOLEAN
      PROVE  LET e == [d EXCEPT !.downloading = FALSE, !.starting = b]
             IN  /\ e \in Dialogs /\ e.open = d.open /\ e.catalogue = d.catalogue
                 /\ e.versions = d.versions /\ e.shown = d.shown
  BY DEF Dialogs
<1>2. UpdateFailed(u) \in Uis /\ Alike(UpdateFailed(u), u)
  BY <1>1 DEF UpdateFailed, Uis, Alike, Look, Dialogs
<1>3. InstallerStarted(u) \in Uis /\ Alike(InstallerStarted(u), u)
  BY <1>1 DEF InstallerStarted, Uis, Alike, Look, Dialogs
<1>. QED
  BY <1>2, <1>3

LEMMA OfferFacts ==
  ASSUME NEW u \in Uis, NEW catalogue \in BOOLEAN
  PROVE  LET v == Offer(u, catalogue)
         IN  /\ v \in Uis /\ v.purpose = u.purpose /\ v.downloading = u.downloading
             /\ v.releases = u.releases /\ v.release = u.release /\ v.path = u.path
             /\ v.step = u.step
             /\ v.dialog.catalogue = catalogue /\ v.dialog.versions = u.releases
             /\ v.dialog.shown = u.release
<1>1. ASSUME NEW b \in BOOLEAN
      PROVE  LET d == [ClosedDialog EXCEPT !.open = TRUE, !.versions = u.releases,
                                           !.catalogue = catalogue, !.shown = u.release,
                                           !.required = b]
             IN  /\ d \in Dialogs /\ d.catalogue = catalogue /\ d.versions = u.releases
                 /\ d.shown = u.release
  BY DEF ClosedDialog, Dialogs, Uis
<1>2. (~catalogue /\ u.release \in Mandatory) \in BOOLEAN
  OBVIOUS
<1> DEFINE d == Shown(u.releases, u.release, catalogue)
<1>3. /\ d \in Dialogs /\ d.catalogue = catalogue /\ d.versions = u.releases
      /\ d.shown = u.release
  BY <1>1, <1>2, Zenon DEF Shown
<1>4. Offer(u, catalogue) = [u EXCEPT !.manage = TRUE, !.dialog = d]
  BY DEF Offer
<1> HIDE DEF d
<1>. QED
  BY <1>3, <1>4 DEF Uis

\* A report is added at the end of what has not been handled.
LEMMA ReportFacts ==
  ASSUME inbox \in Seq(Messages), AtMostOne("check"), AtMostOne("download"),
         NEW m \in Messages, ~Pending(m.event), Report(m)
  PROVE  /\ inbox' \in Seq(Messages) /\ AtMostOne("check")' /\ AtMostOne("download")'
         /\ Pending("check")' => Pending("check") \/ m.event = "check"
         /\ Pending("download")' => Pending("download") \/ m.event = "download"
         /\ \A i \in DOMAIN inbox' : inbox'[i] = m \/ \E j \in DOMAIN inbox : inbox'[i] = inbox[j]
<1>1. inbox' = Append(inbox, m)
  BY DEF Report
<1>2. /\ inbox' \in Seq(Messages) /\ Len(inbox') = Len(inbox) + 1 /\ Len(inbox) \in Nat
      /\ \A i \in 1 .. Len(inbox) : inbox'[i] = inbox[i]
      /\ inbox'[Len(inbox) + 1] = m
  BY <1>1
<1>3. \A i \in DOMAIN inbox' : \/ i \in DOMAIN inbox /\ inbox'[i] = inbox[i]
                               \/ i = Len(inbox) + 1 /\ inbox'[i] = m
  BY <1>2
<1>4. m.event \in {"check", "download"}
  BY DEF Messages
<1>. QED
  BY <1>2, <1>3, <1>4 DEF AtMostOne, Pending

\* The first report is handled: of its kind there is no other.
LEMMA DeliverFacts ==
  ASSUME inbox \in Seq(Messages), AtMostOne("check"), AtMostOne("download"),
         NEW event \in {"check", "download"}, Deliver(event)
  PROVE  /\ Responsive /\ Pending(event) /\ Head(inbox) \in Messages
         /\ 1 \in DOMAIN inbox /\ Head(inbox) = inbox[1] /\ Head(inbox).event = event
         /\ inbox' \in Seq(Messages) /\ AtMostOne("check")' /\ AtMostOne("download")'
         /\ ~Pending(event)'
         /\ Pending("check")' => Pending("check")
         /\ Pending("download")' => Pending("download")
         /\ \A i \in DOMAIN inbox' : \E j \in DOMAIN inbox : inbox'[i] = inbox[j]
<1>1. inbox # <<>> /\ inbox' = Tail(inbox) /\ Head(inbox).event = event /\ Responsive
  BY DEF Deliver
<1>2. /\ 1 \in DOMAIN inbox /\ Head(inbox) = inbox[1] /\ Head(inbox) \in Messages
      /\ inbox' \in Seq(Messages)
  BY <1>1
<1>3. \A i \in DOMAIN inbox' : i + 1 \in DOMAIN inbox /\ inbox'[i] = inbox[i + 1] /\ i + 1 # 1
                               /\ i \in Nat
  BY <1>1, <1>2
<1>4. \A i \in DOMAIN inbox' : inbox'[i].event # event
  BY <1>1, <1>2, <1>3 DEF AtMostOne
<1>5. AtMostOne("check")' /\ AtMostOne("download")'
  BY <1>3 DEF AtMostOne
<1>. QED
  BY <1>1, <1>2, <1>3, <1>4, <1>5 DEF Pending

(***************************************************************************)
(* Frames: what a step leaves alone                                        *)
(***************************************************************************)

SameRun ==
  /\ session' \in Sessions
  /\ session'.up = session.up /\ session'.mac = session.mac
  /\ session'.inplace = session.inplace /\ session'.version = session.version

LEMMA InstallingKept ==
  ASSUME Installing, SameRun, session'.stranded = session.stranded,
         disk'.current = disk.current, disk'.staging = disk.staging,
         disk'.previous = disk.previous,
         ui'.step = ui.step, ui.step # "idle" => ui'.path = ui.path
  PROVE  Installing'
BY DEF Installing, SameRun

LEMMA Spent ==
  ASSUME Typed, Spend \/ UNCHANGED session
  PROVE  SameRun /\ session'.stranded = session.stranded
BY DEF Typed, Spend, SameRun, Sessions

\* The user interface or the disk changes, and nothing of it is what the service, the reports
\* and the choice of the user are about.
LEMMA UiInv ==
  ASSUME IInv, session.up, SameRun, UNCHANGED <<service, inbox, asked>>,
         ui' \in Uis, Alike(ui', [ui EXCEPT !.step = ui'.step]),
         disk' \in Disks, disk'.part = disk.part, Installing'
  PROVE  IInv'
<1>1. /\ ui'.purpose = ui.purpose /\ ui'.downloading = ui.downloading
      /\ ui'.releases = ui.releases /\ ui'.release = ui.release /\ ui'.path = ui.path
      /\ ui'.dialog.open = ui.dialog.open /\ ui'.dialog.catalogue = ui.dialog.catalogue
      /\ ui'.dialog.versions = ui.dialog.versions /\ ui'.dialog.shown = ui.dialog.shown
  BY DEF IInv, Typed, Uis, Alike, Look
<1>2. Typed'
  BY DEF IInv, Typed, SameRun
<1>3. OneReport'
  BY <1>1 DEF IInv, OneReport, AtMostOne, Pending
<1>4. ReportsTrue'
  BY DEF IInv, ReportsTrue, True, SameRun
<1>5. SameRelease'
  BY <1>1 DEF IInv, SameRelease
<1>6. Down'
  BY DEF Down, SameRun
<1>7. OffersNewest'
  BY <1>1 DEF IInv, OffersNewest, SameRun
<1>. QED
  BY <1>2, <1>3, <1>4, <1>5, <1>6, <1>7 DEF IInv

\* The service works; the user interface only hears of it.
LEMMA ServiceInv ==
  ASSUME IInv, UNCHANGED <<session, ui, asked>>, session.up,
         service' \in Services, inbox' \in Seq(Messages), disk' \in Disks,
         disk'.current = disk.current, disk'.staging = disk.staging,
         disk'.previous = disk.previous,
         OneReport', ReportsTrue', SameRelease'
  PROVE  IInv'
<1>1. SameRun
  BY DEF IInv, Typed, SameRun
<1>2. Typed' /\ Installing'
  BY <1>1, InstallingKept DEF IInv, Typed
<1>3. Down' /\ OffersNewest'
  BY DEF IInv, Down, OffersNewest
<1>. QED
  BY <1>2, <1>3 DEF IInv

\* When the service has a task, or the user interface something to handle, the launcher runs.
LEMMA UpFacts ==
  ASSUME IInv
  PROVE  /\ service.task.pc # "done" => session.up
         /\ ui.step # "idle" => session.up
         /\ inbox # <<>> => session.up
BY DEF IInv, Down, FreshService, Idle, FreshUi

Pcs == {"done", "fetch", "clear", "transfer", "move"}

LEMMA TaskFacts ==
  ASSUME NEW s \in Services
  PROVE  /\ \A p \in Pcs :
              LET t == [s EXCEPT !.task.pc = p]
              IN  /\ t \in Services /\ t.task.pc = p /\ t.task.release = s.task.release
                  /\ t.selection = s.selection /\ t.catalogue = s.catalogue
         /\ LET t == [s EXCEPT !.task.left = @ - 1]
            IN  /\ t \in Services /\ t.task.pc = s.task.pc /\ t.task.release = s.task.release
                /\ t.selection = s.selection /\ t.catalogue = s.catalogue
         /\ LET t == CancelTask(s)
            IN  /\ t \in Services /\ t.task.pc = s.task.pc /\ t.task.release = s.task.release
                /\ t.selection = s.selection /\ t.catalogue = s.catalogue
         /\ LET t == [s EXCEPT !.task = Idle]
            IN  /\ t \in Services /\ t.task.pc = "done"
                /\ t.selection = s.selection /\ t.catalogue = s.catalogue
<1>1. Idle \in Tasks /\ Idle.pc = "done"
  BY DEF Idle, Tasks, MaybeRelease
<1>2. \A p \in Pcs :
        LET t == [s EXCEPT !.task.pc = p]
        IN  /\ t \in Services /\ t.task.pc = p /\ t.task.release = s.task.release
            /\ t.selection = s.selection /\ t.catalogue = s.catalogue
  BY DEF Services, Tasks, Pcs
<1>3. LET t == [s EXCEPT !.task.left = @ - 1]
      IN  /\ t \in Services /\ t.task.pc = s.task.pc /\ t.task.release = s.task.release
          /\ t.selection = s.selection /\ t.catalogue = s.catalogue
  <2>1. ASSUME NEW n \in Int
        PROVE  LET t == [s EXCEPT !.task.left = n]
               IN  /\ t \in Services /\ t.task.pc = s.task.pc
                   /\ t.task.release = s.task.release
                   /\ t.selection = s.selection /\ t.catalogue = s.catalogue
    BY DEF Services, Tasks
  <2>2. s.task.left - 1 \in Int
    BY DEF Services, Tasks
  <2>. QED
    BY <2>1, <2>2
<1>4. LET t == CancelTask(s)
      IN  /\ t \in Services /\ t.task.pc = s.task.pc /\ t.task.release = s.task.release
          /\ t.selection = s.selection /\ t.catalogue = s.catalogue
  BY DEF Services, Tasks, CancelTask
<1>5. LET t == [s EXCEPT !.task = Idle]
      IN  /\ t \in Services /\ t.task.pc = "done"
          /\ t.selection = s.selection /\ t.catalogue = s.catalogue
  BY <1>1 DEF Services
<1>. QED
  BY <1>2, <1>3, <1>4, <1>5

LEMMA MessageFacts ==
  /\ \A result \in {"available", "current", "failed"}, c \in Seq(Releases), v \in BOOLEAN :
       LET m == CheckReport(result, c, v)
       IN  m \in Messages /\ m.event = "check" /\ m.result = result /\ m.releases = c
  /\ \A result \in {"completed", "failed", "cancelled"}, f \in MaybeRelease :
       LET m == DownloadReport(result, f)
       IN  m \in Messages /\ m.event = "download" /\ m.result = result /\ m.file = f
BY DEF CheckReport, DownloadReport, Messages, MaybeRelease

(***************************************************************************)
(* The service                                                             *)
(***************************************************************************)

\* A check that is under way is what the user interface waits for.
LEMMA CheckingFacts ==
  ASSUME IInv, ui.purpose # "none"
  PROVE  /\ ui.release = None /\ ui.releases = <<>> /\ ui.path = None /\ ~ui.downloading
         /\ service.task.pc \notin {"transfer", "move"} /\ ~Pending("download")
BY NoneFacts DEF IInv, SameRelease, OneReport

LEMMA DownloadingFacts ==
  ASSUME IInv, ui.downloading
  PROVE  /\ ui.purpose = "none" /\ ~Pending("check") /\ service.task.pc # "fetch"
         /\ ui.release = asked /\ asked \in Releases
BY NoneFacts DEF IInv, Typed, SameRelease, OneReport, MaybeRelease

LEMMA CheckEndpointInv ==
  ASSUME IInv, CheckEndpoint
  PROVE  IInv'
<1>1. /\ service \in Services /\ inbox \in Seq(Messages) /\ disk \in Disks
      /\ service.task.pc = "fetch" /\ ui.purpose # "none" /\ ~Pending("check")
      /\ UNCHANGED <<session, ui, disk, asked>>
      /\ AtMostOne("check") /\ AtMostOne("download")
      /\ service.catalogue \in Seq(Releases) /\ service.selection \in MaybeRelease
  BY DEF CheckEndpoint, IInv, Typed, OneReport, Services
<1>2. session.up
  BY <1>1, UpFacts
<1>3. /\ ui.release = None /\ ui.releases = <<>> /\ ui.path = None /\ ~ui.downloading
      /\ ~Pending("download")
  BY <1>1, CheckingFacts
<1> DEFINE done == [service EXCEPT !.task.pc = "clear"]
<1>4. done \in Services /\ done.task.pc = "clear"
  BY <1>1, TaskFacts DEF Pcs
<1>5. ASSUME NEW m \in Messages, m.event = "check", True(m), Report(m),
             service' \in Services, service'.task.pc = "clear"
      PROVE  IInv'
  <2>1. /\ inbox' \in Seq(Messages) /\ AtMostOne("check")' /\ AtMostOne("download")'
        /\ ~Pending("download")'
        /\ \A i \in DOMAIN inbox' : inbox'[i] = m \/ \E j \in DOMAIN inbox : inbox'[i] = inbox[j]
    BY <1>1, <1>3, <1>5, ReportFacts
  <2>2. ReportsTrue'
    BY <1>1, <1>5, <2>1 DEF IInv, ReportsTrue, True
  <2>3. OneReport' /\ SameRelease'
    BY <1>1, <1>3, <1>5, <2>1 DEF OneReport, SameRelease
  <2>. QED
    BY <1>1, <1>2, <1>5, <2>1, <2>2, <2>3, ServiceInv
<1>6. ASSUME NEW d \in Documents, NEW listed \in LoadCatalogue(d), listed # <<>>,
             LET newer == Newer(listed[1], session.version)
             IN /\ service' = [done EXCEPT !.catalogue = listed,
                                           !.selection = IF newer THEN listed[1] ELSE @]
                /\ Report(CheckReport(IF newer THEN "available" ELSE "current", listed, d.strict))
      PROVE  IInv'
  <2>1. listed \in Seq(Releases) /\ 1 \in DOMAIN listed /\ Headed(listed)
    BY <1>6, CatalogueFacts
  <2>2. d.strict \in BOOLEAN /\ listed[1] \in MaybeRelease
    BY <2>1 DEF Documents, MaybeRelease
  <2> DEFINE result == IF Newer(listed[1], session.version) THEN "available" ELSE "current"
             selected == IF Newer(listed[1], session.version) THEN listed[1] ELSE done.selection
             m == CheckReport(result, listed, d.strict)
  <2>3. /\ m \in Messages /\ m.event = "check" /\ m.result = result /\ m.releases = listed
    BY <2>1, <2>2, MessageFacts
  <2>4. True(m)
    BY <2>1, <2>3 DEF True
  <2>5. service' = [done EXCEPT !.catalogue = listed, !.selection = selected] /\ Report(m)
    BY <1>6
  <2>6. selected \in MaybeRelease
    BY <1>4, <2>2 DEF Services
  <2>7. service' \in Services /\ service'.task.pc = "clear"
    <3> HIDE DEF done, selected
    <3>1. LET t == [done EXCEPT !.catalogue = listed, !.selection = selected]
          IN  t \in Services /\ t.task = done.task
      BY <1>4, <2>1, <2>6 DEF Services
    <3>. QED
      BY <1>4, <2>5, <3>1
  <2> HIDE DEF m
  <2>. QED
    BY <1>5, <2>3, <2>4, <2>5, <2>7
<1>7. CASE service' = [service EXCEPT !.task.left = @ - 1] /\ UNCHANGED inbox
  <2>1. service' \in Services /\ service'.task.pc = "fetch"
    BY <1>1, <1>7, TaskFacts
  <2>2. OneReport' /\ ReportsTrue' /\ SameRelease'
    BY <1>1, <1>3, <1>7, <2>1
       DEF IInv, OneReport, AtMostOne, Pending, ReportsTrue, True, SameRelease
  <2>. QED
    BY <1>1, <1>2, <1>7, <2>1, <2>2, ServiceInv
<1>8. CASE service' = done /\ Report(CheckReport("failed", service.catalogue, TRUE))
  <2> DEFINE m == CheckReport("failed", service.catalogue, TRUE)
  <2>1. m \in Messages /\ m.event = "check" /\ m.result = "failed"
    BY <1>1 DEF CheckReport, Messages, MaybeRelease
  <2>2. True(m)
    BY <2>1 DEF True
  <2>3. Report(m)
    BY <1>8
  <2> HIDE DEF m
  <2>. QED
    BY <1>4, <1>5, <1>8, <2>1, <2>2, <2>3
<1>. QED
  BY <1>6, <1>7, <1>8 DEF CheckEndpoint

LEMMA ClearTaskInv ==
  ASSUME IInv, ClearTask
  PROVE  IInv'
<1>1. /\ service \in Services /\ service' = [service EXCEPT !.task = Idle] /\ session.up
      /\ UNCHANGED <<session, inbox, ui, disk, asked>>
      /\ inbox \in Seq(Messages) /\ disk \in Disks
  BY UpFacts DEF ClearTask, IInv, Typed
<1>2. service' \in Services /\ service'.task.pc = "done" /\ service'.selection = service.selection
  BY <1>1, TaskFacts
<1>3. OneReport' /\ ReportsTrue' /\ SameRelease'
  BY <1>1, <1>2 DEF IInv, OneReport, AtMostOne, Pending, ReportsTrue, True, SameRelease
<1>. QED
  BY <1>1, <1>2, <1>3, ServiceInv

\* A download comes to its end with one report.
LEMMA DownloadEnds ==
  ASSUME IInv, service.task.pc \in {"transfer", "move"}, NEW m \in Messages,
         m.event = "download", m.result = "completed" => m.file = asked, Report(m),
         service' = [service EXCEPT !.task.pc = "clear"],
         UNCHANGED <<session, ui, asked>>, disk' \in Disks,
         disk'.current = disk.current, disk'.staging = disk.staging,
         disk'.previous = disk.previous
  PROVE  IInv'
<1>1. /\ service \in Services /\ inbox \in Seq(Messages) /\ session.up /\ ui.downloading
      /\ ~Pending("download")
      /\ AtMostOne("check") /\ AtMostOne("download")
  BY UpFacts DEF IInv, Typed, OneReport
<1>2. /\ ui.purpose = "none" /\ ~Pending("check") /\ asked \in Releases
  BY <1>1, DownloadingFacts
<1>3. service' \in Services /\ service'.task.pc = "clear" /\ service'.selection = service.selection
  BY <1>1, TaskFacts DEF Pcs
<1>4. /\ inbox' \in Seq(Messages) /\ AtMostOne("check")' /\ AtMostOne("download")'
      /\ ~Pending("check")'
      /\ \A i \in DOMAIN inbox' : inbox'[i] = m \/ \E j \in DOMAIN inbox : inbox'[i] = inbox[j]
  BY <1>1, <1>2, ReportFacts
<1>5. ReportsTrue'
  BY <1>2, <1>4, NoneFacts DEF IInv, ReportsTrue, True
<1>6. OneReport' /\ SameRelease'
  BY <1>1, <1>2, <1>3, <1>4 DEF IInv, OneReport, SameRelease
<1>. QED
  BY <1>1, <1>3, <1>4, <1>5, <1>6, ServiceInv

LEMMA DiskFacts ==
  ASSUME NEW d \in Disks
  PROVE  /\ \A p \in MaybeRelease \cup {Partial, Garbage} :
              LET e == [d EXCEPT !.part = p]
              IN  /\ e \in Disks /\ e.part = p /\ e.current = d.current
                  /\ e.staging = d.staging /\ e.previous = d.previous
         /\ \A f \in MaybeRelease :
              LET e == [d EXCEPT !.final = f, !.part = None]
              IN  /\ e \in Disks /\ e.current = d.current
                  /\ e.staging = d.staging /\ e.previous = d.previous
BY DEF Disks, MaybeRelease

LEMMA TransferInv ==
  ASSUME IInv, TransferPackage
  PROVE  IInv'
<1>1. /\ service \in Services /\ inbox \in Seq(Messages) /\ disk \in Disks
      /\ service.task.pc = "transfer" /\ session.up /\ UNCHANGED <<session, ui, asked>>
  BY UpFacts DEF TransferPackage, IInv, Typed
<1>2. /\ ui.downloading /\ service.task.release = asked /\ asked \in Releases
  BY <1>1, DownloadingFacts DEF IInv, OneReport, SameRelease
<1>3. CASE /\ service' = [service EXCEPT !.task.pc = "clear"]
           /\ disk' = [disk EXCEPT !.part = None]
           /\ \E result \in {"cancelled", "failed"} : Report(DownloadReport(result, None))
  <2>1. PICK result \in {"cancelled", "failed"} : Report(DownloadReport(result, None))
    BY <1>3
  <2> DEFINE m == DownloadReport(result, None)
  <2>2. m \in Messages /\ m.event = "download" /\ m.result # "completed"
    BY MessageFacts DEF MaybeRelease
  <2>3. Report(m)
    BY <2>1
  <2> HIDE DEF m
  <2>4. /\ disk' \in Disks /\ disk'.current = disk.current /\ disk'.staging = disk.staging
        /\ disk'.previous = disk.previous
    BY <1>1, <1>3, DiskFacts DEF MaybeRelease
  <2>. QED
    BY <1>1, <1>3, <2>2, <2>3, <2>4, DownloadEnds
<1>4. ASSUME NEW content \in {asked, Partial, Garbage},
             disk' = [disk EXCEPT !.part = content], UNCHANGED inbox,
             \/ /\ Accepts(asked, content)
                /\ service' = [service EXCEPT !.task.pc = "move"]
             \/ service' = [service EXCEPT !.task.left = @ - 1]
      PROVE  IInv'
  <2>1. /\ service' \in Services /\ service'.selection = service.selection
        /\ service'.task.release = service.task.release
        /\ service'.task.pc \in {"transfer", "move"}
        /\ service'.task.pc = "move" => content = asked
    <3>1. CASE service' = [service EXCEPT !.task.pc = "move"] /\ Accepts(asked, content)
      BY <1>1, <3>1, TaskFacts DEF Pcs, Accepts
    <3>2. CASE service' = [service EXCEPT !.task.left = @ - 1]
      BY <1>1, <3>2, TaskFacts
    <3>. QED
      BY <1>4, <3>1, <3>2
  <2>2. /\ disk' \in Disks /\ disk'.current = disk.current /\ disk'.staging = disk.staging
        /\ disk'.previous = disk.previous /\ disk'.part = content
    BY <1>1, <1>2, <1>4, DiskFacts DEF MaybeRelease
  <2>3. OneReport' /\ ReportsTrue' /\ SameRelease'
    BY <1>1, <1>2, <1>4, <2>1, <2>2
       DEF IInv, OneReport, AtMostOne, Pending, ReportsTrue, True, SameRelease
  <2>. QED
    BY <1>1, <1>4, <2>1, <2>2, <2>3, ServiceInv
<1>. QED
  BY <1>2, <1>3, <1>4 DEF TransferPackage

LEMMA FinalizeInv ==
  ASSUME IInv, FinalizePackage
  PROVE  IInv'
<1>1. /\ disk \in Disks /\ service.task.pc = "move" /\ session.up
      /\ service' = [service EXCEPT !.task.pc = "clear"]
      /\ UNCHANGED <<session, ui, asked>>
  BY UpFacts DEF FinalizePackage, IInv, Typed
<1>2. asked \in Releases /\ disk.part = asked
  BY <1>1, DownloadingFacts DEF IInv, OneReport, SameRelease
<1>3. ASSUME NEW result \in {"completed", "failed"}, NEW file \in MaybeRelease,
             result = "completed" => file = asked,
             disk' = [disk EXCEPT !.final = file, !.part = None],
             Report(DownloadReport(result, file))
      PROVE  IInv'
  <2> DEFINE m == DownloadReport(result, file)
  <2>1. m \in Messages /\ m.event = "download" /\ m.result = result /\ m.file = file
    BY MessageFacts
  <2>2. Report(m)
    BY <1>3
  <2> HIDE DEF m
  <2>3. /\ disk' \in Disks /\ disk'.current = disk.current /\ disk'.staging = disk.staging
        /\ disk'.previous = disk.previous
    BY <1>1, <1>3, DiskFacts
  <2>. QED
    BY <1>1, <1>3, <2>1, <2>2, <2>3, DownloadEnds
<1>4. asked \in MaybeRelease /\ None \in MaybeRelease
  BY <1>2 DEF MaybeRelease
<1>. QED
  BY <1>2, <1>3, <1>4 DEF FinalizePackage

(***************************************************************************)
(* The user interface                                                      *)
(***************************************************************************)

\* Nothing is asked of the service: what changes is how the window looks, and a release that
\* was selected may be forgotten.
LEMMA QuietInv ==
  ASSUME IInv, Responsive, ui' \in Uis, Spend \/ UNCHANGED session,
         ui'.purpose = ui.purpose, ui'.downloading = ui.downloading, ui'.step = ui.step,
         ui'.dialog = ui.dialog,
         \/ ui'.releases = ui.releases /\ ui'.release = ui.release /\ ui'.path = ui.path
         \/ /\ ~ui.downloading /\ ui'.releases = ui.releases
            /\ ui'.release = None /\ ui'.path = None,
         UNCHANGED <<service, inbox, disk, asked>>
  PROVE  IInv'
<1>1. SameRun /\ session'.stranded = session.stranded /\ session.up /\ ui.step = "idle"
  BY Spent DEF IInv, Responsive
<1>2. Typed' /\ Installing'
  BY <1>1, InstallingKept DEF IInv, Typed, SameRun
<1>3. OneReport' /\ ReportsTrue' /\ SameRelease'
  BY <1>1 DEF IInv, OneReport, AtMostOne, Pending, ReportsTrue, True, SameRelease, SameRun
<1>4. Down' /\ OffersNewest'
  BY <1>1 DEF IInv, Down, OffersNewest, SameRun
<1>. QED
  BY <1>2, <1>3, <1>4 DEF IInv

\* soa_launcher_updater_check()
LEMMA StartCheckInv ==
  ASSUME IInv, Responsive, Spend, NEW u \in Uis, Alike(u, ui), u.purpose = "none",
         ~u.downloading, NEW purpose \in {"startup", "manual"}, StartCheck(u, purpose),
         UNCHANGED <<disk, asked>>
  PROVE  IInv'
<1>1. /\ SameRun /\ session'.stranded = session.stranded /\ session.up /\ ui.step = "idle"
      /\ session' \in Sessions /\ service \in Services /\ inbox \in Seq(Messages)
      /\ disk \in Disks /\ asked \in MaybeRelease
      /\ AtMostOne("check") /\ AtMostOne("download")
      /\ ui.purpose = "none" /\ ~ui.downloading
  BY Spent DEF IInv, Typed, Responsive, SameRun, Alike, OneReport
<1>2. /\ ~Pending("check") /\ ~Pending("download")
      /\ service.task.pc \notin {"fetch", "transfer", "move"}
  BY <1>1 DEF IInv, OneReport
<1> DEFINE v == [u EXCEPT !.purpose = purpose, !.manage = FALSE]
<1>3. /\ v \in Uis /\ v.purpose = purpose /\ ~v.downloading /\ v.step = u.step
      /\ v.dialog = u.dialog
  BY DEF Uis
<1>4. ui' = Forgotten(v)
  BY DEF StartCheck
<1>5. /\ ui' \in Uis /\ ui'.releases = <<>> /\ ui'.release = None /\ ui'.path = None
      /\ ui'.purpose = purpose /\ ~ui'.downloading /\ ui'.step = ui.step /\ ui'.step = "idle"
      /\ Look(ui'.dialog, ui.dialog)
  <2> HIDE DEF v
  <2>. QED
    BY <1>1, <1>3, <1>4, ForgottenFacts DEF Alike, Look
<1>6. Installing' /\ OffersNewest'
  BY <1>1, <1>5, InstallingKept DEF IInv, OffersNewest, SameRun, Look
<1>7. CASE /\ service' = [FreshService EXCEPT !.task = CheckTask]
           /\ UNCHANGED inbox
  <2>1. service' \in Services /\ service'.task.pc = "fetch"
    <3>1. Endpoints \in Int /\ None \in MaybeRelease /\ <<>> \in Seq(Releases)
      BY BoundsAssumption DEF MaybeRelease
    <3>2. CheckTask \in Tasks /\ CheckTask.pc = "fetch"
      BY <3>1 DEF CheckTask, Idle, Tasks
    <3>3. service' = [task |-> CheckTask, selection |-> None, catalogue |-> <<>>]
      BY <1>7 DEF FreshService
    <3>. QED
      BY <3>1, <3>2, <3>3 DEF Services
  <2>2. Typed'
    BY <1>1, <1>5, <1>7, <2>1 DEF IInv, Typed
  <2>3. OneReport'
    BY <1>2, <1>5, <1>7, <2>1 DEF IInv, OneReport, AtMostOne, Pending
  <2>4. ReportsTrue'
    BY <1>1, <1>7 DEF IInv, ReportsTrue, True, SameRun
  <2>5. SameRelease' /\ Down'
    BY <1>1, <1>5, <2>1 DEF SameRelease, Down, SameRun
  <2>. QED
    BY <1>6, <2>2, <2>3, <2>4, <2>5 DEF IInv
<1>8. CASE Report(CheckReport("failed", service.catalogue, TRUE)) /\ UNCHANGED service
  <2> DEFINE m == CheckReport("failed", service.catalogue, TRUE)
  <2>1. m \in Messages /\ m.event = "check" /\ m.result = "failed"
    BY <1>1 DEF CheckReport, Messages, MaybeRelease, Services
  <2>2. Report(m)
    BY <1>8
  <2> HIDE DEF m
  <2>3. /\ inbox' \in Seq(Messages) /\ AtMostOne("check")' /\ AtMostOne("download")'
        /\ ~Pending("download")'
        /\ \A i \in DOMAIN inbox' : inbox'[i] = m \/ \E j \in DOMAIN inbox : inbox'[i] = inbox[j]
    BY <1>1, <1>2, <2>1, <2>2, ReportFacts
  <2>4. Typed'
    BY <1>1, <1>5, <1>8, <2>3 DEF IInv, Typed
  <2>5. OneReport'
    BY <1>2, <1>5, <1>8, <2>3 DEF OneReport
  <2>6. ReportsTrue'
    BY <1>1, <2>1, <2>3 DEF IInv, ReportsTrue, True, SameRun
  <2>7. SameRelease' /\ Down'
    BY <1>1, <1>2, <1>5, <1>8 DEF SameRelease, Down, SameRun
  <2>. QED
    BY <1>6, <2>4, <2>5, <2>6, <2>7 DEF IInv
<1>. QED
  BY <1>7, <1>8 DEF StartCheck

LEMMA PlayInv ==
  ASSUME IInv, Play
  PROVE  IInv'
<1>1. ui \in Uis /\ Responsive /\ Spend /\ UNCHANGED <<disk, asked>>
  BY DEF Play, IInv, Typed
<1>2. CASE ui' = [ui EXCEPT !.launch = "handed"] /\ UNCHANGED <<service, inbox>>
  <2>1. /\ ui' \in Uis /\ ui'.purpose = ui.purpose /\ ui'.downloading = ui.downloading
        /\ ui'.step = ui.step /\ ui'.dialog = ui.dialog /\ ui'.releases = ui.releases
        /\ ui'.release = ui.release /\ ui'.path = ui.path
    BY <1>1, <1>2 DEF Uis
  <2>. QED
    BY <1>1, <1>2, <2>1, QuietInv
<1>3. CASE CheckForUpdates([ui EXCEPT !.launch = "waiting"])
  <2> DEFINE u == [ui EXCEPT !.launch = "waiting"]
  <2>1. /\ u \in Uis /\ u.purpose = ui.purpose /\ u.downloading = ui.downloading
        /\ u.step = ui.step /\ u.dialog = ui.dialog /\ u.releases = ui.releases
        /\ u.release = ui.release /\ u.path = ui.path
    BY <1>1 DEF Uis
  <2>2. CheckForUpdates(u)
    BY <1>3
  <2> HIDE DEF u
  <2>3. CASE u.downloading \/ u.purpose # "none"
    <3>1. ui' = u /\ UNCHANGED <<service, inbox>>
      BY <2>2, <2>3 DEF CheckForUpdates
    <3>. QED
      BY <1>1, <2>1, <3>1, QuietInv
  <2>4. CASE ~(u.downloading \/ u.purpose # "none") /\ ~session.configured
    <3>1. ui' = NothingFound(ResetRelease(u)) /\ UNCHANGED <<service, inbox>>
      BY <2>2, <2>4 DEF CheckForUpdates
    <3> DEFINE w == ResetRelease(u)
    <3>2. /\ w \in Uis /\ w.releases = u.releases /\ w.release = None /\ w.path = None
          /\ w.purpose = u.purpose /\ w.downloading = u.downloading /\ w.step = u.step
          /\ w.dialog = u.dialog
      BY <2>1, ForgottenFacts
    <3> HIDE DEF w
    <3>3. NothingFound(w) \in Uis /\ Same(NothingFound(w), w)
      BY <3>2, NothingFoundSame
    <3>4. ui' = NothingFound(w)
      BY <3>1 DEF w
    <3>. QED
      BY <1>1, <2>1, <2>4, <3>1, <3>2, <3>3, <3>4, QuietInv DEF Same
  <2>5. CASE ~(u.downloading \/ u.purpose # "none") /\ session.configured
    <3>1. StartCheck(u, "startup")
      BY <2>2, <2>5 DEF CheckForUpdates
    <3>2. Alike(u, ui)
      BY <2>1 DEF Alike, Look
    <3>. QED
      BY <1>1, <2>1, <2>5, <3>1, <3>2, StartCheckInv
  <2>. QED
    BY <2>3, <2>4, <2>5
<1>. QED
  BY <1>2, <1>3 DEF Play

LEMMA ManageInv ==
  ASSUME IInv, ManageVersions
  PROVE  IInv'
<1>1. ui \in Uis /\ Responsive /\ Spend /\ UNCHANGED <<disk, asked>>
  BY DEF ManageVersions, IInv, Typed
<1>2. CASE ui' = ManualFailed(ui) /\ UNCHANGED <<service, inbox>>
  <2>1. ui' \in Uis /\ Same(ui', ui)
    BY <1>1, <1>2, NothingFoundSame
  <2>. QED
    BY <1>1, <1>2, <2>1, QuietInv DEF Same
<1>3. CASE ~ui.downloading /\ ui.purpose = "none" /\ StartCheck(ui, "manual")
  BY <1>1, <1>3, StartCheckInv DEF Alike, Look
<1>. QED
  BY <1>2, <1>3 DEF ManageVersions

\* handle_check(), with what the manager does not accept, or has nothing to offer from.
LEMMA CheckForgotten ==
  ASSUME IInv, Deliver("check"), UNCHANGED <<session, service, disk, asked>>,
         ui' \in Uis, ui'.purpose = "none", ui'.release = None, ui'.path = None,
         ui'.downloading = ui.downloading, ui'.step = ui.step, ui'.dialog = ui.dialog
  PROVE  IInv'
<1>1. /\ Responsive /\ Pending("check") /\ inbox' \in Seq(Messages)
      /\ AtMostOne("check")' /\ AtMostOne("download")' /\ ~Pending("check")'
      /\ Pending("download")' => Pending("download")
      /\ \A i \in DOMAIN inbox' : \E j \in DOMAIN inbox : inbox'[i] = inbox[j]
  BY DeliverFacts DEF IInv, Typed, OneReport
<1>2. /\ ui.purpose # "none" /\ service.task.pc # "fetch"
  BY <1>1 DEF IInv, OneReport
<1>3. /\ ~ui.downloading /\ service.task.pc \notin {"transfer", "move"} /\ ~Pending("download")
  BY <1>2, CheckingFacts
<1>4. Typed' /\ Down'
  BY <1>1 DEF IInv, Typed, Down, Responsive
<1>5. OneReport' /\ SameRelease'
  BY <1>1, <1>2, <1>3 DEF OneReport, SameRelease
<1>6. ReportsTrue'
  BY <1>1 DEF IInv, ReportsTrue, True
<1>7. Installing' /\ OffersNewest'
  BY <1>1, InstallingKept DEF IInv, Typed, SameRun, OffersNewest, Responsive
<1>. QED
  BY <1>4, <1>5, <1>6, <1>7 DEF IInv

LEMMA HandleCheckInv ==
  ASSUME IInv, HandleCheck
  PROVE  IInv'
<1> DEFINE m == inbox[1]
           manual == ui.purpose = "manual"
           u == [ui EXCEPT !.purpose = "none"]
           listed == ResetRelease([u EXCEPT !.releases = m.releases])
<1>1. /\ Deliver("check") /\ UNCHANGED <<session, disk, asked>> /\ ui \in Uis
      /\ inbox \in Seq(Messages) /\ AtMostOne("check") /\ AtMostOne("download")
  BY DEF HandleCheck, IInv, Typed, OneReport
<1>2. /\ Responsive /\ Pending("check") /\ Head(inbox) = m /\ 1 \in DOMAIN inbox
      /\ m \in Messages /\ m.event = "check" /\ inbox' \in Seq(Messages)
      /\ AtMostOne("check")' /\ AtMostOne("download")' /\ ~Pending("check")'
      /\ Pending("download")' => Pending("download")
      /\ \A i \in DOMAIN inbox' : \E j \in DOMAIN inbox : inbox'[i] = inbox[j]
  <2>1. Head(inbox) = m /\ 1 \in DOMAIN inbox
    BY <1>1, DeliverFacts
  <2>. QED
    BY <1>1, <2>1, DeliverFacts
<1>3. /\ u \in Uis /\ u.purpose = "none" /\ u.downloading = ui.downloading /\ u.step = ui.step
      /\ u.dialog = ui.dialog
  BY <1>1 DEF Uis
<1> DEFINE x == [u EXCEPT !.releases = m.releases]
<1>4. /\ x \in Uis /\ x.purpose = "none" /\ x.downloading = ui.downloading /\ x.step = ui.step
      /\ x.dialog = ui.dialog /\ x.releases = m.releases
  <2>1. m.releases \in Seq(Releases)
    BY <1>2 DEF Messages
  <2> HIDE DEF u, m
  <2>. QED
    BY <1>3, <2>1 DEF Uis
<1>5. /\ listed \in Uis /\ listed.releases = m.releases /\ listed.release = None
      /\ listed.path = None /\ listed.purpose = "none" /\ listed.downloading = ui.downloading
      /\ listed.step = ui.step /\ listed.dialog = ui.dialog
  <2>1. listed = ResetRelease(x)
    OBVIOUS
  <2> HIDE DEF x, listed
  <2>. QED
    BY <1>4, <2>1, ForgottenFacts
<1> DEFINE f == Forgotten(u)
<1>6. /\ f \in Uis /\ f.release = None /\ f.path = None /\ f.purpose = "none"
      /\ f.downloading = ui.downloading /\ f.step = ui.step /\ f.dialog = ui.dialog
  <2> HIDE DEF u
  <2>. QED
    BY <1>3, ForgottenFacts
<1>7. \/ ui' \in {ManualFailed(f), NothingFound(f), NothingFound(listed)} /\ UNCHANGED service
      \/ /\ manual \/ m.result = "available"
         /\ Selectable(listed, m.releases[1])
         /\ ui' = Offer(Selected(listed, m.releases[1]), manual)
         /\ service' = [service EXCEPT !.selection = m.releases[1]]
  <2>1. Head(inbox) = m
    BY <1>2
  <2>2. Readable(m) => m.result \in {"available", "current"}
    BY <1>2 DEF Readable, Messages
  <2> HIDE DEF m
  <2>3. CASE ~Readable(m)
    BY <2>1, <2>3 DEF HandleCheck
  <2>4. CASE Readable(m) /\ ~manual /\ m.result = "current"
    BY <2>1, <2>4 DEF HandleCheck
  <2>5. CASE Readable(m) /\ (manual \/ m.result = "available")
    BY <2>1, <2>5 DEF HandleCheck
  <2>. QED
    BY <2>2, <2>3, <2>4, <2>5
<1> HIDE DEF x, u, f, listed, m
<1>8. CASE ui' \in {ManualFailed(f), NothingFound(f), NothingFound(listed)} /\ UNCHANGED service
  <2>1. /\ ui' \in Uis /\ ui'.purpose = "none" /\ ui'.release = None /\ ui'.path = None
        /\ ui'.downloading = ui.downloading /\ ui'.step = ui.step /\ ui'.dialog = ui.dialog
    BY <1>5, <1>6, <1>8, NothingFoundSame DEF Same
  <2>. QED
    BY <1>1, <1>8, <2>1, CheckForgotten
<1>9. CASE /\ manual \/ m.result = "available"
           /\ Selectable(listed, m.releases[1])
           /\ ui' = Offer(Selected(listed, m.releases[1]), manual)
           /\ service' = [service EXCEPT !.selection = m.releases[1]]
  <2> DEFINE r == m.releases[1]
  <2>1. r \in Releases
    BY <1>5, <1>9 DEF Selectable, ToSet, Uis
  <2> DEFINE s == Selected(listed, r)
  <2>2. /\ s \in Uis /\ s.releases = m.releases /\ s.release = r /\ s.path = None
        /\ s.purpose = "none" /\ s.downloading = ui.downloading /\ s.step = ui.step
    <3> HIDE DEF r
    <3>. QED
      BY <1>5, <2>1, SelectedFacts
  <2>3. manual \in BOOLEAN /\ ui' = Offer(s, manual)
    BY <1>9
  <2>4. /\ ui' \in Uis /\ ui'.purpose = "none" /\ ui'.downloading = ui.downloading
        /\ ui'.release = r /\ ui'.path = None /\ ui'.step = ui.step
        /\ (ui'.dialog.catalogue <=> manual) /\ ui'.dialog.versions = m.releases
        /\ ui'.dialog.shown = r
    <3> HIDE DEF s, r, manual
    <3>. QED
      BY <2>2, <2>3, OfferFacts
  <2>5. /\ ui.purpose # "none" /\ service.task.pc # "fetch"
    BY <1>2 DEF IInv, OneReport
  <2>6. /\ ~ui.downloading /\ service.task.pc \notin {"transfer", "move"} /\ ~Pending("download")
    BY <2>5, CheckingFacts
  <2>7. /\ service' \in Services /\ service'.task = service.task /\ service'.selection = r
    <3> HIDE DEF r
    <3>1. service' = [service EXCEPT !.selection = r]
      BY <1>9 DEF r
    <3>. QED
      BY <2>1, <3>1 DEF IInv, Typed, Services, MaybeRelease
  <2>8. Typed' /\ Down'
    BY <1>1, <1>2, <2>4, <2>7 DEF IInv, Typed, Down, Responsive
  <2>9. OneReport'
    BY <1>2, <2>5, <2>6, <2>7 DEF OneReport
  <2>10. SameRelease'
    BY <2>4, <2>5, <2>6, <2>7 DEF SameRelease
  <2>11. ReportsTrue'
    BY <1>1, <1>2 DEF IInv, ReportsTrue, True
  <2>12. Installing'
    BY <1>1, <1>2, <2>4, InstallingKept DEF IInv, Typed, SameRun, Responsive
  <2>13. OffersNewest'
    <3>1. CASE manual
      BY <2>4, <3>1 DEF OffersNewest
    <3>2. CASE ~manual
      <4>1. Headed(m.releases) /\ Newer(r, session.version)
        BY <1>2, <1>9, <3>2 DEF IInv, ReportsTrue, True, m
      <4>. QED
        BY <1>1, <2>4, <4>1 DEF OffersNewest, Headed, ToSet
    <3>. QED
      BY <3>1, <3>2
  <2>. QED
    BY <2>8, <2>9, <2>10, <2>11, <2>12, <2>13 DEF IInv
<1>. QED
  BY <1>7, <1>8, <1>9

LEMMA PickInv ==
  ASSUME IInv, NEW r \in Releases, PickVersion(r)
  PROVE  IInv'
<1> DEFINE u == [ui EXCEPT !.dialog.shown = r]
<1>1. /\ ui \in Uis /\ ui.dialog.catalogue /\ Responsive /\ session.up /\ ui.step = "idle"
      /\ UNCHANGED <<session, inbox, disk, asked>> /\ disk \in Disks /\ SameRun
  BY DEF PickVersion, Responsive, IInv, Typed, SameRun
<1>2. /\ u \in Uis /\ u.purpose = ui.purpose /\ u.downloading = ui.downloading
      /\ u.releases = ui.releases /\ u.release = ui.release /\ u.path = ui.path
      /\ u.step = ui.step /\ u.dialog.catalogue = ui.dialog.catalogue
  BY <1>1 DEF Uis, Dialogs, MaybeRelease
<1>3. \/ ~Selectable(ui, r) /\ ui' = u /\ UNCHANGED service
      \/ /\ Selectable(ui, r)
         /\ ui' = Selected(u, r)
         /\ service' = [service EXCEPT !.selection = r]
  BY DEF PickVersion
<1> HIDE DEF u
<1>4. CASE ui' = u /\ UNCHANGED service
  <2>1. Typed' /\ Installing' /\ Down' /\ OffersNewest'
    BY <1>1, <1>2, <1>4, InstallingKept DEF IInv, Typed, Down, OffersNewest
  <2>2. OneReport' /\ ReportsTrue' /\ SameRelease'
    BY <1>1, <1>2, <1>4 DEF IInv, OneReport, AtMostOne, Pending, ReportsTrue, True, SameRelease
  <2>. QED
    BY <2>1, <2>2 DEF IInv
<1>5. CASE Selectable(ui, r) /\ ui' = Selected(u, r) /\ service' = [service EXCEPT !.selection = r]
  <2>1. /\ ui' \in Uis /\ ui'.releases = ui.releases /\ ui'.release = r /\ ui'.path = None
        /\ ui'.purpose = ui.purpose /\ ui'.downloading = ui.downloading /\ ui'.step = ui.step
        /\ ui'.dialog.catalogue
    BY <1>1, <1>2, <1>5, SelectedFacts
  <2>2. ~ui.downloading /\ ui.purpose = "none"
    <3>1. r \in ToSet(ui.releases) /\ ~ui.downloading
      BY <1>5 DEF Selectable
    <3>2. ui.releases # <<>>
      BY <3>1 DEF ToSet
    <3>. QED
      BY <3>1, <3>2 DEF IInv, SameRelease
  <2>3. /\ service.task.pc \notin {"fetch", "transfer", "move"}
        /\ ~Pending("check") /\ ~Pending("download")
    BY <2>2 DEF IInv, OneReport
  <2>4. /\ service' \in Services /\ service'.task = service.task /\ service'.selection = r
    BY <1>5 DEF IInv, Typed, Services, MaybeRelease
  <2>5. Typed' /\ Installing' /\ Down' /\ OffersNewest'
    BY <1>1, <2>1, <2>4, InstallingKept DEF IInv, Typed, Down, OffersNewest
  <2>6. OneReport' /\ ReportsTrue' /\ SameRelease'
    BY <1>1, <2>1, <2>2, <2>3, <2>4
       DEF IInv, OneReport, AtMostOne, Pending, ReportsTrue, True, SameRelease
  <2>. QED
    BY <2>5, <2>6 DEF IInv
<1>. QED
  BY <1>3, <1>4, <1>5

\* download_and_install()
LEMMA RequestInv ==
  ASSUME IInv, RequestUpdate
  PROVE  IInv'
<1>1. /\ ui \in Uis /\ Responsive /\ session.up /\ ui.step = "idle" /\ Spend /\ UNCHANGED disk
      /\ disk \in Disks /\ service \in Services /\ inbox \in Seq(Messages)
      /\ ~ui.downloading /\ ui.release # None /\ asked' = ui.release
      /\ AtMostOne("check") /\ AtMostOne("download")
      /\ SameRun /\ session'.stranded = session.stranded
  BY Spent DEF RequestUpdate, Responsive, IInv, Typed, OneReport
<1>2. /\ ui.purpose = "none" /\ service.selection = ui.release
      /\ ui.path # None => ui.path = ui.release
  BY <1>1, CheckingFacts DEF IInv, SameRelease, Typed, Uis
<1>3. /\ service.task.pc \notin {"fetch", "transfer", "move"}
      /\ ~Pending("check") /\ ~Pending("download")
  BY <1>1, <1>2 DEF IInv, OneReport
<1>4. /\ ui' \in Uis /\ ui'.downloading /\ Look(ui'.dialog, ui.dialog)
      /\ ui'.purpose = ui.purpose /\ ui'.releases = ui.releases /\ ui'.release = ui.release
      /\ ui'.path = ui.path /\ ui'.step = ui.step
  BY <1>1 DEF RequestUpdate, Uis, Dialogs, Look
<1>5. Installing' /\ OffersNewest' /\ Down'
  BY <1>1, <1>4, InstallingKept DEF IInv, OffersNewest, Look, SameRun, Down
<1>6. asked' \in Releases
  BY <1>1, NoneFacts DEF Uis, MaybeRelease
<1>7. \A i \in DOMAIN inbox : FALSE
  BY <1>1, <1>3 DEF Pending, Messages
<1>8. CASE service' = [service EXCEPT !.task = Transfer(service.selection)] /\ UNCHANGED inbox
  <2>1. /\ service' \in Services /\ service'.task.pc = "transfer"
        /\ service'.task.release = asked' /\ service'.selection = service.selection
    <3> DEFINE t == Transfer(service.selection)
    <3>1. t \in Tasks /\ t.pc = "transfer" /\ t.release = service.selection
      <4>1. service.selection \in MaybeRelease /\ Endpoints \in Int
        BY <1>1, BoundsAssumption DEF Services
      <4>2. Idle \in Tasks
        BY DEF Idle, Tasks, MaybeRelease
      <4>3. ASSUME NEW i \in Tasks
            PROVE  LET e == [i EXCEPT !.kind = "download", !.pc = "transfer",
                                      !.left = Endpoints, !.release = service.selection]
                   IN  e \in Tasks /\ e.pc = "transfer" /\ e.release = service.selection
        BY <4>1 DEF Tasks
      <4>. QED
        BY <4>2, <4>3 DEF Transfer
    <3>2. service' = [service EXCEPT !.task = t]
      BY <1>8
    <3> HIDE DEF t
    <3>. QED
      BY <1>1, <1>2, <3>1, <3>2 DEF Services
  <2>2. Typed' /\ ReportsTrue'
    BY <1>1, <1>4, <1>6, <1>7, <1>8, <2>1 DEF Typed, SameRun, MaybeRelease, ReportsTrue
  <2>3. OneReport' /\ SameRelease'
    BY <1>1, <1>2, <1>4, <1>6, <1>7, <1>8, <2>1, NoneFacts
       DEF OneReport, AtMostOne, Pending, SameRelease
  <2>. QED
    BY <1>5, <2>2, <2>3 DEF IInv
<1>9. CASE Report(DownloadReport("failed", None)) /\ UNCHANGED service
  <2> DEFINE m == DownloadReport("failed", None)
  <2>1. m \in Messages /\ m.event = "download" /\ m.result = "failed"
    BY MessageFacts DEF MaybeRelease
  <2>2. Report(m)
    BY <1>9
  <2> HIDE DEF m
  <2>3. /\ inbox' \in Seq(Messages) /\ AtMostOne("check")' /\ AtMostOne("download")'
        /\ ~Pending("check")'
        /\ \A i \in DOMAIN inbox' : inbox'[i] = m \/ \E j \in DOMAIN inbox : inbox'[i] = inbox[j]
    BY <1>1, <1>3, <2>1, <2>2, ReportFacts
  <2>4. Typed' /\ ReportsTrue'
    BY <1>1, <1>4, <1>6, <1>7, <1>9, <2>1, <2>3
       DEF Typed, SameRun, MaybeRelease, ReportsTrue, True
  <2>5. OneReport' /\ SameRelease'
    BY <1>1, <1>2, <1>3, <1>4, <1>6, <1>9, <2>3, NoneFacts DEF OneReport, SameRelease
  <2>. QED
    BY <1>5, <2>4, <2>5 DEF IInv
<1>. QED
  BY <1>8, <1>9 DEF RequestUpdate

LEMMA PostponeInv ==
  ASSUME IInv, Postpone
  PROVE  IInv'
<1> DEFINE u == [ui EXCEPT !.dialog = [@ EXCEPT !.open = FALSE, !.downloading = FALSE,
                                                !.starting = FALSE]]
<1>1. /\ ui \in Uis /\ Responsive /\ session.up /\ ui.step = "idle" /\ SameRun
      /\ service \in Services /\ UNCHANGED <<session, inbox, disk, asked>> /\ disk \in Disks
  BY DEF Postpone, Responsive, IInv, Typed, SameRun
<1>2. /\ u \in Uis /\ u.purpose = ui.purpose /\ u.downloading = ui.downloading
      /\ u.releases = ui.releases /\ u.release = ui.release /\ u.path = ui.path
      /\ u.step = ui.step /\ ~u.dialog.open
  BY <1>1 DEF Uis, Dialogs
<1>3. ui' = Continue(u)
  BY DEF Postpone
<1> HIDE DEF u
<1>4. /\ ui' \in Uis /\ ui'.purpose = ui.purpose /\ ui'.downloading = ui.downloading
      /\ ui'.releases = ui.releases /\ ui'.release = ui.release /\ ui'.path = ui.path
      /\ ui'.step = ui.step /\ ~ui'.dialog.open
  BY <1>2, <1>3, NothingFoundSame DEF Same
<1>5. /\ service' \in Services /\ service'.task.pc = service.task.pc
      /\ service'.task.release = service.task.release /\ service'.selection = service.selection
  BY <1>1, TaskFacts DEF Postpone
<1>6. Typed' /\ Installing' /\ Down' /\ OffersNewest'
  BY <1>1, <1>4, <1>5, InstallingKept DEF IInv, Typed, Down, OffersNewest
<1>7. OneReport' /\ ReportsTrue' /\ SameRelease'
  BY <1>1, <1>4, <1>5 DEF IInv, OneReport, AtMostOne, Pending, ReportsTrue, True, SameRelease
<1>. QED
  BY <1>6, <1>7 DEF IInv

LEMMA HandleDownloadInv ==
  ASSUME IInv, HandleDownload
  PROVE  IInv'
<1> DEFINE m == inbox[1]
           u == [ui EXCEPT !.downloading = FALSE]
<1>1. /\ Deliver("download") /\ UNCHANGED <<session, service, disk, asked>> /\ ui \in Uis
      /\ inbox \in Seq(Messages) /\ AtMostOne("check") /\ AtMostOne("download")
      /\ disk \in Disks /\ SameRun
  BY DEF HandleDownload, IInv, Typed, OneReport, SameRun
<1>2. /\ Responsive /\ Pending("download") /\ Head(inbox) = m /\ 1 \in DOMAIN inbox
      /\ m \in Messages /\ m.event = "download" /\ inbox' \in Seq(Messages)
      /\ AtMostOne("check")' /\ AtMostOne("download")' /\ ~Pending("download")'
      /\ Pending("check")' => Pending("check")
      /\ \A i \in DOMAIN inbox' : \E j \in DOMAIN inbox : inbox'[i] = inbox[j]
  <2>1. Head(inbox) = m /\ 1 \in DOMAIN inbox
    BY <1>1, DeliverFacts
  <2>. QED
    BY <1>1, <2>1, DeliverFacts
<1>3. ui.downloading /\ service.task.pc \notin {"transfer", "move"}
  BY <1>2 DEF IInv, OneReport
<1>4. /\ ui.purpose = "none" /\ ~Pending("check") /\ service.task.pc # "fetch"
      /\ ui.release = asked /\ asked \in Releases
  BY <1>3, DownloadingFacts
<1>5. /\ m.result \in {"completed", "failed", "cancelled"} /\ m.file \in MaybeRelease
      /\ (m.result = "completed" => m.file = asked)
  BY <1>2 DEF Messages, IInv, ReportsTrue, True
<1>6. /\ u \in Uis /\ u.purpose = ui.purpose /\ ~u.downloading
      /\ u.releases = ui.releases /\ u.release = ui.release /\ u.path = ui.path
      /\ u.step = ui.step /\ u.dialog = ui.dialog
  BY <1>1 DEF Uis
<1>7. /\ ui' \in Uis /\ ui'.purpose = "none" /\ ~ui'.downloading
      /\ ui'.releases = ui.releases /\ ui'.release = asked /\ ui'.path \in {ui.path, asked, None}
      /\ ui'.step = ui.step \/ (ui'.step = "prepare" /\ ui'.path = asked)
      /\ Look(ui'.dialog, ui.dialog)
  <2>1. CASE m.result = "cancelled"
    <3>1. ui' = [u EXCEPT !.path = None]
      BY <1>2, <2>1 DEF HandleDownload
    <3> HIDE DEF u
    <3>. QED
      BY <1>4, <1>6, <3>1 DEF Uis, MaybeRelease, Look
  <2>2. CASE m.result = "failed"
    <3>1. ui' = UpdateFailed(u)
      BY <1>2, <2>2 DEF HandleDownload
    <3> HIDE DEF u
    <3>. QED
      BY <1>4, <1>6, <3>1, FailedFacts DEF Alike, Look
  <2>3. CASE m.result = "completed"
    <3>1. \/ ui' = [u EXCEPT !.path = m.file, !.images = @ + 1]
          \/ ui' = [u EXCEPT !.path = m.file, !.step = "prepare"]
      BY <1>2, <2>3 DEF HandleDownload
    <3>2. m.file = asked /\ m.file \in MaybeRelease /\ "prepare" \in Steps
      BY <1>5, <2>3 DEF Steps
    <3> HIDE DEF u, m
    <3>3. CASE ui' = [u EXCEPT !.path = m.file, !.step = "prepare"]
      BY <1>4, <1>6, <3>2, <3>3 DEF Uis, Look
    <3>4. CASE ui' = [u EXCEPT !.path = m.file, !.images = @ + 1]
      <4>1. u.images + 1 \in Int
        BY <1>6 DEF Uis
      <4>. QED
        BY <1>4, <1>6, <3>2, <3>4, <4>1 DEF Uis, Look
    <3>. QED
      BY <3>1, <3>3, <3>4
  <2>. QED
    BY <1>5, <2>1, <2>2, <2>3
<1>8. Typed' /\ Down' /\ OffersNewest'
  BY <1>1, <1>2, <1>7 DEF IInv, Typed, Down, OffersNewest, Look, Responsive
<1>9. OneReport'
  BY <1>1, <1>2, <1>3, <1>4, <1>7 DEF OneReport
<1>10. ReportsTrue'
  BY <1>1, <1>2 DEF IInv, ReportsTrue, True
<1>11. SameRelease'
  BY <1>1, <1>3, <1>4, <1>7 DEF IInv, SameRelease
<1>12. Installing'
  <2>1. session.up /\ ui.step = "idle"
    BY <1>2 DEF Responsive
  <2>. QED
    BY <1>1, <1>4, <1>7, <2>1, NoneFacts DEF IInv, Installing
<1>. QED
  BY <1>8, <1>9, <1>10, <1>11, <1>12 DEF IInv

LEMMA VerifyInv ==
  ASSUME IInv, VerifyImage \/ VerifySeal
  PROVE  IInv'
<1>1. /\ ui \in Uis /\ disk \in Disks /\ Responsive /\ session.up /\ ui.step = "idle" /\ SameRun
      /\ UNCHANGED <<session, service, inbox, asked>>
  BY DEF VerifyImage, VerifySeal, Responsive, IInv, Typed, SameRun
<1>2. ui' \in Uis /\ Alike(ui', ui)
  <2>1. ASSUME NEW i \in Int, NEW s \in Int
        PROVE  /\ [ui EXCEPT !.images = i, !.seals = s] \in Uis
               /\ Alike([ui EXCEPT !.images = i, !.seals = s], ui)
               /\ [ui EXCEPT !.images = i] \in Uis /\ Alike([ui EXCEPT !.images = i], ui)
               /\ [ui EXCEPT !.seals = s] \in Uis /\ Alike([ui EXCEPT !.seals = s], ui)
    BY <1>1 DEF Uis, Alike, Look
  <2>2. ui.images - 1 \in Int /\ ui.seals + 1 \in Int /\ ui.seals - 1 \in Int
    BY <1>1 DEF Uis
  <2>3. CASE ui' = [ui EXCEPT !.images = @ - 1, !.seals = @ + 1]
    BY <2>1, <2>2, <2>3
  <2>4. ASSUME NEW v \in Uis, Alike(v, ui), ui' \in {UpdateFailed(v), InstallerStarted(v)}
        PROVE  ui' \in Uis /\ Alike(ui', ui)
    BY <2>4, FailedFacts DEF Alike, Look
  <2> DEFINE v == [ui EXCEPT !.images = @ - 1]
             w == [ui EXCEPT !.seals = @ - 1]
  <2>5. v \in Uis /\ Alike(v, ui) /\ w \in Uis /\ Alike(w, ui)
    BY <2>1, <2>2
  <2>6. \/ ui' = [ui EXCEPT !.images = @ - 1, !.seals = @ + 1]
        \/ ui' = UpdateFailed(v)
        \/ ui' \in {UpdateFailed(w), InstallerStarted(w)}
    BY DEF VerifyImage, VerifySeal
  <2> HIDE DEF v, w
  <2>. QED
    BY <2>3, <2>4, <2>5, <2>6
<1>3. /\ disk' \in Disks /\ disk'.part = disk.part /\ disk'.current = disk.current
      /\ disk'.staging = disk.staging /\ disk'.previous = disk.previous
  BY <1>1 DEF VerifyImage, VerifySeal, Disks, Uis
<1>4. Installing'
  BY <1>1, <1>2, <1>3, InstallingKept DEF IInv, Alike
<1>5. Alike(ui', [ui EXCEPT !.step = ui'.step])
  BY <1>1, <1>2 DEF Uis, Alike, Look
<1>. QED
  BY <1>1, <1>2, <1>3, <1>4, <1>5, UiInv

(***************************************************************************)
(* The installation, and the end and start of the launcher                 *)
(***************************************************************************)

LEMMA InstallUi ==
  ASSUME ui \in Uis, NEW step \in Steps,
         ui' \in {[ui EXCEPT !.step = step], UpdateFailed([ui EXCEPT !.step = step]),
                  InstallerStarted([ui EXCEPT !.step = step])}
  PROVE  /\ ui' \in Uis /\ ui'.step = step /\ ui'.path = ui.path
         /\ Alike(ui', [ui EXCEPT !.step = ui'.step])
<1> DEFINE v == [ui EXCEPT !.step = step]
<1>1. v \in Uis /\ v.step = step /\ v.path = ui.path
  BY DEF Uis
<1>2. ui' \in {v, UpdateFailed(v), InstallerStarted(v)}
  OBVIOUS
<1>3. ui' \in Uis /\ ui'.step = step /\ ui'.path = ui.path /\ Alike(ui', v)
  <2> HIDE DEF v
  <2>. QED
    BY <1>1, <1>2, FailedFacts DEF Alike, Look
<1>. QED
  BY <1>3

LEMMA StrandedFacts ==
  ASSUME session \in Sessions, NEW b \in BOOLEAN, session' = [session EXCEPT !.stranded = b]
  PROVE  SameRun /\ session'.stranded = b
BY DEF Sessions, SameRun

LEMMA PutBackFacts ==
  ASSUME NEW d \in Disks, NEW e \in PutBack(d)
  PROVE  /\ e \in Disks /\ e.part = d.part /\ e.staging = d.staging
         /\ e.opened = d.opened
         /\ \/ e.current = d.previous
            \/ e.current = d.current /\ e.previous = d.previous
BY DEF PutBack, Disks, MaybeRelease

\* rename(previous, current) when the new AppImage could not be placed or not be started.
LEMMA RollbackInv ==
  ASSUME IInv, ui.step \in {"place", "restart"}, InstallFailed, NEW d \in Disks,
         d.part = disk.part, d.previous = disk.previous, d.current = None, disk' \in PutBack(d),
         session' = [session EXCEPT !.stranded = @ \/ disk'.current = None],
         UNCHANGED <<service, inbox, asked>>
  PROVE  IInv'
<1> DEFINE b == session.stranded \/ disk'.current = None
<1>1. /\ ui \in Uis /\ session \in Sessions /\ session.up /\ "idle" \in Steps
  BY UpFacts DEF IInv, Typed, Steps
<1>2. SameRun /\ session'.stranded = b
  <2>1. b \in BOOLEAN
    OBVIOUS
  <2>2. session' = [session EXCEPT !.stranded = b]
    OBVIOUS
  <2> HIDE DEF b
  <2>. QED
    BY <1>1, <2>1, <2>2, StrandedFacts
<1>3. disk' \in Disks /\ disk'.part = disk.part
  BY PutBackFacts
<1>4. /\ ui' \in Uis /\ ui'.step = "idle" /\ Alike(ui', [ui EXCEPT !.step = ui'.step])
  BY <1>1, InstallUi DEF InstallFailed
<1>5. ~session'.stranded => disk'.current \in Releases
  BY <1>2, <1>3 DEF Disks, MaybeRelease
<1>6. Installing'
  BY <1>2, <1>4, <1>5 DEF IInv, Installing, SameRun
<1>. QED
  BY <1>1, <1>2, <1>3, <1>4, <1>6, UiInv

LEMMA InstallInv ==
  ASSUME IInv, InstallActs
  PROVE  IInv'
<1>1. /\ ui \in Uis /\ disk \in Disks /\ session \in Sessions /\ session.up
      /\ UNCHANGED <<service, inbox, asked>>
      /\ ui.path \in Releases /\ ui.path \in MaybeRelease
  <2>1. ui.step # "idle"
    BY DEF InstallActs, Prepare, Stage, ClearPrevious, Retire, Place, ScheduleRestart
  <2>. QED
    BY <2>1, UpFacts DEF IInv, Typed, Installing, Uis, MaybeRelease, InstallActs, Prepare, Stage,
       ClearPrevious, Retire, Place, ScheduleRestart
\* Any step that leaves the session alone.
<1>2. ASSUME UNCHANGED session, NEW step \in Steps,
             ui' \in {[ui EXCEPT !.step = step], UpdateFailed([ui EXCEPT !.step = step]),
                      InstallerStarted([ui EXCEPT !.step = step])},
             disk' \in Disks, disk'.part = disk.part,
             ui'.step = step /\ ui'.path = ui.path => Installing'
      PROVE  IInv'
  <2>1. /\ ui' \in Uis /\ ui'.step = step /\ ui'.path = ui.path
        /\ Alike(ui', [ui EXCEPT !.step = ui'.step])
    BY <1>1, <1>2, InstallUi
  <2>2. SameRun
    BY <1>1, <1>2 DEF SameRun
  <2>. QED
    BY <1>1, <1>2, <2>1, <2>2, UiInv
<1>3. \A step \in {"idle", "prepare", "stage", "clear", "retire", "place", "restart"} :
        step \in Steps
  BY DEF Steps
<1>4. CASE Prepare
  <2>1. UNCHANGED <<session, disk>> /\ ui.step = "prepare"
    BY <1>4 DEF Prepare
  <2>2. PICK step \in {"idle", "stage", "restart"} :
          /\ ui' \in {[ui EXCEPT !.step = step], UpdateFailed([ui EXCEPT !.step = step])}
          /\ step = "stage" => Replacing
    BY <1>4 DEF Prepare, InstallFailed, Proceed
  <2>3. ui'.step = step /\ ui'.path = ui.path => Installing'
    BY <1>1, <2>1, <2>2 DEF IInv, Installing, Replacing
  <2>. QED
    BY <1>1, <1>2, <1>3, <2>1, <2>2, <2>3
<1>5. CASE Stage
  <2>1. UNCHANGED session /\ ui.step = "stage"
    BY <1>5 DEF Stage
  <2>2. CASE disk' = [disk EXCEPT !.staging = Partial] /\ UNCHANGED ui
    <3>1. /\ disk' \in Disks /\ disk'.part = disk.part /\ disk'.current = disk.current
          /\ disk'.previous = disk.previous
      BY <1>1, <2>2 DEF Disks
    <3>2. ui' = [ui EXCEPT !.step = "stage"]
      BY <1>1, <2>1, <2>2 DEF Uis
    <3>3. Installing'
      BY <2>1, <2>2, <3>1 DEF IInv, Installing
    <3>. QED
      BY <1>2, <1>3, <2>1, <3>1, <3>2, <3>3
  <2>3. CASE disk' = [disk EXCEPT !.staging = ui.path] /\ Proceed("clear")
    <3>1. /\ disk' \in Disks /\ disk'.part = disk.part /\ disk'.current = disk.current
          /\ disk'.previous = disk.previous /\ disk'.staging = ui.path
      BY <1>1, <2>3 DEF Disks
    <3>2. ui'.step = "clear" /\ ui'.path = ui.path => Installing'
      BY <2>1, <3>1 DEF IInv, Installing
    <3>. QED
      BY <1>2, <1>3, <2>1, <2>3, <3>1, <3>2 DEF Proceed
  <2>4. CASE disk' = [disk EXCEPT !.staging = None] /\ InstallFailed
    <3>1. /\ disk' \in Disks /\ disk'.part = disk.part /\ disk'.current = disk.current
          /\ disk'.previous = disk.previous
      BY <1>1, <2>4 DEF Disks, MaybeRelease
    <3>2. ui'.step = "idle" /\ ui'.path = ui.path => Installing'
      BY <2>1, <3>1 DEF IInv, Installing
    <3>. QED
      BY <1>2, <1>3, <2>1, <2>4, <3>1, <3>2 DEF InstallFailed
  <2>. QED
    BY <1>5, <2>2, <2>3, <2>4 DEF Stage
<1>6. CASE ClearPrevious
  <2>1. UNCHANGED session /\ ui.step = "clear" /\ ui' = [ui EXCEPT !.step = "retire"]
    BY <1>6 DEF ClearPrevious, Proceed
  <2>2. /\ disk' \in Disks /\ disk'.part = disk.part /\ disk'.current = disk.current
        /\ disk'.staging = disk.staging
    BY <1>1, <1>6 DEF ClearPrevious, Disks, MaybeRelease
  <2>3. ui'.step = "retire" /\ ui'.path = ui.path => Installing'
    BY <1>1, <2>1, <2>2 DEF IInv, Installing
  <2>. QED
    BY <1>2, <1>3, <2>1, <2>2, <2>3
<1>7. CASE Retire
  <2>1. UNCHANGED session /\ ui.step = "retire"
    BY <1>7 DEF Retire
  <2>2. CASE disk' = [disk EXCEPT !.previous = disk.current, !.current = None] /\ Proceed("place")
    <3>1. /\ disk' \in Disks /\ disk'.part = disk.part /\ disk'.current = None
          /\ disk'.previous = disk.current /\ disk'.staging = disk.staging
      BY <1>1, <2>2 DEF Disks, MaybeRelease
    <3>2. ui'.step = "place" /\ ui'.path = ui.path => Installing'
      BY <1>1, <2>1, <3>1 DEF IInv, Installing
    <3>. QED
      BY <1>2, <1>3, <2>1, <2>2, <3>1, <3>2 DEF Proceed
  <2>3. CASE disk' = [disk EXCEPT !.staging = None] /\ InstallFailed
    <3>1. /\ disk' \in Disks /\ disk'.part = disk.part /\ disk'.current = disk.current
          /\ disk'.previous = disk.previous
      BY <1>1, <2>3 DEF Disks, MaybeRelease
    <3>2. ui'.step = "idle" /\ ui'.path = ui.path => Installing'
      BY <2>1, <3>1 DEF IInv, Installing
    <3>. QED
      BY <1>2, <1>3, <2>1, <2>3, <3>1, <3>2 DEF InstallFailed
  <2>. QED
    BY <1>7, <2>2, <2>3 DEF Retire
<1>8. CASE Place
  <2>1. ui.step = "place" /\ disk.current \in MaybeRelease
    BY <1>1, <1>8 DEF Place, Disks
  <2>2. CASE /\ disk' = [disk EXCEPT !.current = disk.staging, !.staging = None]
             /\ Proceed("restart") /\ UNCHANGED session
    <3>1. disk.staging = ui.path
      BY <2>1 DEF IInv, Installing
    <3>2. /\ disk' \in Disks /\ disk'.part = disk.part /\ disk'.current = ui.path
          /\ disk'.previous = disk.previous
      BY <1>1, <2>2, <3>1 DEF Disks, MaybeRelease
    <3>3. ui'.step = "restart" /\ ui'.path = ui.path => Installing'
      BY <1>1, <2>1, <2>2, <3>2, NoneFacts DEF IInv, Installing
    <3>. QED
      BY <1>2, <1>3, <2>2, <3>2, <3>3 DEF Proceed
  <2>3. CASE /\ disk' \in PutBack([disk EXCEPT !.staging = None])
             /\ session' = [session EXCEPT !.stranded = @ \/ disk'.current = None]
             /\ InstallFailed
    <3> DEFINE d == [disk EXCEPT !.staging = None]
    <3>1. /\ d \in Disks /\ d.part = disk.part /\ d.previous = disk.previous
          /\ d.current = disk.current
      BY <1>1 DEF Disks, MaybeRelease
    <3>2. disk' \in PutBack(d)
      BY <2>3
    <3> HIDE DEF d
    <3>3. CASE d.current = None
      BY <1>1, <2>1, <2>3, <3>1, <3>2, <3>3, RollbackInv
    <3>. QED
      BY <1>1, <2>1, <3>1, <3>3 DEF IInv, Installing
  <2>. QED
    BY <1>8, <2>2, <2>3 DEF Place
<1>9. CASE ScheduleRestart
  <2>1. ui.step = "restart"
    BY <1>9 DEF ScheduleRestart
  <2>2. CASE /\ ui' = InstallerStarted([ui EXCEPT !.step = "idle"])
             /\ disk' = IF Replacing THEN [disk EXCEPT !.final = None] ELSE disk
             /\ UNCHANGED session
    <3>1. /\ disk' \in Disks /\ disk'.part = disk.part /\ disk'.current = disk.current
          /\ disk'.previous = disk.previous
      BY <1>1, <2>2 DEF Disks, MaybeRelease
    <3>2. ui'.step = "idle" /\ ui'.path = ui.path => Installing'
      BY <2>1, <2>2, <3>1 DEF IInv, Installing
    <3>. QED
      BY <1>2, <1>3, <2>2, <3>1, <3>2
  <2>3. CASE /\ Replacing /\ disk' \in PutBack([disk EXCEPT !.current = None])
             /\ session' = [session EXCEPT !.stranded = @ \/ disk'.current = None]
             /\ InstallFailed
    <3> DEFINE d == [disk EXCEPT !.current = None]
    <3>1. /\ d \in Disks /\ d.part = disk.part /\ d.previous = disk.previous /\ d.current = None
      BY <1>1 DEF Disks, MaybeRelease
    <3>2. disk' \in PutBack(d)
      BY <2>3
    <3> HIDE DEF d
    <3>. QED
      BY <1>1, <2>1, <2>3, <3>1, <3>2, RollbackInv
  <2>4. CASE /\ ~Replacing /\ disk' = disk
             /\ session' = [session EXCEPT !.stranded = @ \/ disk'.current = None]
             /\ InstallFailed
    <3> DEFINE b == session.stranded \/ disk'.current = None
    <3>1. SameRun /\ session'.stranded = b
      <4>1. b \in BOOLEAN /\ session' = [session EXCEPT !.stranded = b]
        BY <2>4
      <4> HIDE DEF b
      <4>. QED
        BY <1>1, <4>1, StrandedFacts
    <3>2. /\ ui' \in Uis /\ ui'.step = "idle" /\ Alike(ui', [ui EXCEPT !.step = ui'.step])
      BY <1>1, <1>3, <2>4, InstallUi DEF InstallFailed
    <3>3. Installing'
      BY <1>1, <2>1, <2>4, <3>1, <3>2 DEF IInv, Installing, SameRun
    <3>. QED
      BY <1>1, <2>4, <3>1, <3>2, <3>3, UiInv
  <2>. QED
    BY <1>9, <2>2, <2>3, <2>4 DEF ScheduleRestart
<1>. QED
  BY <1>4, <1>5, <1>6, <1>7, <1>8, <1>9 DEF InstallActs

LEMMA FreshFacts ==
  /\ FreshUi \in Uis /\ FreshUi.step = "idle" /\ FreshUi.path = None /\ ~FreshUi.downloading
  /\ FreshUi.purpose = "none" /\ FreshUi.release = None /\ ~FreshUi.dialog.open
  /\ FreshService \in Services /\ FreshService.task.pc = "done"
<1>1. None \in MaybeRelease /\ <<>> \in Seq(Releases) /\ "idle" \in Steps
  BY DEF MaybeRelease, Steps
<1>2. ClosedDialog \in Dialogs /\ ~ClosedDialog.open
  BY <1>1 DEF ClosedDialog, Dialogs
<1>3. Idle \in Tasks /\ Idle.pc = "done"
  BY <1>1 DEF Idle, Tasks
<1>. QED
  BY <1>1, <1>2, <1>3 DEF FreshUi, FreshService, Uis, Services

\* A launcher that has just started, or has ended, waits for nothing.
LEMMA FreshInv ==
  ASSUME Typed, session' \in Sessions, UNCHANGED service, service = FreshService,
         inbox' = <<>>, ui' \in Uis, ui'.step = "idle", ui'.path = None, ~ui'.downloading,
         ui'.purpose = "none", ui'.release = None, ~ui'.dialog.open,
         disk' \in Disks, asked' \in MaybeRelease,
         Installing', Down'
  PROVE  IInv'
<1>1. service'.task.pc = "done" /\ service' \in Services
  BY FreshFacts
<1>2. Typed'
  BY <1>1 DEF Typed
<1>3. OneReport' /\ ReportsTrue' /\ SameRelease' /\ OffersNewest'
  BY <1>1 DEF OneReport, AtMostOne, Pending, ReportsTrue, SameRelease, OffersNewest
<1>. QED
  BY <1>2, <1>3 DEF IInv

LEMMA EndedInv ==
  ASSUME IInv, session.up, Ended
  PROVE  IInv'
<1>1. session \in Sessions /\ disk \in Disks /\ asked \in MaybeRelease
  BY DEF IInv, Typed
<1>2. /\ session' \in Sessions /\ ~session'.up /\ session'.mac = session.mac
      /\ session'.inplace = session.inplace /\ session'.stranded = session.stranded
      /\ UNCHANGED <<disk, asked>>
  BY <1>1 DEF Ended, Sessions
<1>3. service' = FreshService /\ inbox' = <<>> /\ ui' = FreshUi
  BY DEF Ended
<1>4. Installing' /\ Down'
  BY <1>2, <1>3, FreshFacts DEF IInv, Installing, Down
<1>5. Typed' /\ OneReport' /\ ReportsTrue' /\ SameRelease' /\ OffersNewest'
  BY <1>1, <1>2, <1>3, FreshFacts
     DEF Typed, OneReport, AtMostOne, Pending, ReportsTrue, SameRelease, OffersNewest
<1>. QED
  BY <1>4, <1>5 DEF IInv

LEMMA HealthFacts ==
  ASSUME NEW u \in Uis, NEW b \in BOOLEAN
  PROVE  LET v == [u EXCEPT !.health = b] IN v \in Uis /\ Same(v, u)
BY DEF Uis, Same

LEMMA StartInv ==
  ASSUME IInv, Start
  PROVE  IInv'
<1>1. /\ session \in Sessions /\ disk \in Disks /\ ~session.up /\ asked' = None
      /\ UNCHANGED <<service, inbox>>
      /\ service = FreshService /\ inbox = <<>>
  BY DEF IInv, Typed, Down, Start
<1>2. /\ session' \in Sessions /\ session'.up /\ session'.mac = session.mac
      /\ session'.inplace = session.inplace /\ session'.stranded = session.stranded
      /\ session.inplace => disk.current \in Releases
  <2> DEFINE version == IF session.inplace THEN disk.current ELSE session.version
  <2>1. version \in Releases /\ session.count + 1 \in Nat
    BY <1>1 DEF Start, Sessions
  <2>2. session' = [session EXCEPT !.up = TRUE, !.count = session.count + 1, !.version = version]
    BY DEF Start
  <2> HIDE DEF version
  <2>. QED
    BY <1>1, <2>1, <2>2 DEF Start, Sessions
<1>3. /\ ui' \in Uis /\ Same(ui', FreshUi)
  <2>1. PICK updated \in BOOLEAN :
          ui' = [FreshUi EXCEPT !.health = session.inplace /\ (updated \/ disk.previous # None)]
    BY DEF Start
  <2> DEFINE b == session.inplace /\ (updated \/ disk.previous # None)
  <2>2. b \in BOOLEAN /\ ui' = [FreshUi EXCEPT !.health = b]
    BY <2>1, Zenon DEF Sessions
  <2> HIDE DEF b
  <2>. QED
    BY <2>2, FreshFacts, HealthFacts
<1>4. /\ disk' \in Disks /\ disk'.current = disk.current /\ disk'.staging = disk.staging
      /\ disk'.previous = disk.previous
  BY <1>1 DEF Start, Disks, MaybeRelease
<1>5. /\ ui'.step = "idle" /\ ui'.path = None /\ ~ui'.downloading /\ ui'.purpose = "none"
      /\ ui'.release = None /\ ~ui'.dialog.open
  BY <1>3, FreshFacts DEF Same
<1>6. Installing' /\ Down'
  BY <1>2, <1>4, <1>5 DEF IInv, Installing, Down
<1>7. asked' \in MaybeRelease /\ Typed
  BY <1>1 DEF IInv, MaybeRelease
<1>. QED
  BY <1>1, <1>2, <1>3, <1>4, <1>5, <1>6, <1>7, FreshInv

\* The checkpoint comes when the launcher runs: the AppImage that is not the previous one is there.
LEMMA HealthInv ==
  ASSUME IInv, HealthCheckpoint
  PROVE  IInv'
<1>1. /\ ui \in Uis /\ disk \in Disks /\ session.up /\ ui.step = "idle" /\ SameRun
      /\ UNCHANGED <<session, service, inbox, asked>>
  BY DEF HealthCheckpoint, Responsive, IInv, Typed, SameRun
<1>2. ui' \in Uis /\ Same(ui', ui)
  BY <1>1, HealthFacts DEF HealthCheckpoint
<1>3. /\ disk' \in Disks /\ disk'.part = disk.part /\ disk'.current = disk.current
      /\ disk'.staging = disk.staging
  BY <1>1 DEF HealthCheckpoint, Disks, MaybeRelease
<1>4. Installing'
  BY <1>1, <1>2, <1>3 DEF IInv, Installing, Same
<1>5. Alike(ui', [ui EXCEPT !.step = ui'.step])
  BY <1>1, <1>2 DEF Uis, Same, Alike, Look
<1>. QED
  BY <1>1, <1>2, <1>3, <1>4, <1>5, UiInv

LEMMA InitInv ==
  ASSUME Init
  PROVE  IInv
<1>1. First \in Releases /\ None \in MaybeRelease
  BY ReleasesAssumption DEF MaybeRelease
<1>2. /\ session \in Sessions /\ session.up /\ (session.mac => ~session.inplace)
  BY <1>1 DEF Init, Sessions
<1>3. disk \in Disks /\ disk.current \in Releases
  BY <1>1 DEF Init, Disks, MaybeRelease
<1>4. service = FreshService /\ inbox = <<>> /\ ui = FreshUi /\ asked = None
  BY DEF Init
<1>5. Typed
  BY <1>1, <1>2, <1>3, <1>4, FreshFacts DEF Typed
<1>6. OneReport /\ ReportsTrue /\ SameRelease /\ OffersNewest /\ Down
  BY <1>2, <1>4, FreshFacts
     DEF OneReport, AtMostOne, Pending, ReportsTrue, SameRelease, OffersNewest, Down
<1>7. Installing
  BY <1>2, <1>3, <1>4, FreshFacts DEF Installing
<1>. QED
  BY <1>5, <1>6, <1>7 DEF IInv

LEMMA NextInv ==
  ASSUME IInv, [Next]_vars
  PROVE  IInv'
<1>1. CASE UNCHANGED vars
  BY <1>1 DEF vars, IInv, Typed, OneReport, AtMostOne, Pending, ReportsTrue, True, SameRelease,
     Installing, Down, OffersNewest
<1>2. CASE UserActs
  BY <1>2, PlayInv, ManageInv, RequestInv, PostponeInv, PickInv DEF UserActs
<1>3. CASE ServiceActs
  BY <1>3, CheckEndpointInv, TransferInv, FinalizeInv, ClearTaskInv DEF ServiceActs
<1>4. CASE UiActs
  BY <1>4, HandleCheckInv, HandleDownloadInv, VerifyInv DEF UiActs
<1>5. CASE InstallActs
  BY <1>5, InstallInv
<1>6. CASE QuitForInstaller \/ Stop
  BY <1>6, EndedInv DEF QuitForInstaller, Stop, Responsive
<1>7. CASE Start
  BY <1>7, StartInv
<1>8. CASE HealthCheckpoint
  BY <1>8, HealthInv
<1>. QED
  BY <1>1, <1>2, <1>3, <1>4, <1>5, <1>6, <1>7, <1>8 DEF Next

(***************************************************************************)
(* The theorems                                                            *)
(***************************************************************************)

\* The inductive invariant: one report for one request, and one release that the manager, the
\* service and the user speak of, from the check to the renaming of the AppImages.
THEOREM LauncherUpdateInvariant == Spec => []IInv
<1>1. Init => IInv
  BY InitInv
<1>2. IInv /\ [Next]_vars => IInv'
  BY NextInv
<1>. QED
  BY <1>1, <1>2, PTL DEF Spec

\* LauncherNeverLost: wherever an installation fails or the launcher is killed, for any number
\* of updates, an AppImage that can be run is beside it.
THEOREM LauncherNeverLostAlways == Spec => []LauncherNeverLost
<1>1. IInv => LauncherNeverLost
  BY DEF IInv, Typed, Installing, LauncherNeverLost, TypeOK, Sessions, Services, Uis, Disks,
     MaybeRelease, Steps
<1>. QED
  BY <1>1, LauncherUpdateInvariant, PTL

\* OffersNewest: whatever catalogues the server sends, in whatever order, a release that the
\* launcher offers of its own accord is newer than the launcher, and the newest there is.
THEOREM OffersNewestAlways == Spec => []OffersNewest
<1>1. IInv => OffersNewest
  BY DEF IInv
<1>. QED
  BY <1>1, LauncherUpdateInvariant, PTL

\* What replaces the launcher, or is opened to replace it, is what was asked for.
LEMMA StepInstalls ==
  ASSUME IInv, Next
  PROVE  /\ disk'.current \notin {disk.current, disk.previous, None} => disk'.current = asked
         /\ disk'.opened \notin {disk.opened, None} => disk'.opened = asked
<1>1. disk \in Disks /\ (ui.path # None => ui.path = asked)
      /\ (ui.step \in {"clear", "retire", "place"} => disk.staging = ui.path)
  BY DEF IInv, Typed, SameRelease, Installing
<1>2. CASE disk' = disk
  BY <1>2
<1>3. CASE TransferPackage \/ FinalizePackage
  <2>1. disk'.current = disk.current /\ disk'.opened = disk.opened
    BY <1>1, <1>3 DEF TransferPackage, FinalizePackage, Disks
  <2>. QED
    BY <2>1
<1>4. CASE VerifySeal
  BY <1>1, <1>4 DEF VerifySeal, Disks
<1>5. CASE Stage \/ ClearPrevious \/ Retire
  BY <1>1, <1>5 DEF Stage, ClearPrevious, Retire, Disks
<1>6. CASE Place
  BY <1>1, <1>6 DEF Place, PutBack, Disks
<1>7. CASE ScheduleRestart
  BY <1>1, <1>7 DEF ScheduleRestart, PutBack, Disks
<1>8. CASE Start \/ HealthCheckpoint
  BY <1>1, <1>8 DEF Start, HealthCheckpoint, Disks
<1>9. CASE \/ UserActs \/ CheckEndpoint \/ ClearTask \/ HandleCheck \/ HandleDownload
           \/ VerifyImage \/ Prepare \/ QuitForInstaller \/ Stop
  <2>1. disk' = disk
    BY <1>9 DEF UserActs, Play, ManageVersions, RequestUpdate, Postpone, PickVersion,
       CheckEndpoint, ClearTask, HandleCheck, HandleDownload, VerifyImage, Prepare,
       QuitForInstaller, Stop, Ended
  <2>. QED
    BY <2>1
<1>. QED
  BY <1>3, <1>4, <1>5, <1>6, <1>7, <1>8, <1>9 DEF Next, ServiceActs, UiActs, InstallActs

\* InstalledAsAsked: between the click and the renaming no check, choice, cancellation or restart
\* changes which release is downloaded, verified and installed.
THEOREM InstalledAsAskedAlways == Spec => InstalledAsAsked
<1>1. IInv /\ [Next]_vars
        => [/\ disk'.current \notin {disk.current, disk.previous, None} => disk'.current = asked
            /\ disk'.opened \notin {disk.opened, None} => disk'.opened = asked]_vars
  <2>1. CASE UNCHANGED vars
    BY <2>1
  <2>2. ASSUME IInv, Next
        PROVE  /\ disk'.current \notin {disk.current, disk.previous, None}
                    => disk'.current = asked
               /\ disk'.opened \notin {disk.opened, None} => disk'.opened = asked
    BY <2>2, StepInstalls
  <2>. QED
    BY <2>1, <2>2
<1>. QED
  BY <1>1, LauncherUpdateInvariant, PTL DEF Spec, InstalledAsAsked
=============================================================================
