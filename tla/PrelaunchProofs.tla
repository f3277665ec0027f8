-------------------------- MODULE PrelaunchProofs --------------------------
(***************************************************************************)
(* A launcher with any games, for any ids of operations and however many   *)
(* events the user lets queue up: what goes on is shown, what excludes one *)
(* another does not go on at once, whoever waits is answered, and nothing  *)
(* but good news of the game starts it.  The exception is strayed: the     *)
(* code lets a launch that waits for the launcher's own update check, and  *)
(* a check, go on over a change of the configured game; after that none of *)
(* this is so.                                                             *)
(*                                                                         *)
(* An event of the user interface is a composition of operators on the     *)
(* value of ui.  So the inductive invariant is a predicate on such values, *)
(* and there is one lemma per operator.  In the midst of an event an       *)
(* operation may be over while its dialog still has it: p is the operation *)
(* whose last report is being handled, and NoOp otherwise.                 *)
(***************************************************************************)
EXTENDS Prelaunch, TLAPS, SequenceTheorems, FiniteSetTheorems

Said == {"working", "cancelled", "ok", "outdated", "damaged", "failed"}

\* What a thread of Courier can have said of an operation.
Saying(op, what) == what \in Outcomes(op.kind) \cup {"working", "cancelled"}

Statuses == {s \in [event : {"status"}, op : Operation, what : Said] : Saying(s.op, s.what)}

Contexts == {Context(d) : d \in Dialogs}

Events == Statuses \cup Contexts \cup {ProbeEvent}

Stacks == UNION {[S -> SUBSET Overlays] : S \in SUBSET Overlays}

DialogStates == [op : OpsOrNone, observing : BOOLEAN, retry : BOOLEAN]

Uis ==
  [config : Games, game : Games, key : Games, launch : BOOLEAN, checked : BOOLEAN,
   pending : SUBSET Games, repairing : BOOLEAN, suspended : BOOLEAN,
   overlays : Stacks, installing : BOOLEAN, view : {"install", "setup", "loading", "error", "chooser"},
   purpose : {"None", "Startup", "Manual"}, prefix : BOOLEAN, present : BOOLEAN,
   wine : {"idle", "setup", "game"}, failed : BOOLEAN, needed : BOOLEAN,
   check : {"None", "Version", "Integrity"}, op : OpsOrNone, transfer : BOOLEAN,
   dialog : [Dialogs -> DialogStates], active : SUBSET Operation,
   running : [Couriers -> OpsOrNone], posted : Seq(Events), stage : Stages]

(***************************************************************************)
(* What goes on, and who waits for it                                      *)
(***************************************************************************)
\* An operation that is not the one whose last report is being handled.
Holds(u, p, d) == u.dialog[d].op \notin {NoOp, p}

\* A check has an operation of its kind, and the update dialog observes it.
CheckHolds(u, p) ==
  /\ u.check = "None" <=> u.op = NoOp
  /\ u.check = "Version" => u.op.kind = "version"
  /\ u.check = "Integrity" => u.op.kind = "integrity"
  /\ u.check # "None" =>
       u.dialog["update"].observing /\ u.dialog["update"].op = u.op /\ u.checked /\ u.op # p
  /\ u.check = "None" /\ u.dialog["update"].observing => p # NoOp /\ u.dialog["update"].op = p
  /\ \A d \in {"repair", "install"} : ~u.dialog[d].observing

\* A transfer goes on while a dialog has one, and beside no check.
TransferHolds(u, p) ==
  /\ \A d \in Dialogs :
       u.dialog[d].op # NoOp /\ ~u.dialog[d].observing => u.dialog[d].op.kind = "transfer"
  /\ u.transfer <=> \E d \in Dialogs : Holds(u, p, d) /\ ~u.dialog[d].observing
  /\ u.transfer => u.check = "None"

Waited(u) == ({u.op} \cup {u.dialog[d].op : d \in Dialogs}) \ {NoOp}

Work(u, p) == CheckHolds(u, p) /\ TransferHolds(u, p) /\ u.active \ {p} = Waited(u) \ {p}

\* The last report of an operation of courier c is to come, on its way, or queued.
Coming(u, c, op) ==
  \/ u.running[c] = op
  \/ \E r \in reports : r.op = op /\ r.what # "working"
  \/ \E i \in DOMAIN u.posted :
       u.posted[i].event = "status" /\ u.posted[i].op = op /\ u.posted[i].what # "working"

Reported(u, p) ==
  /\ u.op \notin {NoOp, p} => Coming(u, "checker", u.op)
  /\ \A d \in Dialogs : Holds(u, p, d) /\ ~u.dialog[d].observing => Coming(u, d, u.dialog[d].op)

(***************************************************************************)
(* Where it goes on                                                        *)
(***************************************************************************)
Place(u) ==
  /\ u.check # "None" => u.prefix /\ u.present /\ ~u.failed /\ u.wine = "idle" /\ world.prefix
  /\ u.transfer => u.wine = "idle" /\ (u.failed => u.repairing)
  /\ u.launch => u.game \notin u.pending /\ ~u.repairing /\ world.prefix
  /\ u.repairing => u.wine = "idle" /\ u.game \in u.pending
  /\ u.wine = "game" => ~u.failed

(***************************************************************************)
(* What lies over the window                                               *)
(***************************************************************************)
Ordered(u) ==
  /\ \A x \in DOMAIN u.overlays : u.overlays[x] \subseteq DOMAIN u.overlays
  /\ \A x, y \in DOMAIN u.overlays : x \in u.overlays[y] => y \notin u.overlays[x]

\* A dialog with an operation is shown, and nothing but an offer lies over it.
Above(u, d) == Shows(u, d) /\ DOMAIN u.overlays \ {d, "offer"} \subseteq u.overlays[d]

Layers(u, p) ==
  /\ Ordered(u)
  /\ \A d \in Dialogs : Holds(u, p, d) => Above(u, d)
  /\ Holds(u, p, "install") => u.installing
  /\ Shows(u, "update") => u.prefix /\ world.prefix
  /\ u.wine # "idle" \/ u.failed => ~Shows(u, "update") /\ ~Shows(u, "install")
  /\ Shows(u, "setup") => ~Shows(u, "update") /\ ~Shows(u, "install")
  /\ Shows(u, "files") => u.game \in u.pending
  /\ u.view = "chooser" => ~Shows(u, "setup") /\ ~Shows(u, "install")
  /\ Shows(u, "repair") /\ Shows(u, "files") => "repair" \in u.overlays["files"]

(***************************************************************************)
(* The stage                                                               *)
(***************************************************************************)
\* What the stage says is so, although compute() may have more to say by now.
Fits(u) ==
  /\ u.failed => u.stage = "Failed"
  /\ ~u.failed /\ u.wine = "game" => u.stage = "Running"
  /\ ~u.failed /\ u.wine = "setup" => u.stage = "SettingUpPrefix"
  /\ u.stage \in {"Updating", "Downloading"} => u.transfer
  /\ u.transfer /\ ~u.failed => u.stage \in {"Updating", "Downloading"}
  /\ u.stage = "CheckingUpdate" <=> u.check # "None"
  /\ u.stage \in {"NeedsDownload", "NeedsUpdate", "Ready"} => u.prefix
  /\ u.stage \in {"NeedsUpdate", "Ready"} => u.present
  /\ u.stage = "NeedsUpdate" => world.prefix
  /\ u.stage = "NeedsPrefix" => ~u.prefix
  /\ u.stage = "NeedsDownload" => ~u.present
  /\ u.needed /\ u.prefix /\ u.present /\ ~world.prefix => u.stage \in {"SettingUpPrefix", "Failed"}
  /\ u.stage \in {"SettingUpPrefix", "Running", "Failed"} => ~Shows(u, "update") /\ ~Shows(u, "install")
  /\ u.repairing => u.stage \notin {"SettingUpPrefix", "Running"} /\ (u.stage = "Failed" => u.failed)

\* What follows a change of the stage.
Followed(u) ==
  /\ u.repairing \/ u.stage \in {"Updating", "Downloading"} => u.suspended
  /\ u.launch => u.stage \in {"Ready", "CheckingUpdate", "Updating"}

\* What compute() finds is no update in a prefix that is gone.
Updatable(u) ==
  u.needed /\ u.prefix /\ u.present /\ ~world.prefix => u.wine = "setup" \/ u.failed

Viewed(u) == ~u.repairing => u.view = View(u.stage)

\* An installation that is shown although the game is there, and needs the prefix.
Installed(u) == Shows(u, "install") /\ u.present /\ u.prefix => world.prefix

RepairShown(u) == Shows(u, "repair") <=> u.repairing

Sound(u, p) == u \in Uis /\ Work(u, p) /\ Reported(u, p) /\ Place(u) /\ Layers(u, p)

\* At rest, and between the calls of an event.
Good(u, p) ==
  Sound(u, p) /\ Fits(u) /\ Followed(u) /\ Installed(u) /\ RepairShown(u) /\ Viewed(u)

\* A launch goes on for the game that the window, the last probe and config.json name; it is
\* there, and it is that game's files that whoever waits waits for.
Loyal(u) ==
  Going(u) => /\ Agrees(u) /\ u.config \in world.installed
              /\ \A op \in Waited(u) : op.game = u.config

Disk ==
  /\ reports \in SUBSET [op : Operation, what : {"working", "ok", "outdated", "damaged", "failed"}]
  /\ \A r \in reports : Saying(r.op, r.what)
  /\ world \in [installed : SUBSET Games, prefix : BOOLEAN]

\* What holds while no launch has strayed.
Core == Good(ui, NoOp) /\ Disk

IInv == strayed \/ (Core /\ Loyal(ui))

(***************************************************************************)
(* Types                                                                   *)
(***************************************************************************)
LEMMA NoOpIsNone ==
  /\ NoOp \notin Operation /\ NoOp \in OpsOrNone
  /\ \A op \in OpsOrNone : op # NoOp => op \in Operation
  BY OpIdsAssumption DEF NoOp, Operation, OpsOrNone

LEMMA StackTypes ==
  ASSUME NEW S
  PROVE  /\ S \in Stacks => /\ DOMAIN S \subseteq Overlays
                            /\ S = [x \in DOMAIN S |-> S[x]]
                            /\ \A x \in DOMAIN S : S[x] \subseteq Overlays
         /\ \A D \in SUBSET Overlays : S \in [D -> SUBSET Overlays] => S \in Stacks
<1>1. ASSUME S \in Stacks
      PROVE  /\ DOMAIN S \subseteq Overlays /\ S = [x \in DOMAIN S |-> S[x]]
             /\ \A x \in DOMAIN S : S[x] \subseteq Overlays
  <2>1. PICK D \in SUBSET Overlays : S \in [D -> SUBSET Overlays]
    BY <1>1 DEF Stacks
  <2> QED BY <2>1
<1>2. ASSUME NEW D \in SUBSET Overlays, S \in [D -> SUBSET Overlays]
      PROVE  S \in Stacks
  BY <1>2 DEF Stacks
<1> QED BY <1>1, <1>2

(***************************************************************************)
(* Overlays                                                                *)
(***************************************************************************)
\* All but the overlays.
Beside(u, v) ==
  /\ v.config = u.config /\ v.game = u.game /\ v.key = u.key /\ v.checked = u.checked
  /\ v.launch = u.launch /\ v.pending = u.pending /\ v.repairing = u.repairing
  /\ v.suspended = u.suspended /\ v.installing = u.installing /\ v.view = u.view
  /\ v.purpose = u.purpose /\ v.prefix = u.prefix /\ v.present = u.present /\ v.wine = u.wine
  /\ v.failed = u.failed /\ v.needed = u.needed /\ v.check = u.check /\ v.op = u.op
  /\ v.transfer = u.transfer /\ v.dialog = u.dialog /\ v.active = u.active
  /\ v.running = u.running /\ v.posted = u.posted /\ v.stage = u.stage

\* S without the overlay o, and with o on top.
Without(S, o) == [x \in DOMAIN S \ {o} |-> S[x] \ {o}]
With(S, o)    == [x \in DOMAIN S \cup {o} |-> (IF x = o THEN DOMAIN S ELSE S[x]) \ {o}]

LEMMA CloseIs ==
  ASSUME NEW u \in Uis, NEW o \in Overlays
  PROVE  /\ Close(u, o) \in Uis /\ Beside(u, Close(u, o))
         /\ Close(u, o).overlays = Without(u.overlays, o)
<1>1. u.overlays \in Stacks
  BY DEF Uis
<1>2. Without(u.overlays, o) \in [DOMAIN u.overlays \ {o} -> SUBSET Overlays]
  BY <1>1, StackTypes DEF Without
<1>3. Without(u.overlays, o) \in Stacks
  BY <1>1, <1>2, StackTypes
<1>4. Close(u, o) = [u EXCEPT !.overlays = Without(u.overlays, o)]
  BY DEF Close, Without
<1> DEFINE S == Without(u.overlays, o)
<1> HIDE DEF S
<1>5. [u EXCEPT !.overlays = S] \in Uis /\ Beside(u, [u EXCEPT !.overlays = S])
      /\ [u EXCEPT !.overlays = S].overlays = S
  BY <1>3 DEF S, Uis, Beside
<1> QED BY <1>4, <1>5 DEF S

LEMMA OpenIs ==
  ASSUME NEW u \in Uis, NEW o \in Overlays
  PROVE  /\ Open(u, o) \in Uis /\ Beside(u, Open(u, o))
         /\ Open(u, o).overlays = With(u.overlays, o)
<1>1. u.overlays \in Stacks
  BY DEF Uis
<1>2. With(u.overlays, o) \in [DOMAIN u.overlays \cup {o} -> SUBSET Overlays]
  BY <1>1, StackTypes DEF With
<1>3. With(u.overlays, o) \in Stacks
  BY <1>1, <1>2, StackTypes
<1>4. Open(u, o) = [u EXCEPT !.overlays = With(u.overlays, o)]
  BY DEF Open, With
<1> DEFINE S == With(u.overlays, o)
<1> HIDE DEF S
<1>5. [u EXCEPT !.overlays = S] \in Uis /\ Beside(u, [u EXCEPT !.overlays = S])
      /\ [u EXCEPT !.overlays = S].overlays = S
  BY <1>3 DEF S, Uis, Beside
<1> QED BY <1>4, <1>5 DEF S

LEMMA CloseShows ==
  ASSUME NEW u \in Uis, NEW o \in Overlays, Ordered(u)
  PROVE  /\ Ordered(Close(u, o))
         /\ \A x : Shows(Close(u, o), x) <=> Shows(u, x) /\ x # o
         /\ \A x : Shows(u, x) /\ x # o => Close(u, o).overlays[x] = u.overlays[x] \ {o}
         /\ \A d : Above(u, d) /\ d # o => Above(Close(u, o), d)
<1> DEFINE v == Close(u, o)
<1> HIDE DEF v
<1>1. v.overlays = Without(u.overlays, o)
  BY CloseIs DEF v
<1>2. DOMAIN v.overlays = DOMAIN u.overlays \ {o}
      /\ \A x \in DOMAIN u.overlays \ {o} : v.overlays[x] = u.overlays[x] \ {o}
  BY <1>1 DEF Without
<1>3. Ordered(v)
  BY <1>2 DEF Ordered
<1> QED BY <1>2, <1>3 DEF Shows, Above, v

LEMMA OpenShows ==
  ASSUME NEW u \in Uis, NEW o \in Overlays, Ordered(u)
  PROVE  /\ Ordered(Open(u, o))
         /\ \A x : Shows(Open(u, o), x) <=> Shows(u, x) \/ x = o
         /\ Open(u, o).overlays[o] = DOMAIN u.overlays \ {o}
         /\ \A x : Shows(u, x) /\ x # o => Open(u, o).overlays[x] = u.overlays[x] \ {o}
         /\ \A d : Above(u, d) /\ o \in {d, "offer"} => Above(Open(u, o), d)
         /\ Above(Open(u, o), o)
<1> DEFINE v == Open(u, o)
<1> HIDE DEF v
<1>1. v.overlays = With(u.overlays, o)
  BY OpenIs DEF v
<1>2. DOMAIN v.overlays = DOMAIN u.overlays \cup {o}
      /\ v.overlays[o] = DOMAIN u.overlays \ {o}
      /\ \A x \in DOMAIN u.overlays \ {o} : v.overlays[x] = u.overlays[x] \ {o}
  BY <1>1 DEF With
<1>3. Ordered(v)
  BY <1>2 DEF Ordered
<1>4. Above(v, o)
  BY <1>2 DEF Shows, Above
<1>5. ASSUME NEW d, Above(u, d), o \in {d, "offer"}
      PROVE  Above(v, d)
  BY <1>2, <1>5, <1>4 DEF Shows, Above
<1> QED BY <1>2, <1>3, <1>4, <1>5 DEF Shows, v

(***************************************************************************)
(* compute(), and what a change of the stage shows                         *)
(***************************************************************************)

LEMMA TenOf ==
  ASSUME NEW a, NEW b, NEW c, NEW d, NEW e, NEW g, NEW h, NEW j, NEW k, NEW l, NEW f,
         f = <<a, b, c, d, e, g, h, j, k, l>>
  PROVE  /\ DOMAIN f = 1 .. 10 /\ f[1] = a /\ f[2] = b /\ f[3] = c /\ f[4] = d /\ f[5] = e
         /\ f[6] = g /\ f[7] = h /\ f[8] = j /\ f[9] = k /\ f[10] = l
  OBVIOUS

LEMMA PairOf ==
  ASSUME NEW a, NEW b, NEW t, t = <<a, b>>
  PROVE  t[1] = a /\ t[2] = b
  OBVIOUS

\* The first of ten findings that holds.
LEMMA FirstFinding ==
  ASSUME NEW f, NEW n \in 1 .. 10, DOMAIN f = 1 .. 10,
         f[n][1], \A i \in 1 .. n - 1 : ~f[i][1]
  PROVE  f[CHOOSE i \in DOMAIN f : f[i][1] /\ \A j \in 1 .. i - 1 : ~f[j][1]][2] = f[n][2]
<1> DEFINE First(i) == f[i][1] /\ \A j \in 1 .. i - 1 : ~f[j][1]
<1>1. n \in DOMAIN f /\ First(n)
  OBVIOUS
<1>2. ASSUME NEW i \in DOMAIN f, First(i) PROVE i = n
  <2>1. i \in 1 .. 10
    OBVIOUS
  <2>2. ~(i < n)
    BY <1>2, <2>1
  <2>3. ~(n < i)
    BY <1>2, <2>1
  <2> QED BY <2>1, <2>2, <2>3
<1> HIDE DEF First
<1>3. (CHOOSE i \in DOMAIN f : First(i)) = n
  BY <1>1, <1>2
<1> QED BY <1>3 DEF First

LEMMA ComputeIs ==
  ASSUME NEW u
  PROVE  LET Is(stage) == Compute(u) = stage
         IN  /\ u.failed => Is("Failed")
             /\ ~u.failed /\ u.wine = "game" => Is("Running")
             /\ ~u.failed /\ u.wine = "setup" => Is("SettingUpPrefix")
             /\ ~u.failed /\ u.wine \notin {"game", "setup"} =>
                  /\ u.transfer /\ u.present => Is("Updating")
                  /\ u.transfer /\ ~u.present => Is("Downloading")
                  /\ ~u.transfer /\ ~u.prefix => Is("NeedsPrefix")
                  /\ ~u.transfer /\ u.prefix /\ ~u.present => Is("NeedsDownload")
                  /\ ~u.transfer /\ u.prefix /\ u.present =>
                       /\ u.check # "None" => Is("CheckingUpdate")
                       /\ u.check = "None" /\ u.needed => Is("NeedsUpdate")
                       /\ u.check = "None" /\ ~u.needed => Is("Ready")
<1> DEFINE a == <<u.failed, "Failed">>
           b == <<u.wine = "game", "Running">>
           c == <<u.wine = "setup", "SettingUpPrefix">>
           d == <<u.transfer /\ u.present, "Updating">>
           e == <<u.transfer, "Downloading">>
           g == <<~u.prefix, "NeedsPrefix">>
           h == <<~u.present, "NeedsDownload">>
           j == <<u.check # "None", "CheckingUpdate">>
           k == <<u.needed, "NeedsUpdate">>
           l == <<TRUE, "Ready">>
           f == Findings(u)
<1>1. f = <<a, b, c, d, e, g, h, j, k, l>>
  BY Zenon DEF Findings
<1>2. Compute(u) = f[CHOOSE i \in DOMAIN f : f[i][1] /\ \A n \in 1 .. i - 1 : ~f[n][1]][2]
  BY Zenon DEF Compute
<1>3. /\ a[1] = u.failed /\ b[1] = (u.wine = "game") /\ c[1] = (u.wine = "setup")
      /\ d[1] = (u.transfer /\ u.present) /\ e[1] = u.transfer /\ g[1] = (~u.prefix)
      /\ h[1] = (~u.present) /\ j[1] = (u.check # "None") /\ k[1] = u.needed /\ l[1] = TRUE
  BY Zenon, PairOf
<1>4. /\ a[2] = "Failed" /\ b[2] = "Running" /\ c[2] = "SettingUpPrefix"
      /\ d[2] = "Updating" /\ e[2] = "Downloading" /\ g[2] = "NeedsPrefix"
      /\ h[2] = "NeedsDownload" /\ j[2] = "CheckingUpdate" /\ k[2] = "NeedsUpdate" /\ l[2] = "Ready"
  BY Zenon, PairOf
<1> HIDE DEF a, b, c, d, e, g, h, j, k, l, f
<1>5. /\ DOMAIN f = 1 .. 10 /\ f[1] = a /\ f[2] = b /\ f[3] = c /\ f[4] = d /\ f[5] = e
      /\ f[6] = g /\ f[7] = h /\ f[8] = j /\ f[9] = k /\ f[10] = l
  BY <1>1, TenOf
<1> DEFINE First(n) == f[n][1] /\ \A i \in 1 .. n - 1 : ~f[i][1]
<1>6. ASSUME NEW n \in 1 .. 10, First(n) PROVE Compute(u) = f[n][2]
  BY <1>2, <1>5, <1>6, FirstFinding
<1>7. 1 .. 10 = {1, 2, 3, 4, 5, 6, 7, 8, 9, 10}
      /\ 1 .. 1 - 1 = {} /\ 1 .. 2 - 1 = {1} /\ 1 .. 3 - 1 = {1, 2} /\ 1 .. 4 - 1 = {1, 2, 3}
      /\ 1 .. 5 - 1 = {1, 2, 3, 4} /\ 1 .. 6 - 1 = {1, 2, 3, 4, 5}
      /\ 1 .. 7 - 1 = {1, 2, 3, 4, 5, 6} /\ 1 .. 8 - 1 = {1, 2, 3, 4, 5, 6, 7}
      /\ 1 .. 9 - 1 = {1, 2, 3, 4, 5, 6, 7, 8} /\ 1 .. 10 - 1 = {1, 2, 3, 4, 5, 6, 7, 8, 9}
  OBVIOUS
<1>8. /\ a[1] => First(1)
      /\ ~a[1] /\ b[1] => First(2)
      /\ ~a[1] /\ ~b[1] /\ c[1] => First(3)
      /\ ~a[1] /\ ~b[1] /\ ~c[1] /\ d[1] => First(4)
      /\ ~a[1] /\ ~b[1] /\ ~c[1] /\ ~d[1] /\ e[1] => First(5)
      /\ ~a[1] /\ ~b[1] /\ ~c[1] /\ ~d[1] /\ ~e[1] /\ g[1] => First(6)
      /\ ~a[1] /\ ~b[1] /\ ~c[1] /\ ~d[1] /\ ~e[1] /\ ~g[1] /\ h[1] => First(7)
      /\ ~a[1] /\ ~b[1] /\ ~c[1] /\ ~d[1] /\ ~e[1] /\ ~g[1] /\ ~h[1] /\ j[1] => First(8)
      /\ ~a[1] /\ ~b[1] /\ ~c[1] /\ ~d[1] /\ ~e[1] /\ ~g[1] /\ ~h[1] /\ ~j[1] /\ k[1] => First(9)
      /\ ~a[1] /\ ~b[1] /\ ~c[1] /\ ~d[1] /\ ~e[1] /\ ~g[1] /\ ~h[1] /\ ~j[1] /\ ~k[1] /\ l[1]
           => First(10)
  BY <1>5, <1>7
<1> HIDE DEF First
<1>9. /\ First(1) => Compute(u) = "Failed"
      /\ First(2) => Compute(u) = "Running"
      /\ First(3) => Compute(u) = "SettingUpPrefix"
      /\ First(4) => Compute(u) = "Updating"
      /\ First(5) => Compute(u) = "Downloading"
      /\ First(6) => Compute(u) = "NeedsPrefix"
      /\ First(7) => Compute(u) = "NeedsDownload"
      /\ First(8) => Compute(u) = "CheckingUpdate"
      /\ First(9) => Compute(u) = "NeedsUpdate"
      /\ First(10) => Compute(u) = "Ready"
  BY <1>4, <1>5, <1>6
<1> QED BY <1>3, <1>8, <1>9

LEMMA ViewIs ==
  /\ View("NeedsDownload") = "install" /\ View("NeedsPrefix") = "setup"
  /\ View("SettingUpPrefix") = "setup" /\ View("Downloading") = "loading"
  /\ View("Updating") = "loading" /\ View("Failed") = "error" /\ View("Running") = "chooser"
  /\ View("CheckingUpdate") = "chooser" /\ View("NeedsUpdate") = "chooser"
  /\ View("Ready") = "chooser"
  BY DEF View

\* All but what follows a change of the stage.
Staged(u, v) ==
  /\ v.config = u.config /\ v.game = u.game /\ v.key = u.key /\ v.checked = u.checked
  /\ v.pending = u.pending /\ v.repairing = u.repairing /\ v.installing = u.installing
  /\ v.purpose = u.purpose /\ v.prefix = u.prefix /\ v.present = u.present
  /\ v.failed = u.failed /\ v.needed = u.needed /\ v.check = u.check /\ v.op = u.op
  /\ v.transfer = u.transfer /\ v.dialog = u.dialog /\ v.active = u.active
  /\ v.running = u.running /\ v.posted = u.posted

LEMMA StagedWork ==
  ASSUME NEW u, NEW v, NEW p, Staged(u, v), Work(u, p), Reported(u, p)
  PROVE  Work(v, p) /\ Reported(v, p)
  BY DEF Staged, Work, CheckHolds, TransferHolds, Holds, Waited, Reported, Coming

LEMMA BesideStaged ==
  ASSUME NEW u, NEW v, Beside(u, v)
  PROVE  Staged(u, v)
  BY DEF Staged, Beside

LEMMA BesideSound ==
  ASSUME NEW u, NEW v, NEW p, Beside(u, v), v \in Uis, Sound(u, p), Layers(v, p)
  PROVE  Sound(v, p)
<1>1. Place(v)
  BY DEF Beside, Sound, Place
<1> QED BY <1>1, BesideStaged, StagedWork DEF Sound

\* An overlay may be closed unless its dialog has an operation.
LEMMA CloseLayers ==
  ASSUME NEW u \in Uis, NEW p, NEW o \in Overlays, Layers(u, p), o \in Dialogs => ~Holds(u, p, o)
  PROVE  Layers(Close(u, o), p)
<1> DEFINE v == Close(u, o)
<1>1. Beside(u, v) /\ v \in Uis
  BY CloseIs
<1>2. /\ Ordered(v)
      /\ \A x : Shows(v, x) <=> Shows(u, x) /\ x # o
      /\ \A x : Shows(u, x) /\ x # o => v.overlays[x] = u.overlays[x] \ {o}
      /\ \A d : Above(u, d) /\ d # o => Above(v, d)
  BY CloseShows DEF Layers
<1> HIDE DEF v
<1>3. \A d \in Dialogs : Holds(v, p, d) <=> Holds(u, p, d)
  BY <1>1 DEF Holds, Beside
<1>4. \A d \in Dialogs : Holds(v, p, d) => Above(v, d)
  BY <1>2, <1>3 DEF Layers
<1>5. Holds(v, p, "install") => v.installing
  BY <1>1, <1>3 DEF Layers, Beside, Dialogs
<1>6. Shows(v, "repair") /\ Shows(v, "files") => "repair" \in v.overlays["files"]
  BY <1>2 DEF Layers
<1> QED BY <1>1, <1>2, <1>4, <1>5, <1>6 DEF Layers, Beside, v

\* An overlay may be opened where it belongs.
MayOpen(u, p, o) ==
  /\ \A d \in Dialogs : Holds(u, p, d) => o \in {d, "offer"}
  /\ o \in {"update", "install"} => u.wine = "idle" /\ ~u.failed /\ ~Shows(u, "setup")
  /\ o = "update" => u.prefix /\ world.prefix
  /\ o = "install" => (u.present /\ u.prefix => world.prefix)
  /\ o \in {"install", "setup"} => u.view # "chooser"
  /\ o = "setup" => ~Shows(u, "update") /\ ~Shows(u, "install")
  /\ o = "files" => u.game \in u.pending
  /\ o = "repair" => ~Shows(u, "files")

LEMMA OpenLayers ==
  ASSUME NEW u \in Uis, NEW p, NEW o \in Overlays, Layers(u, p), MayOpen(u, p, o)
  PROVE  Layers(Open(u, o), p)
<1> DEFINE v == Open(u, o)
<1>1. Beside(u, v) /\ v \in Uis
  BY OpenIs
<1>2. /\ Ordered(v)
      /\ \A x : Shows(v, x) <=> Shows(u, x) \/ x = o
      /\ v.overlays[o] = DOMAIN u.overlays \ {o}
      /\ \A x : Shows(u, x) /\ x # o => v.overlays[x] = u.overlays[x] \ {o}
      /\ \A d : Above(u, d) /\ o \in {d, "offer"} => Above(v, d)
  BY OpenShows DEF Layers
<1> HIDE DEF v
<1>3. \A d \in Dialogs : Holds(v, p, d) <=> Holds(u, p, d)
  BY <1>1 DEF Holds, Beside
<1>4. \A d \in Dialogs : Holds(v, p, d) => Above(v, d)
  BY <1>2, <1>3 DEF Layers, MayOpen
<1>5. Holds(v, p, "install") => v.installing
  BY <1>1, <1>3 DEF Layers, Beside, Dialogs
<1>6. Shows(v, "repair") /\ Shows(v, "files") => "repair" \in v.overlays["files"]
  BY <1>2 DEF Layers, MayOpen, Shows
<1>7. /\ Shows(v, "update") => v.prefix /\ world.prefix
      /\ v.wine # "idle" \/ v.failed => ~Shows(v, "update") /\ ~Shows(v, "install")
      /\ Shows(v, "setup") => ~Shows(v, "update") /\ ~Shows(v, "install")
      /\ Shows(v, "files") => v.game \in v.pending
      /\ v.view = "chooser" => ~Shows(v, "setup") /\ ~Shows(v, "install")
  BY <1>1, <1>2 DEF Layers, MayOpen, Beside
<1> QED BY <1>2, <1>4, <1>5, <1>6, <1>7 DEF Layers, v

\* Who has an operation, by the stage.
LEMMA Holders ==
  ASSUME NEW u \in Uis, NEW p, NEW d \in Dialogs, Work(u, p), Fits(u), Holds(u, p, d)
  PROVE  \/ d = "update" /\ u.stage = "CheckingUpdate" /\ u.check # "None" /\ u.dialog[d].observing
         \/ ~u.dialog[d].observing /\ u.transfer /\ u.check = "None"
              /\ u.stage \in {"Updating", "Downloading", "Failed"}
<1>1. CASE u.dialog[d].observing
  <2>1. d = "update"
    BY <1>1 DEF Work, CheckHolds, Dialogs
  <2>2. u.check # "None"
    BY <1>1, <2>1 DEF Work, CheckHolds, Holds
  <2> QED BY <1>1, <2>1, <2>2 DEF Fits
<1>2. CASE ~u.dialog[d].observing
  <2>1. u.transfer /\ u.check = "None"
    BY <1>2 DEF Work, TransferHolds
  <2> QED BY <1>2, <2>1 DEF Fits, Uis
<1> QED BY <1>1, <1>2

\* The same overlays over the same window, whatever view lies under them.
LEMMA LayersKept ==
  ASSUME NEW u, NEW v, NEW p, Layers(u, p), Staged(u, v), v.overlays = u.overlays,
         v.wine = u.wine \/ (~Shows(v, "update") /\ ~Shows(v, "install")),
         v.view = "chooser" => ~Shows(v, "setup") /\ ~Shows(v, "install")
  PROVE  Layers(v, p)
<1>1. (\A o : Shows(v, o) <=> Shows(u, o)) /\ (\A d : Holds(v, p, d) <=> Holds(u, p, d))
  BY DEF Shows, Holds, Staged
<1> QED BY <1>1 DEF Layers, Ordered, Above, Staged

LEMMA Closing ==
  ASSUME NEW u \in Uis, NEW p, NEW o \in Overlays, Layers(u, p), o \in Dialogs => ~Holds(u, p, o)
  PROVE  /\ Close(u, o) \in Uis /\ Beside(u, Close(u, o)) /\ Layers(Close(u, o), p)
         /\ \A x : Shows(Close(u, o), x) <=> Shows(u, x) /\ x # o
         /\ Close(u, o).overlays = Without(u.overlays, o)
<1>1. Close(u, o) \in Uis /\ Beside(u, Close(u, o)) /\ Close(u, o).overlays = Without(u.overlays, o)
  BY CloseIs
<1>2. \A x : Shows(Close(u, o), x) <=> Shows(u, x) /\ x # o
  BY CloseShows DEF Layers
<1>3. Layers(Close(u, o), p)
  BY CloseLayers
<1> QED BY <1>1, <1>2, <1>3

LEMMA Opening ==
  ASSUME NEW u \in Uis, NEW p, NEW o \in Overlays, Layers(u, p), MayOpen(u, p, o)
  PROVE  /\ Open(u, o) \in Uis /\ Beside(u, Open(u, o)) /\ Layers(Open(u, o), p)
         /\ \A x : Shows(Open(u, o), x) <=> Shows(u, x) \/ x = o
         /\ Above(Open(u, o), o)
<1>1. Open(u, o) \in Uis /\ Beside(u, Open(u, o))
  BY OpenIs
<1>2. (\A x : Shows(Open(u, o), x) <=> Shows(u, x) \/ x = o) /\ Above(Open(u, o), o)
  BY OpenShows DEF Layers
<1>3. Layers(Open(u, o), p)
  BY OpenLayers
<1> QED BY <1>1, <1>2, <1>3

LEMMA ShowViewIs ==
  ASSUME NEW u \in Uis, NEW p, Sound(u, p), Fits(u)
  PROVE  LET v == ShowView(u)
         IN  /\ Sound(v, p) /\ Fits(v) /\ Staged(u, v) /\ v.view = View(u.stage)
             /\ v.stage = u.stage /\ v.launch = u.launch /\ v.suspended = u.suspended
             /\ v.wine = u.wine
             /\ \A o \in {"update", "repair", "files", "offer"} : Shows(v, o) <=> Shows(u, o)
             /\ Shows(v, "install") => Shows(u, "install") \/ ~u.present
<1> DEFINE view == View(u.stage)
           w == [u EXCEPT !.view = view]
           Fine(v) == /\ v \in Uis /\ Layers(v, p) /\ Beside(w, v)
                      /\ \A o \in {"update", "repair", "files", "offer"} : Shows(v, o) <=> Shows(u, o)
                      /\ Shows(v, "install") => Shows(u, "install") \/ u.stage = "NeedsDownload"
<1>1. u.stage \in Stages /\ view \in {"install", "setup", "loading", "error", "chooser"}
  BY ViewIs DEF Uis, Stages
<1>2. /\ view = "install" <=> u.stage = "NeedsDownload"
      /\ view = "setup" <=> u.stage \in {"NeedsPrefix", "SettingUpPrefix"}
      /\ view = "chooser" <=> u.stage \in {"Running", "CheckingUpdate", "NeedsUpdate", "Ready"}
  BY <1>1, ViewIs DEF Stages
<1> HIDE DEF view
<1>3. /\ w \in Uis /\ w.view = view /\ Staged(u, w) /\ w.overlays = u.overlays
      /\ w.stage = u.stage /\ w.launch = u.launch /\ w.suspended = u.suspended /\ w.wine = u.wine
  BY <1>1 DEF Uis, Staged
<1>4. Layers(u, p) /\ Work(u, p) /\ Place(u) /\ Reported(u, p)
  BY DEF Sound
<1> HIDE DEF w
<1>5. (\A o : Shows(w, o) <=> Shows(u, o)) /\ (\A d : Holds(w, p, d) <=> Holds(u, p, d))
  BY <1>3 DEF Shows, Holds, Staged
<1>6. SUFFICES Fine(ShowView(u))
  <2> DEFINE v == ShowView(u)
  <2>1. Fine(v)
    BY <1>6
  <2> HIDE DEF v
  <2>2. Staged(u, v)
    BY <2>1, <1>3 DEF Beside, Staged
  <2>3. Work(v, p) /\ Reported(v, p)
    BY <2>2, <1>4, StagedWork
  <2>4. Place(v)
    BY <2>1, <2>2, <1>3, <1>4 DEF Place, Beside, Staged
  <2>5. Fits(v)
    BY <2>1, <2>2, <1>3 DEF Fits, Beside, Staged
  <2>6. u.stage = "NeedsDownload" => ~u.present
    BY DEF Fits
  <2> QED BY <2>1, <2>2, <2>3, <2>4, <2>5, <2>6, <1>3 DEF Sound, Beside, view, v
<1>7. CASE view = u.view
  <2>1. ShowView(u) = u
    BY <1>7 DEF ShowView, view
  <2>2. Beside(w, u)
    BY <1>3, <1>7 DEF Beside, Staged
  <2> QED BY <2>1, <2>2, <1>4
<1>8. CASE view # u.view /\ view = "install"
  <2>1. ShowView(u) = Open(Close(w, "setup"), "install")
    BY <1>8 DEF ShowView, view, w
  <2>2. Layers(w, p)
    BY <1>3, <1>4, <1>8, LayersKept
  <2> DEFINE v == Close(w, "setup")
  <2>3. /\ v \in Uis /\ Beside(w, v) /\ Layers(v, p)
        /\ \A x : Shows(v, x) <=> Shows(w, x) /\ x # "setup"
    BY <1>3, <2>2, Closing DEF Overlays, Dialogs
  <2> HIDE DEF v
  <2>4. u.stage = "NeedsDownload" /\ u.wine = "idle" /\ ~u.failed /\ ~u.present
    BY <1>2, <1>8 DEF Fits, Uis
  <2>5. \A d \in Dialogs : ~Holds(v, p, d)
    BY <2>3, <2>4, <1>4, <1>5, Holders DEF Holds, Beside
  <2>6. MayOpen(v, p, "install")
    BY <2>3, <2>4, <2>5, <1>3, <1>8 DEF MayOpen, Beside, Staged
  <2>7. /\ Open(v, "install") \in Uis /\ Beside(v, Open(v, "install"))
        /\ Layers(Open(v, "install"), p)
        /\ \A x : Shows(Open(v, "install"), x) <=> Shows(v, x) \/ x = "install"
    BY <2>3, <2>6, Opening DEF Overlays, Dialogs
  <2>8. Beside(w, Open(v, "install"))
    BY <2>3, <2>7 DEF Beside
  <2> QED BY <2>1, <2>3, <2>4, <2>7, <2>8, <1>5 DEF v
<1>9. CASE view # u.view /\ view = "setup"
  <2>1. ShowView(u) = Open(Close(w, "install"), "setup")
    BY <1>9 DEF ShowView, view, w
  <2>2. Layers(w, p)
    BY <1>3, <1>4, <1>9, LayersKept
  <2> DEFINE v == Close(w, "install")
  <2>3. u.stage \in {"NeedsPrefix", "SettingUpPrefix"} /\ ~Shows(u, "update")
    BY <1>2, <1>4, <1>9 DEF Fits, Layers
  <2>4. \A d \in Dialogs : ~Holds(u, p, d)
    BY <2>3, <1>4, Holders
  <2>5. /\ v \in Uis /\ Beside(w, v) /\ Layers(v, p)
        /\ \A x : Shows(v, x) <=> Shows(w, x) /\ x # "install"
    BY <1>3, <1>5, <2>2, <2>4, Closing DEF Overlays, Dialogs
  <2> HIDE DEF v
  <2>6. MayOpen(v, p, "setup")
    BY <2>3, <2>4, <2>5, <1>3, <1>5, <1>9 DEF MayOpen, Beside, Staged, Holds
  <2>7. /\ Open(v, "setup") \in Uis /\ Beside(v, Open(v, "setup")) /\ Layers(Open(v, "setup"), p)
        /\ \A x : Shows(Open(v, "setup"), x) <=> Shows(v, x) \/ x = "setup"
    BY <2>5, <2>6, Opening DEF Overlays
  <2>8. Beside(w, Open(v, "setup"))
    BY <2>5, <2>7 DEF Beside
  <2> QED BY <2>1, <2>5, <2>7, <2>8, <1>5 DEF v
<1>10. CASE view # u.view /\ view = "chooser"
  <2> DEFINE u1 == Close(u, "setup")
             u2 == Close(u1, "install")
             w1 == Close(w, "setup")
             w2 == Close(w1, "install")
  <2>1. ShowView(u) = w2
    BY <1>10 DEF ShowView, view, w
  <2>2. ~Holds(u, p, "install")
    BY <1>2, <1>4, <1>10, Holders DEF Dialogs
  <2>3. u1 \in Uis /\ Beside(u, u1) /\ Layers(u1, p) /\ u1.overlays = Without(u.overlays, "setup")
    BY <1>4, Closing DEF Overlays, Dialogs
  <2>4. w1 \in Uis /\ Beside(w, w1) /\ w1.overlays = Without(w.overlays, "setup")
    BY <1>3, CloseIs DEF Overlays
  <2> HIDE DEF u1, w1
  <2>5. /\ u2 \in Uis /\ Beside(u1, u2) /\ Layers(u2, p)
        /\ u2.overlays = Without(u1.overlays, "install")
    BY <2>2, <2>3, Closing DEF Overlays, Dialogs, Holds, Beside
  <2>6. w2 \in Uis /\ Beside(w1, w2) /\ w2.overlays = Without(w1.overlays, "install")
    BY <2>4, CloseIs DEF Overlays, Dialogs
  <2> HIDE DEF u2, w2
  <2>7. Beside(w, w2) /\ Staged(u2, w2) /\ w2.wine = u2.wine
    BY <2>3, <2>4, <2>5, <2>6, <1>3 DEF Beside, Staged
  <2>8. w2.overlays = u2.overlays /\ w2.overlays = Without(Without(u.overlays, "setup"), "install")
    BY <2>3, <2>4, <2>5, <2>6, <1>3
  <2>9. \A o : Shows(w2, o) <=> Shows(u, o) /\ o \notin {"setup", "install"}
    BY <2>8 DEF Shows, Without
  <2>10. Layers(w2, p)
    BY <2>5, <2>7, <2>8, <2>9, LayersKept
  <2> QED BY <2>1, <2>6, <2>7, <2>9, <2>10
<1>11. CASE view # u.view /\ view \in {"loading", "error"}
  <2>1. ShowView(u) = w
    BY <1>11 DEF ShowView, view, w
  <2>2. Layers(w, p)
    BY <1>3, <1>4, <1>11, LayersKept
  <2> QED BY <2>1, <2>2, <1>3, <1>5 DEF Beside
<1> QED BY <1>1, <1>7, <1>8, <1>9, <1>10, <1>11

\* What a change of the stage does, from a value that fits the new stage.
Moved(u, v, p) ==
  /\ Sound(v, p) /\ Fits(v) /\ Staged(u, v)
  /\ \A o \in {"repair", "files", "offer"} : Shows(v, o) <=> Shows(u, o)
  /\ Shows(v, "install") => Shows(u, "install") \/ ~u.present
  /\ Shows(v, "update") => Shows(u, "update")
  /\ v.launch => u.launch
  /\ v.wine # u.wine => /\ u.launch /\ v.wine = "game" /\ ~v.launch

Changed(u, v, p) == Moved(u, v, p) /\ Followed(v)

LEMMA SuspendIs ==
  ASSUME NEW u \in Uis
  PROVE  /\ Suspend(u) = [u EXCEPT !.suspended = u.repairing \/ u.stage \in {"Downloading", "Updating"}]
         /\ (u.repairing \/ u.stage \in {"Downloading", "Updating"}) \in BOOLEAN
  BY DEF Suspend, Uis

LEMMA RunGameIs ==
  ASSUME NEW u \in Uis, NEW p, Sound(u, p), Fits(u), u.launch, u.stage = "Ready"
  PROVE  /\ Changed(u, RunGame(u), p) /\ Viewed(RunGame(u)) /\ RunGame(u).wine = "game"
<1> DEFINE a == Close(u, "update")
           b == [a EXCEPT !.launch = FALSE, !.wine = "game", !.stage = "Running"]
           c == Suspend(b)
           v == ShowView(c)
<1>1. RunGame(u) = v
  BY DEF RunGame
<1>2. Layers(u, p) /\ Work(u, p) /\ Place(u) /\ Reported(u, p)
  BY DEF Sound
<1>3. /\ u.wine = "idle" /\ ~u.failed /\ ~u.transfer /\ u.check = "None" /\ u.prefix /\ u.present
      /\ ~u.repairing /\ world.prefix
  BY <1>2 DEF Fits, Place, Uis
<1>4. \A d \in Dialogs : ~Holds(u, p, d)
  BY <1>2, <1>3, Holders
<1>5. /\ a \in Uis /\ Beside(u, a) /\ Layers(a, p)
      /\ \A x : Shows(a, x) <=> Shows(u, x) /\ x # "update"
  BY <1>2, <1>4, Closing DEF Overlays, Dialogs
<1> HIDE DEF a
<1>6. /\ b \in Uis /\ Staged(a, b) /\ b.overlays = a.overlays /\ b.launch = FALSE /\ b.wine = "game"
      /\ b.stage = "Running" /\ b.view = a.view
  BY <1>5 DEF Uis, Staged, Stages
<1>7. c = [b EXCEPT !.suspended = FALSE]
  <2>1. b.repairing = FALSE
    BY <1>3, <1>5, <1>6 DEF Beside, Staged, Uis
  <2>2. (b.repairing \/ b.stage \in {"Downloading", "Updating"}) = FALSE
    BY <2>1, <1>6
  <2> QED BY <2>2 DEF Suspend
<1> HIDE DEF b, c
<1>8. /\ c \in Uis /\ Staged(a, c) /\ c.overlays = a.overlays /\ c.launch = FALSE /\ c.wine = "game"
      /\ c.stage = "Running" /\ c.view = a.view /\ c.suspended = FALSE
  BY <1>6, <1>7 DEF Uis, Staged
<1>9. SUFFICES /\ v \in Uis /\ Staged(a, v) /\ v.launch = FALSE /\ v.wine = "game"
               /\ v.stage = "Running" /\ v.view = "chooser" /\ Layers(v, p)
               /\ \A x : Shows(v, x) <=> Shows(u, x) /\ x \notin {"update", "setup", "install"}
  <2> HIDE DEF v
  <2>1. Staged(u, v)
    BY <1>5, <1>9 DEF Staged, Beside
  <2>2. Work(v, p) /\ Reported(v, p)
    BY <2>1, <1>2, StagedWork
  <2>3. Place(v) /\ Fits(v) /\ Followed(v) /\ Viewed(v)
    BY <2>1, <1>2, <1>3, <1>9, ViewIs DEF Staged, Place, Fits, Followed, Viewed
  <2> QED BY <2>1, <2>2, <2>3, <1>1, <1>3, <1>9 DEF Sound, Changed, Moved
<1>10. CASE c.view = "chooser"
  <2>1. v = c
    BY <1>8, <1>10, ViewIs DEF ShowView
  <2>2. ~Shows(a, "setup") /\ ~Shows(a, "install")
    BY <1>5, <1>8, <1>10 DEF Layers
  <2>3. \A x : Shows(c, x) <=> Shows(a, x)
    BY <1>8 DEF Shows
  <2>4. Layers(c, p)
    BY <1>5, <1>8, <2>2, <2>3, LayersKept
  <2> QED BY <2>1, <2>2, <2>3, <2>4, <1>5, <1>8, <1>10
<1>11. CASE c.view # "chooser"
  <2> DEFINE w  == [c EXCEPT !.view = "chooser"]
             a1 == Close(a, "setup")
             a2 == Close(a1, "install")
             w1 == Close(w, "setup")
             w2 == Close(w1, "install")
  <2>1. v = w2
    BY <1>8, <1>11, ViewIs DEF ShowView
  <2>2. /\ w \in Uis /\ w.view = "chooser" /\ Staged(a, w) /\ w.overlays = a.overlays
        /\ w.launch = FALSE /\ w.wine = "game" /\ w.stage = "Running"
    BY <1>8 DEF Uis, Staged
  <2> HIDE DEF w, v
  <2>3. a1 \in Uis /\ Beside(a, a1) /\ Layers(a1, p) /\ a1.overlays = Without(a.overlays, "setup")
    BY <1>5, Closing DEF Overlays, Dialogs
  <2>4. w1 \in Uis /\ Beside(w, w1) /\ w1.overlays = Without(w.overlays, "setup")
    BY <2>2, CloseIs DEF Overlays
  <2> HIDE DEF a1, w1
  <2>5. ~Holds(a1, p, "install")
    BY <1>4, <1>5, <2>3 DEF Holds, Beside, Dialogs
  <2>6. /\ a2 \in Uis /\ Beside(a1, a2) /\ Layers(a2, p)
        /\ a2.overlays = Without(a1.overlays, "install")
    BY <2>3, <2>5, Closing DEF Overlays, Dialogs
  <2>7. w2 \in Uis /\ Beside(w1, w2) /\ w2.overlays = Without(w1.overlays, "install")
    BY <2>4, CloseIs DEF Overlays, Dialogs
  <2> HIDE DEF a2, w2
  <2>8. Beside(w, w2) /\ Staged(a, w2) /\ Staged(a2, w2)
    BY <2>2, <2>3, <2>4, <2>6, <2>7 DEF Beside, Staged
  <2>9. w2.overlays = a2.overlays /\ w2.overlays = Without(Without(a.overlays, "setup"), "install")
    BY <2>2, <2>3, <2>4, <2>6, <2>7
  <2>10. \A o : Shows(w2, o) <=> Shows(a, o) /\ o \notin {"setup", "install"}
    BY <2>9 DEF Shows, Without
  <2>11. Layers(w2, p)
    BY <1>5, <2>6, <2>8, <2>9, <2>10, LayersKept
  <2> QED BY <2>1, <2>2, <2>7, <2>8, <2>10, <2>11, <1>5 DEF Beside
<1> QED BY <1>10, <1>11

LEMMA StageChangedIs ==
  ASSUME NEW u \in Uis, NEW p, Sound(u, p), Fits(u)
  PROVE  LET v == StageChanged(u)
         IN  /\ Changed(u, v, p) /\ Viewed(v)
             /\ v.wine # u.wine => u.stage = "Ready"
<1> DEFINE s == Suspend(u)
           t == [s EXCEPT !.launch = @ /\ s.stage \in LaunchSurvives]
           v == IF t.stage = "Ready" /\ t.dialog["update"].observing THEN Close(t, "update") ELSE t
           r == StageChanged(u)
<1>1. PICK b \in BOOLEAN : b <=> (u.repairing \/ u.stage \in {"Downloading", "Updating"})
  OBVIOUS
<1>2. s = [u EXCEPT !.suspended = b]
  <2>1. b = (u.repairing \/ u.stage \in {"Downloading", "Updating"})
    BY <1>1, SuspendIs
  <2> QED BY <2>1 DEF Suspend
<1>3. r = IF s.launch /\ s.stage = "Ready" THEN RunGame(s)
          ELSE IF v.repairing /\ Shows(v, "repair") THEN v
          ELSE ShowView(v)
  BY Zenon DEF StageChanged
<1> HIDE DEF s
<1>4. /\ s \in Uis /\ Staged(u, s) /\ s.overlays = u.overlays /\ s.launch = u.launch
      /\ s.wine = u.wine /\ s.stage = u.stage /\ s.view = u.view /\ s.suspended = b
  BY <1>1, <1>2 DEF Uis, Staged
<1>5. Layers(u, p) /\ Work(u, p) /\ Place(u) /\ Reported(u, p)
  BY DEF Sound
<1>6. Sound(s, p) /\ Fits(s)
  <2>1. Work(s, p) /\ Reported(s, p)
    BY <1>4, <1>5, StagedWork
  <2>2. \A o : Shows(s, o) <=> Shows(u, o)
    BY <1>4 DEF Shows
  <2>3. Layers(s, p)
    BY <1>4, <1>5, <2>2, LayersKept DEF Layers
  <2>4. Place(s) /\ Fits(s)
    BY <1>4, <1>5, <2>2 DEF Place, Fits, Staged
  <2> QED BY <1>4, <2>1, <2>3, <2>4 DEF Sound
<1>7. CASE s.launch /\ s.stage = "Ready"
  <2>1. Changed(s, r, p) /\ Viewed(r) /\ r.wine = "game"
    BY <1>3, <1>4, <1>6, <1>7, RunGameIs
  <2> HIDE DEF r
  <2>2. Changed(u, r, p)
    BY <2>1, <1>4 DEF Changed, Moved, Staged, Shows
  <2> QED BY <2>1, <2>2, <1>4, <1>7 DEF r
<1>8. CASE ~(s.launch /\ s.stage = "Ready")
  <2>1. PICK l \in BOOLEAN : l = (s.launch /\ s.stage \in LaunchSurvives)
    OBVIOUS
  <2>2. t = [s EXCEPT !.launch = l]
    BY <2>1
  <2> HIDE DEF t
  <2>3. /\ t \in Uis /\ Staged(s, t) /\ t.overlays = s.overlays /\ t.launch = l
        /\ t.wine = s.wine /\ t.stage = s.stage /\ t.view = s.view /\ t.suspended = s.suspended
    BY <1>4, <2>2 DEF Uis, Staged
  <2>4. Sound(t, p) /\ Fits(t) /\ Followed(t)
    <3>1. Work(t, p) /\ Reported(t, p)
      BY <2>3, <1>6, StagedWork DEF Sound
    <3>2. \A o : Shows(t, o) <=> Shows(s, o)
      BY <2>3 DEF Shows
    <3>3. Layers(t, p)
      BY <2>3, <1>6, <3>2, LayersKept DEF Layers, Sound
    <3>4. Fits(t)
      BY <2>3, <1>6, <3>2 DEF Fits, Staged
    <3>6. (t.launch => s.launch) /\ Place(s)
      BY <2>1, <2>3, <1>6 DEF Sound
    <3>7. Place(t)
      BY <2>3, <3>6 DEF Place, Staged
    <3>5. Followed(t)
      BY <2>1, <2>3, <1>1, <1>4 DEF Followed, LaunchSurvives, Staged
    <3> QED BY <2>3, <3>1, <3>3, <3>4, <3>5, <3>7 DEF Sound
  <2>5. /\ v \in Uis /\ Sound(v, p) /\ Fits(v) /\ Beside(t, v)
        /\ \A o : Shows(v, o) => Shows(t, o)
        /\ \A o : o # "update" /\ Shows(t, o) => Shows(v, o)
    <3>1. CASE t.stage = "Ready" /\ t.dialog["update"].observing
      <4>1. ~Holds(t, p, "update")
        BY <2>4, <3>1, Holders DEF Sound, Dialogs
      <4>2. /\ v \in Uis /\ Beside(t, v) /\ Layers(v, p)
            /\ \A x : Shows(v, x) <=> Shows(t, x) /\ x # "update"
        BY <2>3, <2>4, <3>1, <4>1, Closing DEF Overlays, Dialogs, Sound
      <4> HIDE DEF v
      <4>3. Sound(v, p)
        BY <4>2, <2>4, BesideSound
      <4>4. Fits(v)
        BY <4>2, <2>4 DEF Fits, Beside
      <4> QED BY <4>2, <4>3, <4>4
    <3>2. CASE ~(t.stage = "Ready" /\ t.dialog["update"].observing)
      BY <3>2, <2>3, <2>4 DEF Beside
    <3> QED BY <3>1, <3>2
  <2> HIDE DEF v
  <2>6. Changed(u, v, p) /\ v.wine = u.wine
    <3>1. Staged(u, v)
      BY <1>4, <2>3, <2>5 DEF Staged, Beside
    <3>2. Followed(v)
      BY <2>4, <2>5 DEF Followed, Beside
    <3>3. \A o : Shows(t, o) <=> Shows(u, o)
      BY <2>3, <1>4 DEF Shows
    <3>4. (v.launch => u.launch) /\ v.wine = u.wine
      BY <2>1, <2>3, <2>5, <1>4 DEF Beside
    <3> QED BY <3>1, <3>2, <3>3, <3>4, <2>5 DEF Changed, Moved
  <2>7. CASE v.repairing /\ Shows(v, "repair")
    BY <1>3, <1>8, <2>6, <2>7 DEF Viewed
  <2>8. CASE ~(v.repairing /\ Shows(v, "repair"))
    <3> DEFINE w == ShowView(v)
    <3>1. /\ Sound(w, p) /\ Fits(w) /\ Staged(v, w) /\ w.view = View(v.stage)
          /\ w.stage = v.stage /\ w.launch = v.launch /\ w.suspended = v.suspended
          /\ w.wine = v.wine
          /\ \A o \in {"update", "repair", "files", "offer"} : Shows(w, o) <=> Shows(v, o)
          /\ Shows(w, "install") => Shows(v, "install") \/ ~v.present
      BY <2>5, ShowViewIs
    <3> HIDE DEF w
    <3>2. Changed(u, w, p) /\ Viewed(w) /\ w.wine = u.wine
      <4>1. Staged(u, w)
        BY <3>1, <2>6 DEF Changed, Moved, Staged
      <4>2. Followed(w) /\ Viewed(w)
        BY <3>1, <2>6 DEF Changed, Moved, Staged, Followed, Viewed
      <4> QED BY <4>1, <4>2, <3>1, <2>6 DEF Changed, Moved, Staged
    <3> QED BY <1>3, <1>8, <2>8, <3>2 DEF w
  <2> QED BY <2>7, <2>8
<1> QED BY <1>7, <1>8

LEMMA ComputedFits ==
  ASSUME NEW u \in Uis, NEW p, Sound(u, p), Updatable(u), u.stage = Compute(u)
  PROVE  /\ Fits(u) /\ (u.stage = "Ready" => ~u.transfer /\ u.check = "None" /\ ~u.needed)
<1>1. Work(u, p) /\ Place(u) /\ Layers(u, p)
  BY DEF Sound
<1>2. u.wine \in {"idle", "setup", "game"}
  BY DEF Uis
<1>3. CASE u.failed
  BY <1>1, <1>3, ComputeIs DEF Fits, Place, Layers, Updatable
<1>4. CASE ~u.failed /\ u.wine # "idle"
  <2>1. u.stage = IF u.wine = "game" THEN "Running" ELSE "SettingUpPrefix"
    BY <1>2, <1>4, ComputeIs
  <2> QED BY <1>1, <1>2, <1>4, <2>1 DEF Fits, Place, Layers, Updatable
<1>5. CASE ~u.failed /\ u.wine = "idle" /\ u.transfer
  <2>1. u.stage = IF u.present THEN "Updating" ELSE "Downloading"
    BY <1>5, ComputeIs
  <2>2. u.check = "None"
    BY <1>1, <1>5 DEF Work, TransferHolds
  <2> QED BY <1>1, <1>5, <2>1, <2>2 DEF Fits, Place, Layers, Updatable
<1>6. CASE ~u.failed /\ u.wine = "idle" /\ ~u.transfer
  <2>1. u.stage = IF ~u.prefix THEN "NeedsPrefix" ELSE IF ~u.present THEN "NeedsDownload"
                  ELSE IF u.check # "None" THEN "CheckingUpdate"
                  ELSE IF u.needed THEN "NeedsUpdate" ELSE "Ready"
    BY <1>6, ComputeIs DEF Uis
  <2> QED BY <1>1, <1>6, <2>1 DEF Fits, Place, Layers, Updatable
<1> QED BY <1>2, <1>3, <1>4, <1>5, <1>6

LEMMA ComputeType ==
  ASSUME NEW u \in Uis
  PROVE  Compute(u) \in Stages
<1>1. CASE u.failed
  BY <1>1, ComputeIs DEF Stages
<1>2. CASE ~u.failed /\ u.wine \in {"game", "setup"}
  BY <1>2, ComputeIs DEF Stages
<1>3. CASE ~u.failed /\ u.wine \notin {"game", "setup"}
  BY <1>3, ComputeIs DEF Stages, Uis
<1> QED BY <1>1, <1>2, <1>3

LEMMA RecomputeIs ==
  ASSUME NEW u \in Uis, NEW p, Sound(u, p), Updatable(u)
  PROVE  LET v == Recompute(u)
         IN  /\ Moved(u, v, p) /\ (Followed(u) => Changed(u, v, p))
             /\ Viewed(u) \/ Compute(u) # u.stage => Viewed(v)
             /\ v.wine # u.wine =>
                  ~u.transfer /\ u.check = "None" /\ ~u.needed /\ u.stage # "Ready"
<1> DEFINE stage == Compute(u)
           s == [u EXCEPT !.stage = stage]
           v == Recompute(u)
<1>1. stage \in Stages
  BY ComputeType
<1>2. v = IF stage = u.stage THEN u ELSE StageChanged(s)
  BY Zenon DEF Recompute
<1> HIDE DEF stage
<1>3. s \in Uis /\ Beside([u EXCEPT !.stage = stage], s) /\ Staged(u, s) /\ s.overlays = u.overlays
      /\ s.launch = u.launch /\ s.wine = u.wine /\ s.view = u.view /\ s.stage = stage
  BY <1>1 DEF Uis, Staged, Beside
<1> HIDE DEF s, v
<1>4. CASE stage = u.stage
  <2>1. Fits(u)
    BY <1>4, ComputedFits DEF stage
  <2> QED BY <1>2, <1>4, <2>1 DEF Changed, Moved, Staged, v, stage
<1>5. CASE stage # u.stage
  <2>1. Sound(s, p)
    <3>1. Work(s, p) /\ Reported(s, p)
      BY <1>3, StagedWork DEF Sound
    <3>2. \A o : Shows(s, o) <=> Shows(u, o)
      BY <1>3 DEF Shows
    <3>3. Layers(s, p)
      BY <1>3, <3>2, LayersKept DEF Layers, Sound
    <3>4. Place(s)
      BY <1>3 DEF Place, Staged, Sound
    <3> QED BY <1>3, <3>1, <3>3, <3>4 DEF Sound
  <2>2. s.stage = Compute(s)
    <3>1. /\ s.failed = u.failed /\ s.wine = u.wine /\ s.transfer = u.transfer
          /\ s.present = u.present /\ s.prefix = u.prefix /\ s.check = u.check
          /\ s.needed = u.needed
      BY <1>3 DEF Staged
    <3>2. Findings(s) = Findings(u)
      BY <3>1, Zenon DEF Findings
    <3>3. Compute(s) = Compute(u)
      BY <3>2, Zenon DEF Compute
    <3> QED BY <1>3, <3>3 DEF stage
  <2>7. Updatable(s)
    BY <1>3 DEF Updatable, Staged
  <2>3. Fits(s) /\ (s.stage = "Ready" => ~s.transfer /\ s.check = "None" /\ ~s.needed)
    BY <1>3, <2>1, <2>2, <2>7, ComputedFits
  <2>4. /\ Changed(s, v, p) /\ Viewed(v) /\ (v.wine # s.wine => s.stage = "Ready")
    BY <1>2, <1>3, <1>5, <2>1, <2>3, StageChangedIs
  <2>5. Changed(u, v, p)
    BY <1>3, <2>4 DEF Changed, Moved, Staged, Shows
  <2>6. v.wine # u.wine => ~u.transfer /\ u.check = "None" /\ ~u.needed /\ u.stage # "Ready"
    BY <1>3, <1>5, <2>3, <2>4 DEF Staged
  <2> QED BY <2>4, <2>5, <2>6 DEF v, Changed
<1> QED BY <1>4, <1>5

(***************************************************************************)
(* Operations of Courier                                                   *)
(***************************************************************************)
\* All but what is running and what is queued.
Queued(u, v) ==
  /\ v.config = u.config /\ v.game = u.game /\ v.key = u.key /\ v.checked = u.checked
  /\ v.launch = u.launch /\ v.pending = u.pending /\ v.repairing = u.repairing
  /\ v.suspended = u.suspended /\ v.overlays = u.overlays /\ v.installing = u.installing
  /\ v.view = u.view /\ v.purpose = u.purpose /\ v.prefix = u.prefix /\ v.present = u.present
  /\ v.wine = u.wine /\ v.failed = u.failed /\ v.needed = u.needed /\ v.check = u.check
  /\ v.op = u.op /\ v.transfer = u.transfer /\ v.dialog = u.dialog /\ v.active = u.active
  /\ v.stage = u.stage

LEMMA QueuedSound ==
  ASSUME NEW u, NEW v \in Uis, NEW p, Queued(u, v)
  PROVE  /\ Sound(u, p) /\ Reported(v, p) => Sound(v, p)
         /\ Fits(u) => Fits(v)
         /\ Followed(u) => Followed(v)
         /\ RepairShown(u) => RepairShown(v)
         /\ Installed(u) => Installed(v)
         /\ Viewed(u) => Viewed(v)
         /\ Work(u, p) => Work(v, p)
         /\ Place(u) => Place(v)
         /\ Layers(u, p) => Layers(v, p)
<1>1. \A o : Shows(v, o) <=> Shows(u, o)
  BY DEF Shows, Queued
<1>2. Work(u, p) => Work(v, p)
  BY DEF Queued, Work, CheckHolds, TransferHolds, Holds, Waited
<1>3. Layers(u, p) => Layers(v, p)
  <2>1. \A d : Holds(v, p, d) <=> Holds(u, p, d)
    BY DEF Queued, Holds
  <2> QED BY <1>1, <2>1 DEF Layers, Ordered, Above, Queued
<1>4. Place(u) => Place(v)
  BY DEF Place, Queued
<1>5. Fits(u) => Fits(v)
  BY <1>1 DEF Fits, Queued
<1>6. /\ Followed(u) => Followed(v)
      /\ RepairShown(u) => RepairShown(v)
      /\ Installed(u) => Installed(v)
      /\ Viewed(u) => Viewed(v)
  BY <1>1 DEF Followed, RepairShown, Installed, Viewed, Queued
<1> QED BY <1>2, <1>3, <1>4, <1>5, <1>6 DEF Sound

\* One more event: what was coming is coming still.
LEMMA AppendIs ==
  ASSUME NEW q \in Seq(Events), NEW e \in Events
  PROVE  /\ Append(q, e) \in Seq(Events)
         /\ \A i \in DOMAIN q : i \in DOMAIN Append(q, e) /\ Append(q, e)[i] = q[i]
         /\ Len(q) + 1 \in DOMAIN Append(q, e) /\ Append(q, e)[Len(q) + 1] = e
         /\ \A i \in DOMAIN Append(q, e) : Append(q, e)[i] = e \/ (i \in DOMAIN q /\ Append(q, e)[i] = q[i])
  OBVIOUS

\* No operation is forgotten by being looked for where it may still be found.
LEMMA FreeIdsKept ==
  ASSUME NEW u, NEW v, Known(v) \subseteq Known(u) \cup {NoOp}
  PROVE  FreeIds(u) \subseteq FreeIds(v)
<1>1. NoOp.id \notin OpIds
  BY OpIdsAssumption DEF NoOp
<1> QED BY <1>1 DEF FreeIds

LEMMA CancelIs ==
  ASSUME NEW u \in Uis, NEW c \in Couriers
  PROVE  LET v == CourierCancel(u, c)
         IN  /\ v \in Uis /\ Queued(u, v)
             /\ \A k \in Couriers : \A op : op # NoOp /\ Coming(u, k, op) => Coming(v, k, op)
             /\ FreeIds(u) \subseteq FreeIds(v)
<1> DEFINE v == CourierCancel(u, c)
           e == Status(u.running[c], "cancelled")
           w == [u EXCEPT !.running[c] = NoOp, !.posted = Append(@, e)]
<1>1. CASE u.running[c] = NoOp
  BY <1>1 DEF CourierCancel, Queued
<1>2. CASE u.running[c] # NoOp
  <2>1. v = w
    BY <1>2 DEF CourierCancel
  <2>2. u.running[c] \in Operation /\ u.posted \in Seq(Events) /\ u.running \in [Couriers -> OpsOrNone]
    BY <1>2, NoOpIsNone DEF Uis
  <2>3. e \in Events /\ e.event = "status" /\ e.op = u.running[c] /\ e.what # "working"
    BY <2>2 DEF Events, Statuses, Status, Said, Saying
  <2> DEFINE q == Append(u.posted, e)
             r == [u.running EXCEPT ![c] = NoOp]
  <2>4. /\ q \in Seq(Events)
        /\ \A i \in DOMAIN u.posted : i \in DOMAIN q /\ q[i] = u.posted[i]
        /\ Len(u.posted) + 1 \in DOMAIN q /\ q[Len(u.posted) + 1] = e
        /\ \A i \in DOMAIN q : q[i] = e \/ (i \in DOMAIN u.posted /\ q[i] = u.posted[i])
    BY <2>2, <2>3, AppendIs
  <2>5. /\ r \in [Couriers -> OpsOrNone] /\ r[c] = NoOp
        /\ \A k \in Couriers \ {c} : r[k] = u.running[k]
    BY <2>2, NoOpIsNone
  <2>6. w = [u EXCEPT !.running = r, !.posted = q]
    BY DEF Uis
  <2> HIDE DEF e, q, r, w
  <2>7. w \in Uis /\ Queued(u, w) /\ w.running = r /\ w.posted = q
    BY <2>4, <2>5, <2>6 DEF Uis, Queued
  <2>8. ASSUME NEW k \in Couriers, NEW op, op # NoOp, Coming(u, k, op)
        PROVE  Coming(w, k, op)
    BY <2>3, <2>4, <2>5, <2>7, <2>8 DEF Coming
  <2>9. Known(w) \subseteq Known(u) \cup {NoOp}
    <3>1. {w.running[k] : k \in Couriers} \subseteq {u.running[k] : k \in Couriers} \cup {NoOp}
      BY <2>5, <2>7
    <3>2. ASSUME NEW i \in DOMAIN w.posted, w.posted[i].event = "status"
          PROVE  \/ w.posted[i].op \in {u.running[k] : k \in Couriers}
                 \/ \E j \in DOMAIN u.posted : u.posted[j].event = "status"
                                               /\ w.posted[i].op = u.posted[j].op
      BY <2>3, <2>4, <2>7, <3>2
    <3>3. /\ w.op = u.op /\ w.active = u.active
          /\ {w.dialog[d].op : d \in Dialogs} = {u.dialog[d].op : d \in Dialogs}
      BY <2>7 DEF Queued
    <3> QED BY <3>1, <3>2, <3>3, ZenonT(40) DEF Known
  <2>10. FreeIds(u) \subseteq FreeIds(w)
    BY <2>9, FreeIdsKept
  <2> QED BY <2>1, <2>7, <2>8, <2>10
<1> QED BY <1>1, <1>2

LEMMA CancelSound ==
  ASSUME NEW u \in Uis, NEW p, NEW c \in Couriers, Sound(u, p)
  PROVE  LET v == CourierCancel(u, c)
         IN  Sound(v, p) /\ Queued(u, v) /\ FreeIds(u) \subseteq FreeIds(v)
<1> DEFINE v == CourierCancel(u, c)
<1>1. /\ v \in Uis /\ Queued(u, v) /\ FreeIds(u) \subseteq FreeIds(v)
      /\ \A k \in Couriers : \A op : op # NoOp /\ Coming(u, k, op) => Coming(v, k, op)
  BY CancelIs
<1> HIDE DEF v
<1>2. Reported(v, p)
  BY <1>1 DEF Sound, Reported, Queued, Couriers, Holds
<1>3. Sound(v, p)
  BY <1>1, <1>2, QueuedSound
<1> QED BY <1>1, <1>3 DEF v

\* An event that is no report.
LEMMA PostedIs ==
  ASSUME NEW u \in Uis, NEW p, NEW e \in Contexts \cup {ProbeEvent}, Sound(u, p)
  PROVE  LET v == [u EXCEPT !.posted = Append(@, e)]
         IN  Sound(v, p) /\ Queued(u, v) /\ v.running = u.running /\ FreeIds(u) \subseteq FreeIds(v)
<1> DEFINE q == Append(u.posted, e)
           w == [u EXCEPT !.posted = q]
<1>1. e \in Events /\ e.event # "status"
  BY DEF Events, Contexts, Context, ProbeEvent
<1>2. /\ q \in Seq(Events)
      /\ \A i \in DOMAIN u.posted : i \in DOMAIN q /\ q[i] = u.posted[i]
      /\ \A i \in DOMAIN q : q[i] = e \/ (i \in DOMAIN u.posted /\ q[i] = u.posted[i])
  BY <1>1, AppendIs DEF Uis
<1> HIDE DEF q
<1>3. w \in Uis /\ Queued(u, w) /\ w.running = u.running /\ w.posted = q
  BY <1>2 DEF Uis, Queued
<1> HIDE DEF w
<1>4. \A k \in Couriers : \A op : Coming(u, k, op) => Coming(w, k, op)
  BY <1>2, <1>3 DEF Coming
<1>5. Reported(w, p)
  BY <1>3, <1>4 DEF Sound, Reported, Queued, Couriers, Holds
<1>6. Known(w) \subseteq Known(u)
  <2>1. \A i \in DOMAIN w.posted : w.posted[i].event = "status" =>
          i \in DOMAIN u.posted /\ w.posted[i] = u.posted[i]
    BY <1>1, <1>2, <1>3
  <2> QED BY <1>3, <2>1 DEF Known, Queued
<1>7. Sound(w, p) /\ FreeIds(u) \subseteq FreeIds(w)
  BY <1>3, <1>5, <1>6, QueuedSound, FreeIdsKept
<1> QED BY <1>3, <1>7 DEF w, q

LEMMA ScheduleProbeIs ==
  ASSUME NEW u \in Uis, NEW p, Sound(u, p)
  PROVE  LET v == ScheduleProbe(u)
         IN  Sound(v, p) /\ Queued(u, v) /\ v.running = u.running /\ FreeIds(u) \subseteq FreeIds(v)
<1> DEFINE w == [u EXCEPT !.posted = Append(@, ProbeEvent)]
<1>1. ScheduleProbe(u) \in {u, w}
  BY DEF ScheduleProbe
<1>2. Sound(w, p) /\ Queued(u, w) /\ w.running = u.running /\ FreeIds(u) \subseteq FreeIds(w)
  BY PostedIs
<1> HIDE DEF w
<1> QED BY <1>1, <1>2 DEF Queued

\* A changed configuration: looks at it are queued.
LEMMA ConfigChangedIs ==
  ASSUME NEW u \in Uis, NEW p, Sound(u, p)
  PROVE  LET v == ConfigChanged(u)
         IN  Sound(v, p) /\ Queued(u, v)
<1> DEFINE Later(v, d) == IF Stale(v, d) THEN [v EXCEPT !.posted = Append(@, Context(d))] ELSE v
<1>1. ASSUME NEW v \in Uis, NEW d \in Dialogs, Sound(v, p), Queued(u, v)
      PROVE  Later(v, d) \in Uis /\ Sound(Later(v, d), p) /\ Queued(u, Later(v, d))
  <2> DEFINE w == [v EXCEPT !.posted = Append(@, Context(d))]
  <2>1. Context(d) \in Contexts
    BY DEF Contexts
  <2>2. Sound(w, p) /\ Queued(v, w)
    BY <1>1, <2>1, PostedIs
  <2>3. w \in Uis
    BY <2>2 DEF Sound
  <2>4. Later(v, d) \in {v, w}
    OBVIOUS
  <2> HIDE DEF w, Later
  <2> QED BY <1>1, <2>2, <2>3, <2>4 DEF Queued
<1> DEFINE a == Later(u, "update")
           b == Later(a, "repair")
           c == Later(b, "install")
<1>2. ConfigChanged(u) = ScheduleProbe(c)
  BY DEF ConfigChanged
<1>3. {"update", "repair", "install"} \subseteq Dialogs /\ Queued(u, u)
  BY DEF Dialogs, Queued
<1> HIDE DEF Later
<1>4. a \in Uis /\ Sound(a, p) /\ Queued(u, a)
  BY <1>1, <1>3
<1> HIDE DEF a
<1>5. b \in Uis /\ Sound(b, p) /\ Queued(u, b)
  BY <1>1, <1>3, <1>4
<1> HIDE DEF b
<1>6. c \in Uis /\ Sound(c, p) /\ Queued(u, c)
  BY <1>1, <1>3, <1>5
<1> HIDE DEF c
<1>7. Sound(ScheduleProbe(c), p) /\ Queued(c, ScheduleProbe(c))
  BY <1>6, ScheduleProbeIs
<1> QED BY <1>2, <1>6, <1>7 DEF Queued

(***************************************************************************)
(* Nothing goes on                                                         *)
(***************************************************************************)
\* Neither a check nor a transfer goes on; the update dialog may still show the check p.
Idle(u, p) == u.check = "None" /\ ~u.transfer /\ (p # NoOp => p.kind # "transfer")

LEMMA IdleIs ==
  ASSUME NEW u \in Uis, NEW p, Work(u, p), Idle(u, p)
  PROVE  /\ u.op = NoOp
         /\ u.dialog["update"].op \in {NoOp, p}
         /\ u.dialog["update"].op # NoOp <=> u.dialog["update"].observing
         /\ \A d \in {"repair", "install"} : u.dialog[d].op = NoOp /\ ~u.dialog[d].observing
         /\ \A d \in Dialogs : ~Holds(u, p, d)
         /\ u.active \subseteq {p}
<1>1. u.op = NoOp /\ (\A d \in Dialogs \ {"update"} : ~u.dialog[d].observing)
  BY DEF Work, CheckHolds, Idle, Dialogs
<1>2. \A d \in Dialogs : ~u.dialog[d].observing => u.dialog[d].op = NoOp
  BY DEF Work, TransferHolds, Holds, Idle
<1>3. u.dialog["update"].observing => p # NoOp /\ u.dialog["update"].op = p
  BY DEF Work, CheckHolds, Idle
<1>4. \A d \in Dialogs : u.dialog[d].op \in {NoOp, p}
  BY <1>1, <1>2, <1>3
<1>5. Waited(u) \subseteq {p}
  BY <1>1, <1>4 DEF Waited
<1> QED BY <1>1, <1>2, <1>3, <1>4, <1>5 DEF Work, Holds, Dialogs

\* All but the dialogs.
Undialogued(u, v) ==
  /\ v.config = u.config /\ v.game = u.game /\ v.key = u.key /\ v.checked = u.checked
  /\ v.launch = u.launch /\ v.pending = u.pending /\ v.repairing = u.repairing
  /\ v.suspended = u.suspended /\ v.overlays = u.overlays /\ v.installing = u.installing
  /\ v.view = u.view /\ v.purpose = u.purpose /\ v.prefix = u.prefix /\ v.present = u.present
  /\ v.wine = u.wine /\ v.failed = u.failed /\ v.needed = u.needed /\ v.check = u.check
  /\ v.op = u.op /\ v.transfer = u.transfer /\ v.active = u.active /\ v.running = u.running
  /\ v.posted = u.posted /\ v.stage = u.stage

LEMMA DialogIs ==
  ASSUME NEW u \in Uis, NEW d \in Dialogs, NEW op \in OpsOrNone
  PROVE  LET v == [u EXCEPT !.dialog[d].op = op, !.dialog[d].observing = FALSE]
         IN  /\ v \in Uis /\ Undialogued(u, v)
             /\ v.dialog[d].op = op /\ ~v.dialog[d].observing
             /\ v.dialog[d].retry = u.dialog[d].retry
             /\ \A e \in Dialogs \ {d} : v.dialog[e] = u.dialog[e]
<1> DEFINE x == [u.dialog[d] EXCEPT !.op = op, !.observing = FALSE]
           y == [u.dialog EXCEPT ![d] = x]
           w == [u EXCEPT !.dialog = y]
           v == [u EXCEPT !.dialog[d].op = op, !.dialog[d].observing = FALSE]
<1>1. u.dialog \in [Dialogs -> DialogStates] /\ u.dialog[d] \in DialogStates
  BY DEF Uis
<1>2. v = w
  BY <1>1 DEF Uis, DialogStates
<1>3. /\ x \in DialogStates /\ x.op = op /\ ~x.observing
      /\ x.retry = u.dialog[d].retry
  BY <1>1 DEF DialogStates
<1> HIDE DEF x
<1>4. y \in [Dialogs -> DialogStates] /\ y[d] = x /\ \A e \in Dialogs \ {d} : y[e] = u.dialog[e]
  BY <1>1, <1>3
<1> HIDE DEF y
<1>5. w \in Uis /\ Undialogued(u, w) /\ w.dialog = y
  BY <1>4 DEF Uis, Undialogued
<1> HIDE DEF w, v
<1> QED BY <1>2, <1>3, <1>4, <1>5 DEF v

LEMMA StopObservingIs ==
  ASSUME NEW u \in Uis
  PROVE  LET v == StopObserving(u)
         IN  /\ v \in Uis /\ Undialogued(u, v) /\ ~v.dialog["update"].observing
             /\ u.dialog["update"].observing => v.dialog["update"].op = NoOp
             /\ ~u.dialog["update"].observing => v = u
             /\ \A d \in {"repair", "install"} : v.dialog[d] = u.dialog[d]
<1>1. CASE ~u.dialog["update"].observing
  BY <1>1 DEF StopObserving, Undialogued
<1>2. CASE u.dialog["update"].observing
  <2> DEFINE w == [u EXCEPT !.dialog["update"].op = NoOp, !.dialog["update"].observing = FALSE]
  <2>1. /\ w \in Uis /\ Undialogued(u, w)
        /\ w.dialog["update"].op = NoOp /\ ~w.dialog["update"].observing
        /\ \A e \in Dialogs \ {"update"} : w.dialog[e] = u.dialog[e]
    BY DialogIs, NoOpIsNone, ZenonT(40) DEF Dialogs
  <2> HIDE DEF w
  <2>2. StopObserving(u) = w
    BY <1>2 DEF StopObserving, w
  <2> QED BY <1>2, <2>1, <2>2 DEF Dialogs
<1> QED BY <1>1, <1>2

\* All but the dialogs, the overlays and the launch.
Ended(u, v) ==
  /\ v.config = u.config /\ v.game = u.game /\ v.key = u.key /\ v.checked = u.checked
  /\ v.pending = u.pending /\ v.repairing = u.repairing
  /\ v.suspended = u.suspended /\ v.installing = u.installing
  /\ v.view = u.view /\ v.purpose = u.purpose /\ v.prefix = u.prefix /\ v.present = u.present
  /\ v.wine = u.wine /\ v.failed = u.failed /\ v.needed = u.needed /\ v.check = u.check
  /\ v.op = u.op /\ v.transfer = u.transfer /\ v.active = u.active /\ v.running = u.running
  /\ v.posted = u.posted /\ v.stage = u.stage

\* Nobody waits.
AllQuiet(u) == \A d \in Dialogs : u.dialog[d].op = NoOp /\ ~u.dialog[d].observing

LEMMA QuietWork ==
  ASSUME NEW u, AllQuiet(u), u.op = NoOp, u.check = "None", ~u.transfer, u.active = {}
  PROVE  Work(u, NoOp) /\ Reported(u, NoOp)
<1>1. Waited(u) = {}
  BY DEF Waited, AllQuiet
<1> QED BY <1>1 DEF AllQuiet, Work, CheckHolds, TransferHolds, Reported, Holds, Dialogs

\* The check is over, and so is its operation; the dialog lets go of it.
LEMMA SyncFinishedIs ==
  ASSUME NEW u \in Uis, NEW p, NEW ok \in BOOLEAN, Sound(u, p), Idle(u, p), u.active = {},
         Followed(u)
  PROVE  LET v == SyncFinished(u, ok)
         IN  /\ Sound(v, NoOp) /\ Ended(u, v) /\ AllQuiet(v) /\ Followed(v)
             /\ v.launch = (u.launch /\ ok)
             /\ \A o : Shows(v, o) <=> Shows(u, o) /\ o # "update"
             /\ Fits(u) => Fits(v)
             /\ FreeIds(u) \subseteq FreeIds(v)
<1> DEFINE a == StopObserving(u)
           b == Close(a, "update")
           v == [b EXCEPT !.launch = @ /\ ok]
<1>1. SyncFinished(u, ok) = v
  BY DEF SyncFinished
<1>2. Work(u, p) /\ Place(u) /\ Layers(u, p)
  BY DEF Sound
<1>3. /\ u.op = NoOp
      /\ u.dialog["update"].op # NoOp <=> u.dialog["update"].observing
      /\ \A d \in {"repair", "install"} : u.dialog[d].op = NoOp /\ ~u.dialog[d].observing
      /\ \A d \in Dialogs : ~Holds(u, p, d)
  BY <1>2, IdleIs
<1>4. a \in Uis /\ Undialogued(u, a) /\ AllQuiet(a)
  <2>1. /\ a \in Uis /\ Undialogued(u, a) /\ ~a.dialog["update"].observing
        /\ u.dialog["update"].observing => a.dialog["update"].op = NoOp
        /\ ~u.dialog["update"].observing => a = u
        /\ \A d \in {"repair", "install"} : a.dialog[d] = u.dialog[d]
    BY StopObservingIs
  <2> HIDE DEF a
  <2> QED BY <1>3, <2>1 DEF AllQuiet, Dialogs
<1> HIDE DEF a
<1>5. Layers(a, NoOp)
  <2>1. \A d \in Dialogs : ~Holds(a, NoOp, d)
    BY <1>4 DEF AllQuiet, Holds
  <2>2. \A o : Shows(a, o) <=> Shows(u, o)
    BY <1>4 DEF Undialogued, Shows
  <2> QED BY <1>2, <1>4, <2>1, <2>2 DEF Layers, Ordered, Undialogued, Dialogs
<1>6. /\ b \in Uis /\ Beside(a, b) /\ Layers(b, NoOp)
      /\ \A x : Shows(b, x) <=> Shows(a, x) /\ x # "update"
  <2>1. ~Holds(a, NoOp, "update")
    BY <1>4 DEF AllQuiet, Holds, Dialogs
  <2> QED BY <1>4, <1>5, <2>1, Closing DEF Overlays, Dialogs
<1> HIDE DEF b
<1>7. PICK l \in BOOLEAN : l = (b.launch /\ ok)
  OBVIOUS
<1>8. v = [b EXCEPT !.launch = l]
  BY <1>7
<1> HIDE DEF v
<1>9. /\ v \in Uis /\ v.launch = l /\ v.overlays = b.overlays /\ v.dialog = b.dialog /\ Ended(b, v)
  BY <1>6, <1>8 DEF Uis, Ended
<1>10. Ended(u, v) /\ AllQuiet(v)
  BY <1>4, <1>6, <1>9 DEF Ended, Undialogued, Beside, AllQuiet
<1>11. v.launch = (u.launch /\ ok)
  BY <1>4, <1>6, <1>7, <1>9 DEF Undialogued, Beside
<1>12. \A o : Shows(v, o) <=> Shows(u, o) /\ o # "update"
  BY <1>4, <1>6, <1>9 DEF Shows, Undialogued
<1>13. Work(v, NoOp) /\ Reported(v, NoOp)
  BY <1>3, <1>10, QuietWork DEF Ended, Idle
<1>14. Layers(v, NoOp)
  <2>1. Staged(b, v) /\ v.wine = b.wine /\ v.view = b.view
    BY <1>9 DEF Ended, Staged
  <2>2. \A o : Shows(v, o) <=> Shows(b, o)
    BY <1>9 DEF Shows
  <2> QED BY <1>6, <1>9, <2>1, <2>2, LayersKept DEF Layers
<1>15. Place(v)
  BY <1>2, <1>10, <1>11 DEF Place, Ended
<1>16. (Fits(u) => Fits(v)) /\ Followed(v)
  BY <1>10, <1>11, <1>12, ZenonT(40) DEF Fits, Followed, Ended
<1>17. Known(v) \subseteq Known(u) \cup {NoOp}
  <2>1. {v.dialog[d].op : d \in Dialogs} \subseteq {NoOp}
    BY <1>10 DEF AllQuiet
  <2> QED BY <1>10, <2>1 DEF Known, Ended
<1>18. FreeIds(u) \subseteq FreeIds(v)
  BY <1>17, FreeIdsKept
<1> QED BY <1>1, <1>9, <1>10, <1>11, <1>12, <1>13, <1>14, <1>15, <1>16, <1>18 DEF Sound, v

(***************************************************************************)
(* The check before a launch                                               *)
(***************************************************************************)
\* Good, but for a stage that compute() has yet to find.
Fair(u, p) == Sound(u, p) /\ Followed(u) /\ Installed(u) /\ RepairShown(u) /\ Viewed(u)

\* What compute() has to say is known while anything goes on.
LEMMA FitsUpdatable ==
  ASSUME NEW u, Fits(u),
         \/ u.transfer \/ u.check # "None" \/ u.repairing \/ ~u.needed
         \/ Shows(u, "update") \/ Shows(u, "install")
         \/ u.stage \notin {"SettingUpPrefix", "Failed"}
  PROVE  Updatable(u)
  BY DEF Fits, Updatable

\* The game has been started: a launch was wanted, and nothing stood in its way.
Started(u, v) ==
  v.wine # u.wine =>
    /\ u.launch /\ u.game \notin u.pending /\ ~u.transfer /\ u.check = "None" /\ ~u.needed
    /\ u.stage # "Ready" /\ v.wine = "game"

LEMMA RecomputeFair ==
  ASSUME NEW u, NEW p, Fair(u, p), Updatable(u)
  PROVE  /\ Good(Recompute(u), p) /\ Started(u, Recompute(u)) /\ Changed(u, Recompute(u), p)
<1> DEFINE v == Recompute(u)
<1>1. u \in Uis /\ Sound(u, p) /\ Followed(u) /\ Updatable(u)
  BY DEF Fair, Sound
<1>2. /\ Changed(u, v, p) /\ (Viewed(u) => Viewed(v))
      /\ v.wine # u.wine => ~u.transfer /\ u.check = "None" /\ ~u.needed /\ u.stage # "Ready"
  BY <1>1, RecomputeIs
<1> HIDE DEF v
<1>3. RepairShown(v) /\ Installed(v)
  BY <1>2 DEF Changed, Moved, Staged, Fair, RepairShown, Installed
<1>4. u.launch => u.game \notin u.pending
  BY <1>1 DEF Sound, Place
<1> QED BY <1>2, <1>3, <1>4 DEF Changed, Moved, Good, Fair, Started, v

\* All but the check, its operation, and what goes with them.
Checking(u, v) ==
  /\ v.config = u.config /\ v.game = u.game /\ v.key = u.key /\ v.checked = u.checked
  /\ v.launch = u.launch /\ v.pending = u.pending /\ v.repairing = u.repairing
  /\ v.suspended = u.suspended /\ v.installing = u.installing
  /\ v.view = u.view /\ v.purpose = u.purpose /\ v.prefix = u.prefix /\ v.present = u.present
  /\ v.wine = u.wine /\ v.failed = u.failed /\ v.needed = u.needed /\ v.transfer = u.transfer
  /\ v.stage = u.stage

LEMMA NewOpIs ==
  ASSUME NEW u \in Uis, NEW kind \in {"version", "integrity", "transfer"}, FreeIds(u) # {}
  PROVE  NewOp(u, kind) \in Operation /\ NewOp(u, kind).kind = kind /\ NewOp(u, kind) \notin Known(u)
<1> DEFINE i == CHOOSE i \in FreeIds(u) : TRUE
<1>1. i \in FreeIds(u)
  OBVIOUS
<1> HIDE DEF i
<1>2. NewOp(u, kind) = [id |-> i, kind |-> kind, game |-> u.config]
  BY DEF NewOp, i
<1>3. i \in OpIds /\ i \notin {o.id : o \in Known(u)}
  BY <1>1 DEF FreeIds
<1> QED BY <1>2, <1>3 DEF Operation, Uis

LEMMA ObserveIs ==
  ASSUME NEW u \in Uis, NEW p, Sound(u, p), Idle(u, p), Followed(u), u.active = {},
         ~Shows(u, "setup"), u.prefix, u.present, u.wine = "idle", ~u.failed, world.prefix,
         u.checked, NEW check \in {"Version", "Integrity"}, NEW op \in Operation,
         op.kind = (IF check = "Version" THEN "version" ELSE "integrity"), op \notin Known(u)
  PROVE  LET v == Observe([Run(u, "checker", op) EXCEPT !.op = op, !.check = check])
         IN  /\ Sound(v, NoOp) /\ Followed(v) /\ Checking(u, v) /\ v.check = check /\ v.active = {op}
             /\ \A o : Shows(v, o) <=> Shows(u, o) \/ o = "update"
<1> DEFINE r == [u.running EXCEPT !["checker"] = op]
           x == [u EXCEPT !.running = r, !.active = {op}, !.op = op, !.check = check]
           y == CourierCancel(x, "update")
           z == Clear(y, u.dialog["update"].op)
           shown == [op |-> op, observing |-> TRUE, retry |-> FALSE]
           d == [z.dialog EXCEPT !["update"] = shown]
           w == [z EXCEPT !.dialog = d]
           v == Open(w, "update")
<1>1. [Run(u, "checker", op) EXCEPT !.op = op, !.check = check] = x
  <2>1. u.active \cup {op} = {op}
    OBVIOUS
  <2>2. Run(u, "checker", op) = [u EXCEPT !.running = r, !.active = {op}]
    BY <2>1 DEF Run, Uis
  <2> HIDE DEF r
  <2> QED BY <2>2
<1>2. Work(u, p) /\ Place(u) /\ Layers(u, p) /\ u.running \in [Couriers -> OpsOrNone]
  BY DEF Sound, Uis
<1>3. /\ u.op = NoOp
      /\ u.dialog["update"].op \in {NoOp, p}
      /\ u.dialog["update"].op # NoOp <=> u.dialog["update"].observing
      /\ \A e \in {"repair", "install"} : u.dialog[e].op = NoOp /\ ~u.dialog[e].observing
  BY <1>2, IdleIs
<1>4. op # NoOp /\ op \in OpsOrNone
  BY NoOpIsNone DEF OpsOrNone
<1>5. /\ r \in [Couriers -> OpsOrNone] /\ r["checker"] = op
  BY <1>2, <1>4 DEF Couriers
<1> HIDE DEF r
<1>6. /\ x \in Uis /\ Checking(u, x) /\ x.active = {op} /\ x.op = op /\ x.check = check
      /\ x.running = r /\ x.dialog = u.dialog /\ x.overlays = u.overlays
  BY <1>4, <1>5, ZenonT(40) DEF Uis, Checking
<1>7. Observe(x) = v
  <2> HIDE DEF x
  <2>1. x.op = op /\ x.dialog = u.dialog
    BY <1>6
  <2>2. y \in Uis /\ Queued(x, y)
    BY <1>6, CancelIs DEF Couriers, Dialogs
  <2> HIDE DEF y
  <2>3. z = [y EXCEPT !.active = y.active \ {u.dialog["update"].op}]
    BY DEF Clear
  <2>4. z.dialog = y.dialog
    BY <2>2, <2>3 DEF Uis
  <2> HIDE DEF z
  <2>5. w = [z EXCEPT !.dialog["update"] = shown]
    OBVIOUS
  <2> QED BY <2>1, <2>5, Zenon DEF Observe, y, z, v, shown
<1> HIDE DEF x
<1>8. /\ y \in Uis /\ Queued(x, y) /\ Coming(y, "checker", op)
  <2>1. Coming(x, "checker", op)
    BY <1>5, <1>6 DEF Coming
  <2> QED BY <1>4, <1>6, <2>1, CancelIs DEF Couriers, Dialogs
<1> HIDE DEF y
<1>9. u.dialog["update"].op # op
  BY DEF Known, Dialogs
<1>10. z = [y EXCEPT !.active = {op}]
  <2>1. y.active \ {u.dialog["update"].op} = {op}
    BY <1>6, <1>8, <1>9 DEF Queued
  <2> QED BY <2>1 DEF Clear
<1> HIDE DEF z
<1>11. /\ z \in Uis /\ Queued(x, z) /\ z.running = y.running
       /\ z.posted = y.posted
  BY <1>6, <1>8, <1>10 DEF Uis, Queued
<1>12. shown \in DialogStates /\ shown.op = op /\ shown.observing = TRUE
  BY <1>4 DEF DialogStates
<1> HIDE DEF shown
<1>13. /\ d \in [Dialogs -> DialogStates] /\ d["update"] = shown
       /\ \A e \in {"repair", "install"} : d[e] = u.dialog[e]
  BY <1>6, <1>11, <1>12 DEF Uis, Dialogs, Queued
<1> HIDE DEF d
<1>14. w \in Uis /\ Undialogued(z, w) /\ w.dialog = d
  BY <1>11, <1>13 DEF Uis, Undialogued
<1> HIDE DEF w
<1>15. Checking(u, w) /\ w.active = {op} /\ w.op = op /\ w.check = check /\ w.overlays = u.overlays
  BY <1>6, <1>11, <1>14 DEF Queued, Undialogued, Checking
<1>16. \A e \in Dialogs : Holds(w, NoOp, e) => e = "update"
  BY <1>3, <1>13, <1>14 DEF Holds, Dialogs
<1>17. \A o : Shows(w, o) <=> Shows(u, o)
  BY <1>15 DEF Shows
<1>18. Work(w, NoOp)
  <2>1. Waited(w) = {op}
    <3>1. {w.dialog[e].op : e \in Dialogs} \subseteq {op, NoOp}
      BY <1>3, <1>12, <1>13, <1>14 DEF Dialogs
    <3> QED BY <3>1, <1>4, <1>15 DEF Waited
  <2>2. CheckHolds(w, NoOp)
    BY <1>3, <1>4, <1>12, <1>13, <1>14, <1>15 DEF CheckHolds, Checking
  <2>3. TransferHolds(w, NoOp)
    BY <1>3, <1>12, <1>13, <1>14, <1>15, <1>16 DEF TransferHolds, Checking, Idle, Dialogs
  <2> QED BY <2>1, <2>2, <2>3, <1>15 DEF Work
<1>19. Reported(w, NoOp)
  <2>1. Coming(w, "checker", op)
    BY <1>8, <1>11, <1>14 DEF Coming, Undialogued
  <2> QED BY <2>1, <1>12, <1>13, <1>14, <1>15, <1>16 DEF Reported
<1>20. /\ v \in Uis /\ Beside(w, v) /\ Ordered(v) /\ Above(v, "update")
       /\ \A o : Shows(v, o) <=> Shows(w, o) \/ o = "update"
       /\ \A o : Shows(w, o) /\ o # "update" => v.overlays[o] = w.overlays[o] \ {"update"}
  <2>1. Ordered(w)
    BY <1>2, <1>15 DEF Layers, Ordered
  <2>2. "update" \in Overlays
    BY DEF Overlays, Dialogs
  <2>3. v \in Uis /\ Beside(w, v)
    BY <1>14, <2>2, OpenIs
  <2>4. /\ Ordered(v) /\ Above(v, "update")
        /\ \A o : Shows(v, o) <=> Shows(w, o) \/ o = "update"
        /\ \A o : Shows(w, o) /\ o # "update" => v.overlays[o] = w.overlays[o] \ {"update"}
    BY <1>14, <2>1, <2>2, OpenShows
  <2> QED BY <2>3, <2>4
<1> HIDE DEF v
<1>21. Layers(v, NoOp)
  <2>1. \A e \in Dialogs : Holds(v, NoOp, e) => e = "update"
    BY <1>16, <1>20 DEF Holds, Beside
  <2>2. Shows(v, "repair") /\ Shows(v, "files") => "repair" \in v.overlays["files"]
    BY <1>2, <1>15, <1>17, <1>20 DEF Layers
  <2>3. Checking(u, v)
    BY <1>15, <1>20 DEF Checking, Beside
  <2>4. \A o : o # "update" => (Shows(v, o) <=> Shows(u, o))
    BY <1>17, <1>20
  <2>5. (\A e \in Dialogs : Holds(v, NoOp, e) => Above(v, e)) /\ ~Holds(v, NoOp, "install")
    BY <1>20, <2>1 DEF Dialogs
  <2>6. /\ v.wine = "idle" /\ ~v.failed /\ ~Shows(v, "setup") /\ v.prefix /\ world.prefix
        /\ Shows(v, "files") => v.game \in v.pending
        /\ v.view = "chooser" => ~Shows(v, "setup") /\ ~Shows(v, "install")
    BY <1>2, <2>3, <2>4 DEF Layers, Checking
  <2> QED BY <1>20, <2>2, <2>5, <2>6 DEF Layers
<1>22. Work(v, NoOp) /\ Reported(v, NoOp)
  BY <1>18, <1>19, <1>20, BesideStaged, StagedWork
<1>23. Checking(u, v) /\ v.check = check /\ v.active = {op}
  BY <1>15, <1>20 DEF Checking, Beside
<1>24. Place(v) /\ Followed(v)
  BY <1>2, <1>23 DEF Place, Followed, Checking, Idle
<1> QED BY <1>1, <1>7, <1>17, <1>20, <1>21, <1>22, <1>23, <1>24 DEF Sound, v

\* An answer is being handled, and nothing else goes on.
Answering(u, p) == Fair(u, p) /\ Updatable(u) /\ Idle(u, p) /\ u.active = {}

LEMMA NeededIs ==
  ASSUME NEW u \in Uis, NEW p, NEW needed \in BOOLEAN, Answering(u, p), needed => world.prefix
  PROVE  LET v == [u EXCEPT !.needed = needed]
         IN  /\ v \in Uis /\ Answering(v, p) /\ v.needed = needed /\ FreeIds(v) = FreeIds(u)
             /\ v.wine = u.wine /\ v.launch = u.launch /\ v.pending = u.pending /\ v.game = u.game
             /\ v.prefix = u.prefix /\ v.present = u.present /\ v.failed = u.failed
             /\ v.checked = u.checked /\ v.overlays = u.overlays /\ v.dialog = u.dialog
             /\ Fits(u) /\ ~needed => Fits(v)
<1> DEFINE v == [u EXCEPT !.needed = needed]
           w == [v EXCEPT !.needed = u.needed]
<1>1. /\ v \in Uis /\ v.needed = needed /\ v.check = u.check /\ v.op = u.op
      /\ v.dialog = u.dialog /\ v.transfer = u.transfer /\ v.active = u.active
      /\ v.running = u.running /\ v.posted = u.posted /\ v.checked = u.checked
      /\ v.config = u.config /\ v.launch = u.launch /\ v.pending = u.pending
      /\ v.repairing = u.repairing /\ v.suspended = u.suspended /\ v.overlays = u.overlays
      /\ v.installing = u.installing /\ v.view = u.view /\ v.prefix = u.prefix
      /\ v.present = u.present /\ v.wine = u.wine /\ v.failed = u.failed /\ v.stage = u.stage
      /\ v.game = u.game
  BY DEF Uis
<1> HIDE DEF v
<1>2. Sound(u, p) /\ Followed(u) /\ Installed(u) /\ RepairShown(u) /\ Viewed(u)
  BY DEF Answering, Fair
<1>3. \A o : Shows(v, o) <=> Shows(u, o)
  BY <1>1 DEF Shows
<1>4. Work(v, p) /\ Reported(v, p)
  BY <1>1, <1>2 DEF Sound, Work, CheckHolds, TransferHolds, Holds, Waited, Reported, Coming
<1>5. Layers(v, p)
  <2>1. \A d : Holds(v, p, d) <=> Holds(u, p, d)
    BY <1>1 DEF Holds
  <2> QED BY <1>1, <1>2, <1>3, <2>1 DEF Sound, Layers, Ordered, Above
<1>6. Place(v)
  BY <1>1, <1>2 DEF Sound, Place
<1>7. Followed(v) /\ Installed(v) /\ RepairShown(v) /\ Viewed(v) /\ Updatable(v)
  BY <1>1, <1>2, <1>3 DEF Followed, Installed, RepairShown, Viewed, Updatable
<1>8. FreeIds(v) = FreeIds(u)
  BY <1>1 DEF FreeIds, Known
<1>9. Idle(v, p) /\ v.active = {}
  BY <1>1 DEF Answering, Idle
<1>10. Fits(u) /\ ~needed => Fits(v)
  BY <1>1, <1>3 DEF Fits
<1> QED BY <1>1, <1>4, <1>5, <1>6, <1>7, <1>8, <1>9, <1>10 DEF Answering, Fair, Sound, v

LEMMA FinishedFair ==
  ASSUME NEW u \in Uis, NEW p, NEW ok \in BOOLEAN, Answering(u, p)
  PROVE  LET v == SyncFinished(u, ok)
         IN  /\ Answering(v, NoOp) /\ Ended(u, v) /\ v.launch = (u.launch /\ ok)
             /\ Fits(u) => Fits(v)
             /\ \A o : Shows(v, o) <=> Shows(u, o) /\ o # "update"
             /\ FreeIds(u) \subseteq FreeIds(v)
<1> DEFINE v == SyncFinished(u, ok)
<1>1. /\ Sound(v, NoOp) /\ Ended(u, v) /\ AllQuiet(v) /\ Followed(v)
      /\ v.launch = (u.launch /\ ok)
      /\ \A o : Shows(v, o) <=> Shows(u, o) /\ o # "update"
      /\ FreeIds(u) \subseteq FreeIds(v)
      /\ Fits(u) => Fits(v)
  BY SyncFinishedIs DEF Answering, Fair
<1> HIDE DEF v
<1>2. Installed(v) /\ RepairShown(v) /\ Viewed(v) /\ Updatable(v)
  BY <1>1 DEF Answering, Fair, Installed, RepairShown, Viewed, Updatable, Ended
<1>3. Idle(v, NoOp) /\ v.active = {}
  BY <1>1 DEF Answering, Idle, Ended
<1> QED BY <1>1, <1>2, <1>3 DEF Answering, Fair, v

\* The game_sync_finished slot, and a new stage.
LEMMA SyncRecomputed ==
  ASSUME NEW u \in Uis, NEW p, NEW ok \in BOOLEAN, NEW needed \in BOOLEAN, Answering(u, p),
         needed => world.prefix
  PROVE  LET v == Recompute(SyncFinished([u EXCEPT !.needed = needed], ok))
         IN  /\ Good(v, NoOp) /\ v.active = {}
             /\ v.wine # u.wine => ok /\ u.launch /\ u.game \notin u.pending /\ v.wine = "game"
<1> DEFINE a == [u EXCEPT !.needed = needed]
           b == SyncFinished(a, ok)
           v == Recompute(b)
<1>1. /\ a \in Uis /\ Answering(a, p) /\ a.wine = u.wine /\ a.launch = u.launch
      /\ a.pending = u.pending /\ a.game = u.game
  BY NeededIs
<1> HIDE DEF a
<1>2. Answering(b, NoOp) /\ Ended(a, b) /\ b.launch = (a.launch /\ ok)
  BY <1>1, FinishedFair
<1> HIDE DEF b
<1>3. Good(v, NoOp) /\ Started(b, v) /\ v.active = {}
  BY <1>2, RecomputeFair DEF Answering, Changed, Moved, Staged
<1> HIDE DEF v
<1>4. v.wine # u.wine => ok /\ u.launch /\ u.game \notin u.pending /\ v.wine = "game"
  BY <1>1, <1>2, <1>3 DEF Started, Ended
<1> QED BY <1>3, <1>4 DEF v, b, a

\* What the check that starts finds: a game in its place, and nothing in its way.
Placed(u) ==
  /\ u.prefix /\ u.present /\ u.wine = "idle" /\ ~u.failed /\ world.prefix /\ u.checked
  /\ ~Shows(u, "setup")

LEMMA StartCheckIs ==
  ASSUME NEW u \in Uis, NEW p, NEW check \in {"Version", "Integrity"}, NEW able \in BOOLEAN,
         Answering(u, p), able => Placed(u), FreeIds(u) # {}
  PROVE  LET v == StartCheck(u, check, IF check = "Version" THEN "version" ELSE "integrity", able)
         IN  Good(v, NoOp) /\ v.wine = u.wine /\ u.dialog["update"].op \notin v.active
<1> DEFINE kind == IF check = "Version" THEN "version" ELSE "integrity"
           v == StartCheck(u, check, kind, able)
<1>1. CASE able
  <2> DEFINE op == NewOp(u, kind)
             w  == Observe([Run(u, "checker", op) EXCEPT !.op = op, !.check = check])
  <2>1. op \in Operation /\ op.kind = kind /\ op \notin Known(u)
    BY NewOpIs
  <2>2. v = Recompute(w)
    BY <1>1 DEF StartCheck
  <2> HIDE DEF op
  <2>3. /\ Sound(w, NoOp) /\ Followed(w) /\ Checking(u, w) /\ w.check = check /\ w.active = {op}
        /\ \A o : Shows(w, o) <=> Shows(u, o) \/ o = "update"
    BY <1>1, <2>1, ObserveIs DEF Answering, Fair, Placed
  <2> HIDE DEF w
  <2>4. Fair(w, NoOp)
    BY <1>1, <2>3 DEF Answering, Fair, Checking, Installed, RepairShown, Viewed, Placed
  <2>8. Updatable(w)
    BY <1>1, <2>3 DEF Updatable, Placed
  <2>5. Good(Recompute(w), NoOp) /\ Started(w, Recompute(w)) /\ Recompute(w).active = {op}
    BY <2>3, <2>4, <2>8, RecomputeFair DEF Changed, Moved, Staged
  <2>6. Recompute(w).wine = w.wine
    BY <2>3, <2>5 DEF Started
  <2>7. u.dialog["update"].op \notin {op}
    BY <2>1 DEF Known, Dialogs
  <2> QED BY <2>2, <2>3, <2>5, <2>6, <2>7 DEF Checking
<1>2. CASE ~able
  <2>1. v = Recompute(SyncFinished([u EXCEPT !.needed = FALSE], FALSE))
    BY <1>2 DEF StartCheck
  <2> HIDE DEF v
  <2>2. Good(v, NoOp) /\ v.wine = u.wine /\ v.active = {}
    BY <2>1, SyncRecomputed
  <2> QED BY <2>2 DEF v
<1> QED BY <1>1, <1>2

\* All but the launch and the games with changed files.
Unlaunched(u, v) ==
  /\ v.config = u.config /\ v.game = u.game /\ v.key = u.key /\ v.checked = u.checked
  /\ v.repairing = u.repairing /\ v.suspended = u.suspended /\ v.overlays = u.overlays
  /\ v.installing = u.installing /\ v.view = u.view /\ v.purpose = u.purpose
  /\ v.prefix = u.prefix /\ v.present = u.present /\ v.wine = u.wine /\ v.failed = u.failed
  /\ v.needed = u.needed /\ v.check = u.check /\ v.op = u.op /\ v.transfer = u.transfer
  /\ v.dialog = u.dialog /\ v.active = u.active /\ v.running = u.running
  /\ v.posted = u.posted /\ v.stage = u.stage

LEMMA UnlaunchedFair ==
  ASSUME NEW u, NEW v \in Uis, NEW p, Unlaunched(u, v), ~v.launch, u.pending \subseteq v.pending
  PROVE  /\ Sound(u, p) => Sound(v, p)
         /\ Fits(u) => Fits(v)
         /\ Fair(u, p) => Fair(v, p)
         /\ Updatable(u) => Updatable(v)
         /\ FreeIds(v) = FreeIds(u)
<1>1. (\A o : Shows(v, o) <=> Shows(u, o)) /\ (\A d : Holds(v, p, d) <=> Holds(u, p, d))
  BY DEF Unlaunched, Shows, Holds
<1>2. ASSUME Sound(u, p) PROVE Sound(v, p)
  <2>1. Work(v, p) /\ Reported(v, p)
    BY <1>1, <1>2 DEF Unlaunched, Sound, Work, CheckHolds, TransferHolds, Waited, Reported, Coming
  <2>2. Layers(v, p)
    BY <1>1, <1>2 DEF Unlaunched, Sound, Layers, Ordered, Above
  <2>3. Place(v)
    BY <1>2 DEF Unlaunched, Sound, Place
  <2> QED BY <2>1, <2>2, <2>3 DEF Sound
<1>3. Fits(u) => Fits(v)
  BY <1>1 DEF Unlaunched, Fits
<1>4. ASSUME Fair(u, p) PROVE Fair(v, p)
  BY <1>1, <1>2, <1>4 DEF Fair, Unlaunched, Followed, Installed, RepairShown, Viewed
<1>5. FreeIds(v) = FreeIds(u)
  BY DEF FreeIds, Known, Unlaunched
<1>6. Updatable(u) => Updatable(v)
  BY DEF Updatable, Unlaunched
<1> QED BY <1>2, <1>3, <1>4, <1>5, <1>6

LEMMA OpenFair ==
  ASSUME NEW u \in Uis, NEW p, NEW o \in Overlays \ {"repair"}, Fair(u, p), MayOpen(u, p, o)
  PROVE  LET v == Open(u, o)
         IN  /\ Fair(v, p) /\ Beside(u, v) /\ FreeIds(v) = FreeIds(u)
             /\ Updatable(u) => Updatable(v)
             /\ (\A x : Shows(v, x) <=> Shows(u, x) \/ x = o) /\ Above(v, o)
             /\ Fits(u) /\ (o \in {"update", "install"} =>
                  u.stage \notin {"SettingUpPrefix", "Running", "Failed"}) => Fits(v)
<1> DEFINE v == Open(u, o)
<1>1. Sound(u, p) /\ Layers(u, p)
  BY DEF Fair, Sound
<1>2. /\ v \in Uis /\ Beside(u, v) /\ Layers(v, p)
      /\ (\A x : Shows(v, x) <=> Shows(u, x) \/ x = o) /\ Above(v, o)
  BY <1>1, Opening
<1> HIDE DEF v
<1>3. Sound(v, p)
  BY <1>1, <1>2, BesideSound
<1>7. Updatable(u) => Updatable(v)
  BY <1>2 DEF Updatable, Beside
<1>4. Followed(v) /\ Installed(v) /\ RepairShown(v) /\ Viewed(v)
  BY <1>2 DEF Fair, Followed, Installed, RepairShown, Viewed, Beside, MayOpen
<1>5. FreeIds(v) = FreeIds(u)
  BY <1>2 DEF FreeIds, Known, Beside
<1>6. Fits(u) /\ (o \in {"update", "install"} =>
        u.stage \notin {"SettingUpPrefix", "Running", "Failed"}) => Fits(v)
  BY <1>2 DEF Fits, Beside
<1> QED BY <1>2, <1>3, <1>4, <1>5, <1>6, <1>7 DEF Fair, v

LEMMA CloseFair ==
  ASSUME NEW u \in Uis, NEW p, NEW o \in Overlays \ {"repair"}, Fair(u, p),
         o \in Dialogs => ~Holds(u, p, o)
  PROVE  LET v == Close(u, o)
         IN  /\ Fair(v, p) /\ Beside(u, v) /\ FreeIds(v) = FreeIds(u)
             /\ Updatable(u) => Updatable(v)
             /\ \A x : Shows(v, x) <=> Shows(u, x) /\ x # o
             /\ Fits(u) => Fits(v)
<1> DEFINE v == Close(u, o)
<1>1. Sound(u, p) /\ Layers(u, p)
  BY DEF Fair, Sound
<1>2. /\ v \in Uis /\ Beside(u, v) /\ Layers(v, p)
      /\ \A x : Shows(v, x) <=> Shows(u, x) /\ x # o
  BY <1>1, Closing
<1> HIDE DEF v
<1>3. Sound(v, p)
  BY <1>1, <1>2, BesideSound
<1>7. Updatable(u) => Updatable(v)
  BY <1>2 DEF Updatable, Beside
<1>4. Followed(v) /\ Installed(v) /\ RepairShown(v) /\ Viewed(v)
  BY <1>2 DEF Fair, Followed, Installed, RepairShown, Viewed, Beside
<1>5. FreeIds(v) = FreeIds(u)
  BY <1>2 DEF FreeIds, Known, Beside
<1>6. Fits(u) => Fits(v)
  BY <1>2 DEF Fits, Beside
<1> QED BY <1>2, <1>3, <1>4, <1>5, <1>6, <1>7 DEF Fair, v

LEMMA CheckedIs ==
  ASSUME NEW u \in Uis, NEW p, NEW check \in {"Version", "Integrity"}, NEW what, NEW able \in BOOLEAN,
         Answering(u, p), Placed(u), FreeIds(u) # {},
         what \in {"ok", "failed", "cancelled"}
                    \cup (IF check = "Version" THEN {"outdated"} ELSE {"damaged"})
  PROVE  LET v == Checked(u, check, what, able)
         IN  /\ Good(v, NoOp) /\ u.dialog["update"].op \notin v.active
             /\ v.wine # u.wine =>
                  check = "Integrity" /\ what = "ok" /\ u.launch /\ u.game \notin u.pending /\ v.wine = "game"
<1> DEFINE v == Checked(u, check, what, able)
           n == [u EXCEPT !.needed = FALSE]
<1>1. world.prefix
  BY DEF Placed
<1>2. CASE what \in {"failed", "cancelled"}
  <2>1. v = Recompute(SyncFinished([u EXCEPT !.needed = FALSE], FALSE))
    BY <1>2 DEF Checked
  <2> HIDE DEF v
  <2>2. Good(v, NoOp) /\ v.wine = u.wine /\ v.active = {}
    BY <2>1, SyncRecomputed
  <2> QED BY <2>2 DEF v
<1>3. CASE what = "outdated" /\ check = "Version"
  <2>1. v = Recompute(SyncFinished([u EXCEPT !.needed = TRUE], FALSE))
    BY <1>3 DEF Checked
  <2> HIDE DEF v
  <2>2. Good(v, NoOp) /\ v.wine = u.wine /\ v.active = {}
    BY <1>1, <2>1, SyncRecomputed
  <2> QED BY <2>2 DEF v
<1>4. CASE what = "ok" /\ check = "Version"
  <2>1. v = StartCheck(n, "Integrity", "integrity", able)
    BY <1>4 DEF Checked
  <2>2. /\ n \in Uis /\ Answering(n, p) /\ FreeIds(n) = FreeIds(u) /\ n.wine = u.wine
        /\ n.prefix = u.prefix /\ n.present = u.present /\ n.failed = u.failed
        /\ n.checked = u.checked /\ n.overlays = u.overlays /\ n.dialog = u.dialog
    BY NeededIs
  <2> HIDE DEF n, v
  <2>3. Placed(n)
    BY <2>2 DEF Placed, Shows
  <2>4. Good(v, NoOp) /\ v.wine = n.wine /\ n.dialog["update"].op \notin v.active
    BY <2>1, <2>2, <2>3, StartCheckIs
  <2> QED BY <2>2, <2>4 DEF v
<1>5. CASE what = "damaged" /\ check = "Integrity"
  <2> DEFINE a == SyncFinished(n, FALSE)
             b == [a EXCEPT !.launch = FALSE, !.pending = @ \cup {a.game}]
             c == Open(b, "files")
  <2>1. v = Recompute(c)
    BY <1>5 DEF Checked, RepairRequired
  <2>2. n \in Uis /\ Answering(n, p) /\ n.wine = u.wine
    BY NeededIs
  <2> HIDE DEF n, v
  <2>3. Answering(a, NoOp) /\ Ended(n, a)
    BY <2>2, FinishedFair
  <2> HIDE DEF a
  <2>4. a \in Uis /\ Fair(a, NoOp) /\ Updatable(a)
    BY <2>3 DEF Answering, Fair, Sound
  <2>5. /\ b \in Uis /\ Unlaunched(a, b) /\ ~b.launch /\ b.pending = a.pending \cup {a.game}
    BY <2>4, ZenonT(40) DEF Uis, Unlaunched
  <2> HIDE DEF b
  <2>6. Fair(b, NoOp) /\ Updatable(b)
    BY <2>4, <2>5, UnlaunchedFair
  <2>7. MayOpen(b, NoOp, "files")
    <3>1. \A d \in Dialogs : ~Holds(a, NoOp, d)
      BY <2>3, <2>4, IdleIs DEF Answering, Fair, Sound
    <3> QED BY <2>5, <3>1 DEF MayOpen, Holds, Unlaunched
  <2>8. Fair(c, NoOp) /\ Beside(b, c) /\ Updatable(c)
    BY <2>5, <2>6, <2>7, OpenFair DEF Overlays
  <2> HIDE DEF c
  <2>9. Good(v, NoOp) /\ Started(c, v) /\ v.active = c.active
    BY <2>1, <2>8, RecomputeFair DEF Changed, Moved, Staged
  <2>10. v.wine = u.wine
    BY <2>2, <2>3, <2>5, <2>8, <2>9 DEF Started, Beside, Unlaunched, Ended
  <2>11. v.active = {}
    BY <2>3, <2>5, <2>8, <2>9 DEF Answering, Beside, Unlaunched
  <2> QED BY <2>9, <2>10, <2>11 DEF v
<1>6. CASE what = "ok" /\ check = "Integrity"
  <2>1. v = Recompute(SyncFinished([u EXCEPT !.needed = FALSE], TRUE))
    BY <1>6 DEF Checked
  <2> HIDE DEF v
  <2>2. /\ Good(v, NoOp) /\ v.active = {}
        /\ v.wine # u.wine => u.launch /\ u.game \notin u.pending /\ v.wine = "game"
    BY <2>1, SyncRecomputed
  <2> QED BY <1>6, <2>2 DEF v
<1> QED BY <1>2, <1>3, <1>4, <1>5, <1>6

(***************************************************************************)
(* Transfers                                                               *)
(***************************************************************************)
\* The report of the operation p has been taken from the queue, and nothing has been done
\* about it yet.
Receiving(u, p) ==
  /\ u \in Uis /\ Work(u, NoOp) /\ Reported(u, p) /\ Place(u) /\ Layers(u, NoOp)
  /\ Fits(u) /\ Followed(u) /\ Installed(u) /\ RepairShown(u) /\ Viewed(u)

LEMMA GoodReceives ==
  ASSUME NEW u, NEW p, Good(u, NoOp)
  PROVE  Receiving(u, p)
  BY DEF Good, Sound, Receiving, Reported, Holds

LEMMA OneHolder ==
  ASSUME NEW u, NEW p, NEW d \in Dialogs, NEW e \in Dialogs, Layers(u, p),
         Holds(u, p, d), Holds(u, p, e)
  PROVE  d = e
<1>1. SUFFICES ASSUME d # e PROVE FALSE
  OBVIOUS
<1>2. Above(u, d) /\ Above(u, e) /\ Ordered(u)
  BY DEF Layers
<1>3. e \in u.overlays[d] /\ d \in u.overlays[e]
  BY <1>1, <1>2 DEF Above, Shows, Dialogs
<1> QED BY <1>2, <1>3 DEF Ordered, Above, Shows

\* A dialog has an operation that is no check: it is a transfer, and the only one.
LEMMA TransferHeld ==
  ASSUME NEW u \in Uis, NEW p, NEW d \in Dialogs, Work(u, NoOp), Layers(u, NoOp), Place(u),
         u.dialog[d].op = p, p # NoOp, p # u.op
  PROVE  /\ ~u.dialog[d].observing /\ p.kind = "transfer" /\ u.transfer /\ u.check = "None"
         /\ u.op = NoOp /\ u.wine = "idle" /\ Above(u, d) /\ p \in u.active
         /\ \A e \in Dialogs : ~u.dialog[e].observing
         /\ \A e \in Dialogs \ {d} : u.dialog[e].op = NoOp
<1>1. Holds(u, NoOp, d)
  BY DEF Holds
<1>2. ~u.dialog[d].observing
  BY DEF Work, CheckHolds, Dialogs
<1>3. u.transfer /\ u.check = "None" /\ p.kind = "transfer"
  BY <1>1, <1>2 DEF Work, TransferHolds
<1>4. u.op = NoOp /\ \A e \in Dialogs : ~u.dialog[e].observing
  BY <1>3 DEF Work, CheckHolds, Dialogs
<1>5. \A e \in Dialogs \ {d} : u.dialog[e].op = NoOp
  BY <1>1, OneHolder DEF Holds
<1>6. p \in Waited(u)
  BY DEF Waited
<1> QED BY <1>1, <1>2, <1>3, <1>4, <1>5, <1>6 DEF Work, Layers, Place

\* All but the transfer, and what is known of the game after it.
Untransferred(u, v) ==
  /\ v.config = u.config /\ v.game = u.game /\ v.checked = u.checked
  /\ v.launch = u.launch /\ v.pending = u.pending /\ v.repairing = u.repairing
  /\ v.suspended = u.suspended /\ v.overlays = u.overlays /\ v.installing = u.installing
  /\ v.view = u.view /\ v.purpose = u.purpose /\ v.prefix = u.prefix
  /\ v.wine = u.wine /\ v.failed = u.failed /\ v.check = u.check
  /\ v.op = u.op /\ v.dialog = u.dialog /\ v.active = u.active /\ v.running = u.running
  /\ v.posted = u.posted /\ v.stage = u.stage

LEMMA TransferOver ==
  ASSUME NEW u, NEW p, NEW d \in Dialogs, NEW v \in Uis, Receiving(u, p),
         u.dialog[d].op = p, p # NoOp, p # u.op,
         Untransferred(u, v), ~v.transfer,
         v.needed /\ u.prefix /\ v.present => world.prefix
  PROVE  Sound(v, p) /\ Followed(v) /\ RepairShown(v) /\ Viewed(v) /\ Updatable(v)
<1>1. /\ u \in Uis /\ Work(u, NoOp) /\ Reported(u, p) /\ Place(u) /\ Layers(u, NoOp)
      /\ Followed(u) /\ RepairShown(u) /\ Viewed(u)
  BY DEF Receiving
<1>2. /\ ~u.dialog[d].observing /\ u.check = "None" /\ u.op = NoOp
      /\ \A e \in Dialogs : ~u.dialog[e].observing
      /\ \A e \in Dialogs \ {d} : u.dialog[e].op = NoOp
      /\ p.kind = "transfer"
  BY <1>1, TransferHeld
<1>3. (\A o : Shows(v, o) <=> Shows(u, o)) /\ v.dialog = u.dialog
  BY DEF Shows, Untransferred
<1>4. \A e \in Dialogs : ~Holds(v, p, e)
  BY <1>2, <1>3 DEF Holds
<1>5. Work(v, p)
  <2>1. CheckHolds(v, p)
    BY <1>2 DEF CheckHolds, Dialogs, Untransferred
  <2>2. TransferHolds(v, p)
    BY <1>2, <1>3, <1>4 DEF TransferHolds
  <2>3. Waited(v) = Waited(u)
    BY DEF Waited, Untransferred
  <2>4. NoOp \notin u.active
    BY <1>1, NoOpIsNone DEF Uis
  <2>5. v.active = Waited(v)
    BY <1>1, <2>3, <2>4 DEF Work, Waited, Untransferred
  <2> QED BY <2>1, <2>2, <2>5 DEF Work
<1>6. Reported(v, p)
  BY <1>2, <1>4 DEF Reported, Untransferred
<1>7. Layers(v, p)
  BY <1>1, <1>3, <1>4 DEF Layers, Ordered, Dialogs, Untransferred
<1>8. Place(v)
  BY <1>1, <1>2 DEF Place, Untransferred
<1>9. Followed(v) /\ RepairShown(v) /\ Viewed(v) /\ Updatable(v)
  BY <1>1, <1>3 DEF Followed, RepairShown, Viewed, Updatable, Untransferred
<1> QED BY <1>5, <1>6, <1>7, <1>8, <1>9 DEF Sound

\* The last report of a transfer.
LEMMA TransferEnds ==
  ASSUME NEW u, NEW p, NEW d \in Dialogs, Receiving(u, p),
         u.dialog[d].op = p, p # NoOp, p # u.op,
         NEW what \in {"ok", "failed", "cancelled"}
  PROVE  LET v == Transferred(u, what)
         IN  /\ Good(v, p) /\ v.dialog = u.dialog /\ v.active = u.active
             /\ v.repairing = u.repairing /\ ~v.transfer /\ v.game = u.game /\ v.check = "None"
             /\ v.config = u.config /\ v.op = NoOp
             /\ (v.launch => u.launch)
             /\ \A x \in {"repair", "files"} : Shows(v, x) <=> Shows(u, x)
             /\ v.wine # u.wine => what = "ok" /\ u.launch /\ u.game \notin u.pending /\ v.wine = "game"
<1> DEFINE v == Transferred(u, what)
<1>1. /\ u \in Uis /\ Work(u, NoOp) /\ Place(u) /\ Layers(u, NoOp) /\ Installed(u)
      /\ RepairShown(u) /\ u.needed \in BOOLEAN /\ u.present \in BOOLEAN
      /\ u.key \in Games /\ u.config \in Games
  BY DEF Receiving, Uis
<1>2. u.check = "None" /\ u.op = NoOp /\ Above(u, d)
  BY <1>1, TransferHeld
<1>3. SUFFICES ASSUME NEW w, Sound(w, p), Followed(w), RepairShown(w), Viewed(w),
                      Updatable(w),
                      v = Recompute(w),
                      /\ ~w.transfer /\ w.dialog = u.dialog /\ w.active = u.active
                      /\ w.repairing = u.repairing /\ w.game = u.game /\ w.check = u.check
                      /\ w.config = u.config /\ w.op = u.op /\ w.wine = u.wine
                      /\ w.launch = u.launch /\ w.pending = u.pending /\ w.overlays = u.overlays,
                      what # "ok" => w.needed \/ ~w.launch,
                      Installed(w) \/ (~w.repairing /\ ~w.transfer /\ w.check = "None")
               PROVE  Good(v, p) /\ Staged(w, v)
                      /\ (\A x \in {"repair", "files"} : Shows(v, x) <=> Shows(w, x))
                      /\ (v.launch => w.launch)
                      /\ (v.wine # w.wine => what = "ok" /\ w.launch /\ w.game \notin w.pending
                                             /\ v.wine = "game")
  <2> DEFINE Enough(w) ==
        /\ Sound(w, p) /\ Followed(w) /\ RepairShown(w) /\ Viewed(w) /\ Updatable(w)
        /\ v = Recompute(w)
        /\ ~w.transfer /\ w.dialog = u.dialog /\ w.active = u.active
        /\ w.repairing = u.repairing /\ w.game = u.game /\ w.check = u.check
        /\ w.config = u.config /\ w.op = u.op /\ w.wine = u.wine
        /\ w.launch = u.launch /\ w.pending = u.pending /\ w.overlays = u.overlays
        /\ what # "ok" => w.needed \/ ~w.launch
        /\ Installed(w) \/ (~w.repairing /\ ~w.transfer /\ w.check = "None")
  <2>1. ASSUME NEW w, Enough(w)
        PROVE  /\ Good(v, p) /\ v.dialog = u.dialog /\ v.active = u.active
               /\ v.repairing = u.repairing /\ ~v.transfer /\ v.game = u.game /\ v.check = "None"
               /\ v.config = u.config /\ v.op = NoOp
               /\ (v.launch => u.launch)
               /\ \A x \in {"repair", "files"} : Shows(v, x) <=> Shows(u, x)
               /\ v.wine # u.wine => what = "ok" /\ u.launch /\ u.game \notin u.pending /\ v.wine = "game"
    <3>1. /\ Good(v, p) /\ Staged(w, v) /\ (v.launch => w.launch)
          /\ \A x \in {"repair", "files"} : Shows(v, x) <=> Shows(w, x)
          /\ (v.wine # w.wine => what = "ok" /\ w.launch /\ w.game \notin w.pending /\ v.wine = "game")
      BY <2>1, <1>3
    <3> HIDE DEF v
    <3> QED BY <2>1, <3>1, <1>2 DEF Staged, Shows
  <2>2. \E w : Enough(w)
    <3>1. CASE u.repairing
      <4> DEFINE w == [u EXCEPT !.transfer = FALSE, !.needed = FALSE]
      <4>2. v = Recompute(w)
        <5>1. what # "working"
          OBVIOUS
        <5>2. v = Recompute([u EXCEPT !.transfer = FALSE, !.needed = FALSE])
          BY <3>1, <5>1 DEF Transferred
        <5> QED BY <5>2
      <4>3. /\ w \in Uis /\ ~w.transfer /\ w.needed = FALSE /\ w.present = u.present
            /\ Untransferred(u, w)
        BY <1>1 DEF Uis, Untransferred
      <4> HIDE DEF w, v
      <4>5. Sound(w, p) /\ Followed(w) /\ RepairShown(w) /\ Viewed(w) /\ Updatable(w)
        BY <1>1, <4>3, TransferOver DEF Place
      <4>4. Installed(w) /\ ~w.launch
        BY <1>1, <3>1, <4>3 DEF Installed, Shows, Place, Untransferred
      <4> QED BY <4>2, <4>3, <4>4, <4>5 DEF Untransferred
    <3>2. CASE ~u.repairing /\ what \in {"failed", "cancelled"}
      <4> DEFINE w == [u EXCEPT !.transfer = FALSE, !.needed = TRUE]
      <4>2. v = Recompute(w)
        <5>1. what # "working"
          OBVIOUS
        <5>2. v = Recompute([u EXCEPT !.transfer = FALSE, !.needed = TRUE])
          BY <3>2, <5>1 DEF Transferred
        <5> QED BY <5>2
      <4>3. /\ w \in Uis /\ ~w.transfer /\ w.needed = TRUE /\ w.present = u.present
            /\ Untransferred(u, w)
        BY <1>1 DEF Uis, Untransferred
      <4> HIDE DEF w, v
      <4>5. Sound(w, p) /\ Followed(w) /\ RepairShown(w) /\ Viewed(w) /\ Updatable(w)
        <5>2. Shows(u, d) /\ d \in {"update", "install"}
          BY <1>1, <1>2, <3>2 DEF Above, RepairShown, Dialogs
        <5>3. u.prefix /\ u.present => world.prefix
          BY <1>1, <5>2 DEF Layers, Installed
        <5> QED BY <1>1, <4>3, <5>3, TransferOver DEF Place
      <4>4. Installed(w)
        BY <1>1, <4>3 DEF Installed, Shows, Untransferred
      <4> QED BY <4>2, <4>3, <4>4, <4>5 DEF Untransferred
    <3>3. CASE ~u.repairing /\ what = "ok"
      <4>0. PICK there \in BOOLEAN : there <=> (u.config \in world.installed)
        OBVIOUS
      <4> DEFINE w == [u EXCEPT !.transfer = FALSE, !.needed = FALSE, !.key = u.config,
                            !.present = there]
                 x == ScheduleProbe(w)
      <4>2. v = Recompute(x)
        <5>1. what = "ok" /\ there = (u.config \in world.installed)
          BY <3>3, <4>0
        <5> QED BY <3>3, <5>1 DEF Transferred
      <4>3. w \in Uis /\ ~w.transfer /\ ~w.needed /\ w.present = there /\ Untransferred(u, w)
        <5>1. w \in Uis
          BY <1>1 DEF Uis
        <5>2. w.transfer = FALSE /\ w.needed = FALSE
          BY <1>1 DEF Uis
        <5>3. w.present = there
          BY <1>1, Zenon DEF Uis
        <5>4. Untransferred(u, w)
          BY <1>1 DEF Uis, Untransferred
        <5> QED BY <5>1, <5>2, <5>3, <5>4
      <4> HIDE DEF w, v
      <4>7. Sound(w, p) /\ Followed(w) /\ RepairShown(w) /\ Viewed(w) /\ Updatable(w)
        BY <1>1, <4>0, <4>3, TransferOver
      <4>4. Sound(x, p) /\ Queued(w, x)
        BY <4>3, <4>7, ScheduleProbeIs
      <4> HIDE DEF x
      <4>5. Followed(x) /\ RepairShown(x) /\ Viewed(x) /\ Updatable(x)
        BY <4>4, <4>7, QueuedSound DEF Sound, Updatable, Queued
      <4>6. Enough(x)
        BY <1>2, <3>3, <4>2, <4>3, <4>4, <4>5 DEF Queued, Untransferred
      <4> QED BY <4>6
    <3> QED BY <3>1, <3>2, <3>3
  <2> QED BY <2>1, <2>2
<1>4. w \in Uis
  BY <1>3 DEF Sound
<1> HIDE DEF v
<1>5. /\ Changed(w, v, p) /\ Viewed(v)
      /\ v.wine # w.wine => ~w.transfer /\ w.check = "None" /\ ~w.needed /\ w.stage # "Ready"
  BY <1>3, <1>4, RecomputeIs
<1>6. RepairShown(v)
  BY <1>3, <1>5 DEF Changed, Moved, Staged, RepairShown
<1>7. Installed(v)
  <2>1. CASE Installed(w)
    BY <2>1, <1>5 DEF Changed, Moved, Staged, Installed
  <2>2. CASE ~w.repairing /\ ~w.transfer /\ w.check = "None"
    <3>1. SUFFICES ASSUME Shows(v, "install"), v.present, v.prefix PROVE FALSE
      BY DEF Installed
    <3>2. Fits(v) /\ Layers(v, p) /\ v \in Uis /\ ~v.transfer /\ v.check = "None" /\ ~v.repairing
      BY <1>5, <2>2 DEF Changed, Moved, Staged, Sound
    <3>3. v.stage \in {"NeedsUpdate", "Ready"}
      BY <3>1, <3>2 DEF Fits, Uis, Stages
    <3>4. v.view = "chooser"
      BY <1>5, <3>2, <3>3, ViewIs DEF Viewed
    <3> QED BY <3>1, <3>2, <3>4 DEF Layers
  <2> QED BY <1>3, <2>1, <2>2
<1>8. w.launch => w.game \notin w.pending
  BY <1>3 DEF Sound, Place
<1> QED BY <1>3, <1>5, <1>6, <1>7, <1>8 DEF Changed, Moved, Good

\* Progress of a transfer that is known to go on.
LEMMA TransferGoesOn ==
  ASSUME NEW u, NEW p, NEW d \in Dialogs, Good(u, NoOp), u.dialog[d].op = p, p # NoOp, p # u.op
  PROVE  Good(Transferred(u, "working"), NoOp) /\ Transferred(u, "working").wine = u.wine
<1>1. u \in Uis /\ Work(u, NoOp) /\ Layers(u, NoOp) /\ Place(u)
  BY DEF Good, Sound
<1>2. u.transfer = TRUE
  BY <1>1, TransferHeld DEF Uis
<1>3. [u EXCEPT !.transfer = TRUE] = u
  BY <1>1, <1>2 DEF Uis
<1>4. Transferred(u, "working") = Recompute(u)
  BY <1>3 DEF Transferred
<1>5. Fair(u, NoOp) /\ Updatable(u)
  BY <1>2, FitsUpdatable DEF Good, Fair
<1>6. Good(Recompute(u), NoOp) /\ Started(u, Recompute(u))
  BY <1>5, RecomputeFair
<1>7. Recompute(u).wine = u.wine
  BY <1>2, <1>6 DEF Started
<1> QED BY <1>4, <1>6, <1>7

LEMMA StartDownloadIs ==
  ASSUME NEW u, NEW d \in Dialogs, NEW able \in BOOLEAN, Good(u, NoOp), Idle(u, NoOp),
         Above(u, d), d = "install" => u.installing, u.wine = "idle", u.failed => u.repairing,
         FreeIds(u) # {}
  PROVE  Good(StartDownload(u, d, able), NoOp) /\ StartDownload(u, d, able).wine = u.wine
<1>1. /\ u \in Uis /\ Sound(u, NoOp) /\ Work(u, NoOp) /\ Place(u) /\ Layers(u, NoOp)
  BY DEF Good, Sound
<1>2. /\ u.op = NoOp /\ u.active = {} /\ u.check = "None"
      /\ \A e \in Dialogs : u.dialog[e].op = NoOp /\ ~u.dialog[e].observing
  <2>1. NoOp \notin u.active
    BY <1>1, NoOpIsNone DEF Uis
  <2> QED BY <1>1, <2>1, IdleIs DEF Idle, Dialogs
<1>3. PICK unable \in BOOLEAN : unable = ~able
  OBVIOUS
<1> DEFINE op == NewOp(u, "transfer")
           c  == CourierCancel(u, d)
           z  == [c EXCEPT !.dialog[d].observing = FALSE, !.dialog[d].retry = unable]
           v  == StartDownload(u, d, able)
<1>4. v = IF ~able THEN z
          ELSE Report([Run(z, d, op) EXCEPT !.dialog[d].op = op], Status(op, "working"), able)
  <2>1. ~(u.dialog[d].op # NoOp)
    BY <1>2
  <2>2. v = LET x == [c EXCEPT !.dialog[d].observing = FALSE, !.dialog[d].retry = ~able]
            IN  IF ~able THEN x
                ELSE Report([Run(x, d, op) EXCEPT !.dialog[d].op = op], Status(op, "working"), able)
    BY <2>1, Zenon DEF StartDownload
  <2> QED BY <1>3, <2>2
<1>5. op \in Operation /\ op.kind = "transfer" /\ op # NoOp /\ op \in OpsOrNone
  BY <1>1, NewOpIs, NoOpIsNone DEF OpsOrNone
<1>6. c \in Uis /\ Sound(c, NoOp) /\ Queued(u, c)
  BY <1>1, CancelSound DEF Sound, Couriers
<1>7. Good(c, NoOp)
  BY <1>1, <1>6, QueuedSound DEF Good
<1> HIDE DEF op, v, c, z
<1>8. /\ z \in Uis /\ Undialogued(c, z)
      /\ \A e \in Dialogs : z.dialog[e].op = NoOp /\ ~z.dialog[e].observing
  <2> DEFINE x == [c.dialog[d] EXCEPT !.observing = FALSE, !.retry = unable]
             D == [c.dialog EXCEPT ![d] = x]
             w == [c EXCEPT !.dialog = D]
  <2>1. c.dialog \in [Dialogs -> DialogStates] /\ c.dialog[d] \in DialogStates
    BY <1>6 DEF Uis
  <2>2. z = w
    BY <1>6, <2>1 DEF Uis, DialogStates, z
  <2>3. x \in DialogStates /\ x.op = c.dialog[d].op /\ ~x.observing
    BY <2>1 DEF DialogStates
  <2> HIDE DEF x
  <2>4. D \in [Dialogs -> DialogStates] /\ D[d] = x /\ \A e \in Dialogs \ {d} : D[e] = c.dialog[e]
    BY <2>1, <2>3
  <2> HIDE DEF D
  <2>5. w \in Uis /\ Undialogued(c, w) /\ w.dialog = D
    BY <1>6, <2>4 DEF Uis, Undialogued
  <2> HIDE DEF w
  <2>6. c.dialog = u.dialog
    BY <1>6 DEF Queued
  <2> QED BY <1>2, <2>2, <2>3, <2>4, <2>5, <2>6
<1>9. /\ z.op = NoOp /\ z.active = {} /\ z.check = "None" /\ ~z.transfer
      /\ z.wine = u.wine /\ z.failed = u.failed /\ z.repairing = u.repairing
      /\ z.installing = u.installing /\ z.overlays = u.overlays
  BY <1>2, <1>6, <1>8 DEF Queued, Undialogued, Idle
<1>10. Good(z, NoOp)
  <2>1. Work(z, NoOp) /\ Reported(z, NoOp)
    BY <1>8, <1>9, QuietWork DEF AllQuiet
  <2>2. (\A o : Shows(z, o) <=> Shows(c, o)) /\ (\A e \in Dialogs : ~Holds(z, NoOp, e))
    BY <1>8 DEF Shows, Undialogued, Holds
  <2>3. Layers(z, NoOp)
    BY <1>7, <1>8, <2>2 DEF Good, Sound, Layers, Ordered, Undialogued, Dialogs
  <2>4. Place(z) /\ Fits(z) /\ Followed(z) /\ Installed(z) /\ RepairShown(z) /\ Viewed(z)
    BY <1>7, <1>8, <2>2
       DEF Good, Sound, Place, Fits, Followed, Installed, RepairShown, Viewed, Undialogued
  <2> QED BY <1>8, <2>1, <2>3, <2>4 DEF Good, Sound
<1>11. CASE ~able
  BY <1>4, <1>9, <1>10, <1>11 DEF v
<1>12. CASE able
  <2> DEFINE r == [z.running EXCEPT ![d] = op]
             x == [z EXCEPT !.running = r, !.active = {op}]
             b == [x EXCEPT !.dialog[d].op = op]
             y == [b EXCEPT !.transfer = TRUE]
  <2>1. Run(z, d, op) = x
    <3>1. z.active \cup {op} = {op}
      BY <1>9
    <3> QED BY <1>8, <3>1 DEF Run, Uis
  <2>2. r \in [Couriers -> OpsOrNone] /\ r[d] = op
    BY <1>5, <1>8 DEF Couriers, Uis
  <2> HIDE DEF r
  <2>3. /\ x \in Uis /\ Checking(z, x) /\ x.dialog = z.dialog /\ x.running = r /\ x.active = {op}
        /\ x.op = NoOp /\ x.check = "None" /\ x.overlays = z.overlays
    BY <1>5, <1>8, <1>9, <2>2, ZenonT(40) DEF Uis, Checking
  <2> HIDE DEF x
  <2>4. /\ b \in Uis /\ Undialogued(x, b)
        /\ b.dialog[d].op = op /\ ~b.dialog[d].observing
        /\ \A e \in Dialogs \ {d} : b.dialog[e] = x.dialog[e]
    <3> DEFINE t == [x.dialog[d] EXCEPT !.op = op]
               D == [x.dialog EXCEPT ![d] = t]
               w == [x EXCEPT !.dialog = D]
    <3>1. x.dialog \in [Dialogs -> DialogStates] /\ x.dialog[d] \in DialogStates
      BY <2>3 DEF Uis
    <3>2. b = w
      BY <2>3, <3>1 DEF Uis, DialogStates
    <3>3. t \in DialogStates /\ t.op = op /\ t.observing = x.dialog[d].observing
      BY <1>5, <3>1 DEF DialogStates
    <3> HIDE DEF t
    <3>4. D \in [Dialogs -> DialogStates] /\ D[d] = t
          /\ \A e \in Dialogs \ {d} : D[e] = x.dialog[e]
      BY <3>1, <3>3
    <3> HIDE DEF D
    <3>5. w \in Uis /\ Undialogued(x, w) /\ w.dialog = D
      BY <2>3, <3>4 DEF Uis, Undialogued
    <3> HIDE DEF w, b
    <3> QED BY <1>8, <2>3, <3>2, <3>3, <3>4, <3>5
  <2> HIDE DEF b
  <2>5. y \in Uis /\ y.transfer = TRUE
    BY <2>4 DEF Uis
  <2>7. Untransferred(b, y) /\ y.needed = b.needed /\ y.present = b.present
    BY <2>4 DEF Uis, Untransferred
  <2>6. v = Recompute(y)
    <3>1. v = Report(b, Status(op, "working"), able)
      BY <1>4, <1>12, <2>1 DEF b
    <3>2. b.op = NoOp /\ b.active = {op}
      BY <2>3, <2>4 DEF Undialogued
    <3>3. OnCourierStatus(b, Status(op, "working"), able) = Transferred(b, "working")
      BY <1>5, <3>2 DEF OnCourierStatus, Status
    <3>4. Transferred(b, "working") = Recompute(y)
      BY DEF Transferred
    <3>5. OnDialogStatus(Recompute(y), Status(op, "working")) = Recompute(y)
      BY DEF OnDialogStatus, Status
    <3> QED BY <3>1, <3>2, <3>3, <3>4, <3>5 DEF Report, Status
  <2> HIDE DEF y
  <2>8. /\ y.config = z.config /\ y.game = z.game /\ y.launch = z.launch /\ y.pending = z.pending
        /\ y.repairing = z.repairing /\ y.suspended = z.suspended /\ y.installing = z.installing
        /\ y.view = z.view /\ y.prefix = z.prefix /\ y.present = z.present /\ y.wine = z.wine
        /\ y.failed = z.failed /\ y.needed = z.needed /\ y.stage = z.stage
    BY <2>3, <2>4, <2>7 DEF Checking, Undialogued, Untransferred
  <2>9. /\ y.running = r /\ y.active = {op} /\ y.op = NoOp /\ y.check = "None"
        /\ y.overlays = z.overlays
    BY <2>3, <2>4, <2>7 DEF Undialogued, Untransferred
  <2>10. \A o : Shows(y, o) <=> Shows(z, o)
    BY <2>9 DEF Shows
  <2>11. /\ Holds(y, NoOp, d) /\ ~y.dialog[d].observing /\ y.dialog[d].op = op
         /\ \A e \in Dialogs \ {d} : ~Holds(y, NoOp, e) /\ y.dialog[e].op = NoOp
                                     /\ ~y.dialog[e].observing
    BY <1>5, <1>8, <2>3, <2>4, <2>7 DEF Holds, Untransferred
  <2>12. Work(y, NoOp)
    <3>1. CheckHolds(y, NoOp)
      BY <2>9, <2>11 DEF CheckHolds, Dialogs
    <3>2. TransferHolds(y, NoOp)
      BY <1>5, <2>5, <2>9, <2>11 DEF TransferHolds
    <3>3. Waited(y) = {op}
      BY <1>5, <2>9, <2>11 DEF Waited
    <3> QED BY <2>9, <3>1, <3>2, <3>3 DEF Work
  <2>13. Reported(y, NoOp)
    BY <2>2, <2>9, <2>11 DEF Reported, Coming
  <2>14. Layers(y, NoOp)
    <3>1. Ordered(y) /\ Above(y, d)
      BY <1>1, <1>9, <2>9 DEF Layers, Ordered, Above, Shows
    <3>2. /\ \A e \in Dialogs : Holds(y, NoOp, e) => Above(y, e)
          /\ Holds(y, NoOp, "install") => y.installing
      BY <1>9, <2>8, <2>11, <3>1 DEF Dialogs
    <3>3. /\ Shows(y, "update") => y.prefix /\ world.prefix
          /\ y.wine # "idle" \/ y.failed => ~Shows(y, "update") /\ ~Shows(y, "install")
          /\ Shows(y, "setup") => ~Shows(y, "update") /\ ~Shows(y, "install")
          /\ Shows(y, "files") => y.game \in y.pending
          /\ y.view = "chooser" => ~Shows(y, "setup") /\ ~Shows(y, "install")
          /\ Shows(y, "repair") /\ Shows(y, "files") => "repair" \in y.overlays["files"]
      BY <1>10, <2>8, <2>9, <2>10 DEF Good, Sound, Layers
    <3> QED BY <3>1, <3>2, <3>3 DEF Layers
  <2>15. Place(y)
    BY <1>9, <1>10, <2>8, <2>9 DEF Place, Good, Sound
  <2>16. Followed(y) /\ Installed(y) /\ RepairShown(y) /\ Viewed(y)
    BY <1>10, <2>8, <2>10 DEF Good, Followed, Installed, RepairShown, Viewed
  <2>17. Fair(y, NoOp)
    BY <2>5, <2>12, <2>13, <2>14, <2>15, <2>16 DEF Fair, Sound
  <2>20. Updatable(y)
    <3>1. Shows(z, d)
      BY <1>9 DEF Above, Shows
    <3>2. Shows(z, "update") \/ Shows(z, "install") \/ z.repairing
      BY <1>10, <3>1 DEF Good, RepairShown, Dialogs
    <3>3. Updatable(z)
      BY <1>10, <3>2, FitsUpdatable DEF Good
    <3> QED BY <2>8, <3>3 DEF Updatable
  <2>18. Good(Recompute(y), NoOp) /\ Started(y, Recompute(y))
    BY <2>17, <2>20, RecomputeFair
  <2>19. Recompute(y).wine = u.wine
    BY <1>9, <2>5, <2>8, <2>18 DEF Started
  <2> QED BY <2>6, <2>18, <2>19 DEF v
<1> QED BY <1>11, <1>12

(***************************************************************************)
(* After a dialog                                                          *)
(***************************************************************************)
\* All but what the end of a dialog settles.
Settled(u, v) ==
  /\ v.config = u.config /\ v.game = u.game /\ v.checked = u.checked
  /\ v.launch = u.launch /\ v.pending = u.pending
  /\ v.suspended = u.suspended /\ v.overlays = u.overlays /\ v.installing = u.installing
  /\ v.view = u.view /\ v.purpose = u.purpose /\ v.prefix = u.prefix /\ v.present = u.present
  /\ v.wine = u.wine /\ v.failed = u.failed /\ v.check = u.check
  /\ v.op = u.op /\ v.dialog = u.dialog /\ v.active = u.active /\ v.running = u.running
  /\ v.posted = u.posted /\ v.stage = u.stage

LEMMA SettledSound ==
  ASSUME NEW u, NEW v \in Uis, Sound(u, NoOp), Idle(u, NoOp), Followed(u), Installed(u),
         Settled(u, v), ~v.needed, ~v.transfer, v.repairing => u.repairing
  PROVE  Sound(v, NoOp) /\ Idle(v, NoOp) /\ Followed(v) /\ Installed(v) /\ (Fits(u) => Fits(v))
<1>1. (\A o : Shows(v, o) <=> Shows(u, o)) /\ (\A d : Holds(v, NoOp, d) <=> Holds(u, NoOp, d))
  BY DEF Shows, Holds, Settled
<1>2. Work(v, NoOp)
  BY <1>1 DEF Sound, Work, CheckHolds, TransferHolds, Waited, Idle, Settled
<1>3. Reported(v, NoOp)
  BY <1>1 DEF Sound, Reported, Coming, Settled
<1>4. Layers(v, NoOp)
  BY <1>1 DEF Sound, Layers, Ordered, Above, Settled
<1>5. Place(v)
  BY DEF Sound, Place, Settled
<1>6. Followed(v) /\ Installed(v) /\ Idle(v, NoOp) /\ (Fits(u) => Fits(v))
  BY <1>1 DEF Followed, Installed, Idle, Fits, Settled
<1> QED BY <1>2, <1>3, <1>4, <1>5, <1>6 DEF Sound

\* What comes of it at the next stage.
Resumed(u, v) ==
  /\ Sound(v, NoOp) /\ Idle(v, NoOp) /\ Fits(v) /\ Followed(v) /\ Installed(v)
  /\ v.game = u.game /\ v.config = u.config /\ v.pending = u.pending /\ v.active = u.active
  /\ \A o \in {"repair", "files"} : Shows(v, o) <=> Shows(u, o)
  /\ v.launch => u.launch
  /\ v.wine # u.wine => u.launch /\ u.game \notin u.pending /\ v.wine = "game"

LEMMA SettledRecompute ==
  ASSUME NEW u, NEW w \in Uis, Sound(u, NoOp), Idle(u, NoOp), Followed(u), Installed(u),
         Settled(u, w), ~w.needed, ~w.transfer, w.repairing => u.repairing
  PROVE  Resumed(u, Recompute(w)) /\ Recompute(w).repairing = w.repairing
<1>1. Sound(w, NoOp) /\ Idle(w, NoOp) /\ Followed(w) /\ Installed(w)
  BY SettledSound
<1> DEFINE v == Recompute(w)
<1>2. Changed(w, v, NoOp)
  BY <1>1, RecomputeIs DEF Updatable
<1> HIDE DEF v
<1>3. Installed(v) /\ Idle(v, NoOp) /\ v.repairing = w.repairing
  BY <1>1, <1>2 DEF Changed, Moved, Staged, Installed, Idle
<1>4. /\ v.game = u.game /\ v.config = u.config /\ v.pending = u.pending /\ v.active = u.active
      /\ \A o \in {"repair", "files"} : Shows(v, o) <=> Shows(u, o)
      /\ v.launch => u.launch
  BY <1>2 DEF Changed, Moved, Staged, Settled, Shows
<1>5. u.launch => u.game \notin u.pending
  BY DEF Sound, Place
<1> QED BY <1>2, <1>3, <1>4, <1>5 DEF Resumed, Changed, Moved, Settled, v

LEMMA MarkSynchronizedIs ==
  ASSUME NEW u, Sound(u, NoOp), Idle(u, NoOp), Followed(u), Installed(u)
  PROVE  Resumed(u, MarkSynchronized(u)) /\ MarkSynchronized(u).repairing = u.repairing
<1> DEFINE w == [u EXCEPT !.key = u.config, !.needed = FALSE]
<1>1. u \in Uis /\ u.op = NoOp
  BY IdleIs DEF Sound
<1>2. MarkSynchronized(u) = Recompute(w)
  BY <1>1 DEF MarkSynchronized, CancelCheck
<1>3. w \in Uis /\ w.needed = FALSE
  BY <1>1 DEF Uis
<1>4. Settled(u, w) /\ w.transfer = u.transfer /\ w.repairing = u.repairing
  BY <1>1 DEF Uis, Settled
<1> HIDE DEF w
<1>5. ~w.transfer
  BY <1>4 DEF Idle
<1> QED BY <1>2, <1>3, <1>4, <1>5, SettledRecompute

LEMMA EndRepairIs ==
  ASSUME NEW u, Sound(u, NoOp), Idle(u, NoOp), Followed(u), Installed(u)
  PROVE  Resumed(u, EndRepair(u)) /\ ~EndRepair(u).repairing
<1> DEFINE w == [u EXCEPT !.repairing = FALSE, !.transfer = FALSE, !.needed = FALSE]
<1>1. u \in Uis
  BY DEF Sound
<1>2. EndRepair(u) = Recompute(w)
  BY DEF EndRepair
<1>3. w \in Uis /\ w.needed = FALSE /\ w.transfer = FALSE /\ w.repairing = FALSE
  BY <1>1 DEF Uis
<1>4. Settled(u, w)
  BY <1>1 DEF Uis, Settled
<1> HIDE DEF w
<1> QED BY <1>2, <1>3, <1>4, SettledRecompute

\* The view is chosen anew.
LEMMA LoadingIs ==
  ASSUME NEW u, Sound(u, NoOp), Fits(u), Installed(u), RepairShown(u)
  PROVE  LET v == StageChanged([u EXCEPT !.view = "loading"])
         IN  /\ Good(v, NoOp) /\ v.active = u.active
             /\ v.wine # u.wine => u.launch /\ u.game \notin u.pending /\ v.wine = "game"
<1> DEFINE w == [u EXCEPT !.view = "loading"]
           v == StageChanged(w)
<1>1. /\ u \in Uis
  BY DEF Sound
<1>2. w \in Uis /\ w.view = "loading"
  BY <1>1 DEF Uis
<1>3. /\ Staged(u, w) /\ w.overlays = u.overlays /\ w.wine = u.wine /\ w.stage = u.stage
      /\ w.launch = u.launch
  BY <1>1 DEF Uis, Staged
<1> HIDE DEF w
<1>4. \A o : Shows(w, o) <=> Shows(u, o)
  BY <1>3 DEF Shows
<1>5. Sound(w, NoOp) /\ Fits(w)
  <2>1. Work(w, NoOp) /\ Reported(w, NoOp)
    BY <1>3, StagedWork DEF Sound
  <2>2. Layers(w, NoOp)
    BY <1>2, <1>3, LayersKept DEF Sound
  <2>3. Place(w) /\ Fits(w)
    BY <1>3, <1>4 DEF Sound, Place, Fits, Staged
  <2> QED BY <1>2, <2>1, <2>2, <2>3 DEF Sound
<1>6. Changed(w, v, NoOp) /\ Viewed(v)
  BY <1>2, <1>5, StageChangedIs
<1> HIDE DEF v
<1>7. Installed(v) /\ RepairShown(v) /\ v.active = u.active
  BY <1>3, <1>4, <1>6 DEF Changed, Moved, Staged, Installed, RepairShown
<1>8. u.launch => u.game \notin u.pending
  BY DEF Sound, Place
<1>9. v.wine # u.wine => u.launch /\ u.game \notin u.pending /\ v.wine = "game"
  BY <1>3, <1>6, <1>8 DEF Changed, Moved
<1> QED BY <1>6, <1>7, <1>9 DEF Changed, Moved, Good, v, w

\* The dialog of an installation hides.
LEMMA InstallHides ==
  ASSUME NEW u, NEW p, Good(u, p), ~Holds(u, p, "install")
  PROVE  LET v == [u EXCEPT !.installing = FALSE]
         IN  Good(v, p) /\ v.active = u.active /\ v.wine = u.wine /\ v.dialog = u.dialog
<1> DEFINE v == [u EXCEPT !.installing = FALSE]
<1>1. u \in Uis /\ Sound(u, p)
  BY DEF Good, Sound
<1>2. v \in Uis
  BY <1>1 DEF Uis
<1>3. /\ v.config = u.config /\ v.game = u.game /\ v.key = u.key /\ v.checked = u.checked
      /\ v.launch = u.launch /\ v.pending = u.pending /\ v.repairing = u.repairing
      /\ v.suspended = u.suspended /\ v.view = u.view /\ v.purpose = u.purpose
      /\ v.prefix = u.prefix /\ v.present = u.present
  BY <1>1 DEF Uis
<1>4. /\ v.wine = u.wine /\ v.failed = u.failed /\ v.needed = u.needed /\ v.check = u.check
      /\ v.op = u.op /\ v.transfer = u.transfer /\ v.dialog = u.dialog /\ v.active = u.active
      /\ v.running = u.running /\ v.posted = u.posted /\ v.overlays = u.overlays
      /\ v.stage = u.stage
  BY <1>1 DEF Uis
<1> HIDE DEF v
<1>5. (\A o : Shows(v, o) <=> Shows(u, o)) /\ (\A d : Holds(v, p, d) <=> Holds(u, p, d))
  BY <1>4 DEF Shows, Holds
<1>6. Work(v, p) /\ Reported(v, p)
  BY <1>1, <1>3, <1>4, <1>5 DEF Sound, Work, CheckHolds, TransferHolds, Waited, Reported, Coming
<1>7. Layers(v, p)
  BY <1>1, <1>3, <1>4, <1>5 DEF Sound, Layers, Ordered, Above
<1>8. Place(v) /\ Fits(v) /\ Followed(v) /\ Installed(v) /\ RepairShown(v) /\ Viewed(v)
  BY <1>3, <1>4, <1>5
     DEF Good, Sound, Place, Fits, Followed, Installed, RepairShown, Viewed
<1> QED BY <1>2, <1>4, <1>6, <1>7, <1>8 DEF Good, Sound, v

\* The dialog of a repair is closed, before or after the repair has ended.
LEMMA RepairCloses ==
  ASSUME NEW u, Sound(u, NoOp), Idle(u, NoOp), Followed(u), Installed(u)
  PROVE  LET v == Close(u, "repair")
         IN  /\ Sound(v, NoOp) /\ Idle(v, NoOp) /\ Followed(v) /\ Installed(v) /\ Beside(u, v)
             /\ (Fits(u) => Fits(v))
             /\ \A o : Shows(v, o) <=> Shows(u, o) /\ o # "repair"
<1> DEFINE v == Close(u, "repair")
<1>1. u \in Uis /\ Layers(u, NoOp) /\ Work(u, NoOp)
  BY DEF Sound
<1>2. ~Holds(u, NoOp, "repair")
  BY <1>1, IdleIs DEF Dialogs
<1>3. /\ v \in Uis /\ Beside(u, v) /\ Layers(v, NoOp)
      /\ \A x : Shows(v, x) <=> Shows(u, x) /\ x # "repair"
  BY <1>1, <1>2, Closing DEF Overlays, Dialogs
<1> HIDE DEF v
<1>4. Sound(v, NoOp)
  BY <1>3, BesideSound
<1>5. Idle(v, NoOp) /\ Followed(v) /\ Installed(v) /\ (Fits(u) => Fits(v))
  BY <1>3 DEF Idle, Followed, Installed, Fits, Beside
<1> QED BY <1>3, <1>4, <1>5 DEF v

\* The watcher is resumed after a repair.
LEMMA ResumeIs ==
  ASSUME NEW u, Sound(u, NoOp), Idle(u, NoOp), Fits(u), Installed(u), ~u.repairing, ~u.launch,
         ~Shows(u, "repair"), NEW pending \in SUBSET Games, Shows(u, "files") => u.game \in pending
  PROVE  LET v == [u EXCEPT !.pending = pending, !.suspended = FALSE]
         IN  /\ Sound(v, NoOp) /\ Idle(v, NoOp) /\ Fits(v) /\ Followed(v) /\ Installed(v)
             /\ RepairShown(v) /\ ~v.launch /\ ~v.repairing /\ v.wine = u.wine
             /\ v.active = u.active /\ v.overlays = u.overlays
<1> DEFINE v == [u EXCEPT !.pending = pending, !.suspended = FALSE]
<1>1. u \in Uis
  BY DEF Sound
<1>2. v \in Uis /\ v.pending = pending /\ v.suspended = FALSE
  BY <1>1 DEF Uis
<1>3. /\ v.config = u.config /\ v.game = u.game /\ v.launch = u.launch /\ v.repairing = u.repairing
      /\ v.overlays = u.overlays /\ v.installing = u.installing /\ v.view = u.view
      /\ v.prefix = u.prefix /\ v.present = u.present /\ v.wine = u.wine /\ v.failed = u.failed
      /\ v.checked = u.checked
  BY <1>1 DEF Uis
<1>4. /\ v.needed = u.needed /\ v.check = u.check
      /\ v.op = u.op /\ v.transfer = u.transfer /\ v.dialog = u.dialog /\ v.active = u.active
      /\ v.running = u.running /\ v.posted = u.posted /\ v.stage = u.stage
  BY <1>1 DEF Uis
<1> HIDE DEF v
<1>5. (\A o : Shows(v, o) <=> Shows(u, o)) /\ (\A d : Holds(v, NoOp, d) <=> Holds(u, NoOp, d))
  BY <1>3, <1>4 DEF Shows, Holds
<1>6. Work(v, NoOp) /\ Reported(v, NoOp)
  BY <1>3, <1>4, <1>5
     DEF Sound, Work, CheckHolds, TransferHolds, Waited, Reported, Coming
<1>7. Layers(v, NoOp)
  BY <1>2, <1>3, <1>4, <1>5 DEF Sound, Layers, Ordered, Above
<1>8. Place(v)
  BY <1>3, <1>4 DEF Sound, Place
<1>9. Fits(v) /\ Idle(v, NoOp) /\ Installed(v) /\ RepairShown(v)
  BY <1>3, <1>4, <1>5 DEF Fits, Idle, Installed, RepairShown
<1>10. Followed(v)
  BY <1>3, <1>9 DEF Followed, Fits, Idle
<1> QED BY <1>2, <1>3, <1>4, <1>6, <1>7, <1>8, <1>9, <1>10 DEF Sound, v

\* The download_finished(true) slots.
LEMMA FinishedIs ==
  ASSUME NEW u, NEW d \in Dialogs, Good(u, NoOp), Idle(u, NoOp),
         d = "repair" => u.repairing /\ ~Shows(u, "files")
  PROVE  LET v == Finished(u, d)
         IN  /\ Good(v, NoOp) /\ v.active = u.active
             /\ v.wine # u.wine => u.launch /\ u.game \notin u.pending /\ v.wine = "game"
<1> DEFINE v == Finished(u, d)
<1>1. /\ u \in Uis /\ Sound(u, NoOp) /\ Work(u, NoOp) /\ Place(u)
      /\ Followed(u) /\ Installed(u) /\ RepairShown(u) /\ Fits(u)
  BY DEF Good, Sound
<1>2. \A e \in Dialogs : ~Holds(u, NoOp, e)
  BY <1>1, IdleIs
<1>3. CASE d = "install"
  <2>1. v = [u EXCEPT !.installing = FALSE]
    BY <1>3 DEF Finished, Hide
  <2>2. Good(v, NoOp) /\ v.active = u.active /\ v.wine = u.wine
    BY <1>2, <1>3, <2>1, InstallHides
  <2> QED BY <2>2
<1>4. CASE d = "update"
  <2> DEFINE a == Close(u, "update")
             b == MarkSynchronized(a)
  <2>1. v = StageChanged([b EXCEPT !.view = "loading"])
    BY <1>4 DEF Finished
  <2>2. Fair(a, NoOp) /\ Beside(u, a) /\ \A x : Shows(a, x) <=> Shows(u, x) /\ x # "update"
    <3>1. Fair(u, NoOp)
      BY DEF Good, Fair
    <3>2. ~Holds(u, NoOp, "update")
      BY <1>2, <1>4
    <3> QED BY <1>1, <3>1, <3>2, CloseFair DEF Overlays, Dialogs
  <2> HIDE DEF a, v
  <2>3. Resumed(a, b) /\ b.repairing = a.repairing
    BY <2>2, MarkSynchronizedIs DEF Fair, Idle, Beside
  <2> HIDE DEF b
  <2>4. RepairShown(b)
    BY <1>1, <2>2, <2>3 DEF RepairShown, Resumed, Beside
  <2>5. /\ Good(v, NoOp) /\ v.active = b.active
        /\ v.wine # b.wine => b.launch /\ b.game \notin b.pending /\ v.wine = "game"
    BY <2>1, <2>3, <2>4, LoadingIs DEF Resumed
  <2> QED BY <2>2, <2>3, <2>5 DEF Resumed, Beside, v
<1>5. CASE d = "repair"
  <2> DEFINE a == EndRepair(u)
             b == Close(a, "repair")
             pending == b.pending \ {u.game}
             c == [b EXCEPT !.pending = pending, !.suspended = FALSE]
             e == MarkSynchronized(c)
  <2>1. v = StageChanged([e EXCEPT !.view = "loading"])
    BY <1>5 DEF Finished
  <2>2. Resumed(u, a) /\ ~a.repairing
    BY <1>1, EndRepairIs
  <2>3. ~u.launch
    BY <1>1, <1>5 DEF Place
  <2> HIDE DEF a, v
  <2>4. /\ Sound(b, NoOp) /\ Idle(b, NoOp) /\ Followed(b) /\ Installed(b) /\ Beside(a, b) /\ Fits(b)
        /\ \A o : Shows(b, o) <=> Shows(a, o) /\ o # "repair"
    BY <2>2, RepairCloses DEF Resumed
  <2> HIDE DEF b
  <2>5. pending \in SUBSET Games
    BY <2>4 DEF Sound, Uis
  <2>6. ~b.launch /\ ~b.repairing /\ ~Shows(b, "repair") /\ ~Shows(b, "files") /\ b.wine = u.wine
        /\ b.active = u.active
    BY <1>5, <2>2, <2>3, <2>4 DEF Resumed, Beside
  <2> HIDE DEF pending
  <2>7. /\ Sound(c, NoOp) /\ Idle(c, NoOp) /\ Fits(c) /\ Followed(c) /\ Installed(c)
        /\ RepairShown(c) /\ ~c.launch /\ ~c.repairing /\ c.wine = b.wine
        /\ c.active = b.active /\ c.overlays = b.overlays
    BY <2>4, <2>5, <2>6, ResumeIs
  <2> HIDE DEF c
  <2>8. Resumed(c, e) /\ e.repairing = c.repairing
    BY <2>7, MarkSynchronizedIs
  <2> HIDE DEF e
  <2>9. RepairShown(e) /\ ~e.launch
    BY <2>7, <2>8 DEF RepairShown, Resumed
  <2>10. /\ Good(v, NoOp) /\ v.active = e.active
         /\ v.wine # e.wine => e.launch /\ e.game \notin e.pending /\ v.wine = "game"
    BY <2>1, <2>8, <2>9, LoadingIs DEF Resumed
  <2>11. v.wine = u.wine
    BY <2>6, <2>7, <2>8, <2>9, <2>10 DEF Resumed
  <2> QED BY <2>6, <2>7, <2>8, <2>10, <2>11 DEF Resumed, v
<1> QED BY <1>3, <1>4, <1>5 DEF Dialogs

\* The closed() slots.
LEMMA ClosedIs ==
  ASSUME NEW u, NEW d \in Dialogs, Good(u, NoOp), Idle(u, NoOp),
         d = "repair" => u.repairing /\ ~Shows(u, "files")
  PROVE  LET v == Closed(u, d)
         IN  Good(v, NoOp) /\ v.active = u.active /\ v.wine = u.wine
<1> DEFINE v == Closed(u, d)
<1>1. /\ u \in Uis /\ Sound(u, NoOp) /\ Work(u, NoOp) /\ Place(u)
      /\ Followed(u) /\ Installed(u) /\ RepairShown(u) /\ Fits(u)
  BY DEF Good, Sound
<1>2. \A e \in Dialogs : ~Holds(u, NoOp, e)
  BY <1>1, IdleIs
<1>3. CASE d = "install"
  <2>1. v = [u EXCEPT !.installing = FALSE]
    BY <1>3 DEF Closed, Hide
  <2>2. Good(v, NoOp) /\ v.active = u.active /\ v.wine = u.wine
    BY <1>2, <1>3, <2>1, InstallHides
  <2> QED BY <2>2
<1>4. CASE d = "update"
  <2>1. v = Close(u, "update")
    BY <1>4 DEF Closed, Hide
  <2>2. Fair(u, NoOp) /\ ~Holds(u, NoOp, "update")
    BY <1>2, <1>4 DEF Good, Fair
  <2> HIDE DEF v
  <2>3. Fair(v, NoOp) /\ Beside(u, v) /\ Fits(v)
    BY <1>1, <2>1, <2>2, CloseFair DEF Overlays, Dialogs
  <2> QED BY <2>3 DEF Good, Fair, Beside, v
<1>5. CASE d = "repair"
  <2> DEFINE a == Close(u, "repair")
             b == EndRepair(a)
             c == [b EXCEPT !.pending = b.pending, !.suspended = FALSE]
  <2>1. ~u.launch
    BY <1>1, <1>5 DEF Place
  <2>2. /\ Sound(a, NoOp) /\ Idle(a, NoOp) /\ Followed(a) /\ Installed(a) /\ Beside(u, a)
        /\ \A o : Shows(a, o) <=> Shows(u, o) /\ o # "repair"
    BY <1>1, RepairCloses
  <2>3. Closed(u, d) = StageChanged([b EXCEPT !.suspended = FALSE, !.view = "loading"])
    BY <1>5 DEF Closed, Hide
  <2> HIDE DEF a
  <2>4. Resumed(a, b) /\ ~b.repairing
    BY <2>2, EndRepairIs
  <2> HIDE DEF b, v
  <2>5. b \in Uis /\ b.pending \in SUBSET Games
    BY <2>4 DEF Resumed, Sound, Uis
  <2>6. [b EXCEPT !.suspended = FALSE, !.view = "loading"] = [c EXCEPT !.view = "loading"]
    BY <2>5 DEF Uis
  <2>7. /\ Sound(c, NoOp) /\ Idle(c, NoOp) /\ Fits(c) /\ Followed(c) /\ Installed(c)
        /\ RepairShown(c) /\ ~c.launch /\ ~c.repairing /\ c.wine = b.wine
        /\ c.active = b.active /\ c.overlays = b.overlays
    <3>1. ~b.launch /\ ~Shows(b, "repair") /\ ~Shows(b, "files")
      BY <1>5, <2>1, <2>2, <2>4 DEF Resumed, Beside
    <3> DEFINE pending == b.pending
    <3>2. pending \in SUBSET Games /\ (Shows(b, "files") => b.game \in pending)
      BY <2>5, <3>1
    <3> HIDE DEF pending
    <3>3. /\ Sound([b EXCEPT !.pending = pending, !.suspended = FALSE], NoOp)
          /\ Idle([b EXCEPT !.pending = pending, !.suspended = FALSE], NoOp)
          /\ Fits([b EXCEPT !.pending = pending, !.suspended = FALSE])
          /\ Followed([b EXCEPT !.pending = pending, !.suspended = FALSE])
          /\ Installed([b EXCEPT !.pending = pending, !.suspended = FALSE])
          /\ RepairShown([b EXCEPT !.pending = pending, !.suspended = FALSE])
          /\ ~[b EXCEPT !.pending = pending, !.suspended = FALSE].launch
          /\ ~[b EXCEPT !.pending = pending, !.suspended = FALSE].repairing
          /\ [b EXCEPT !.pending = pending, !.suspended = FALSE].wine = b.wine
          /\ [b EXCEPT !.pending = pending, !.suspended = FALSE].active = b.active
          /\ [b EXCEPT !.pending = pending, !.suspended = FALSE].overlays = b.overlays
      BY <2>4, <3>1, <3>2, ResumeIs DEF Resumed
    <3> QED BY <3>3 DEF pending
  <2> HIDE DEF c
  <2>8. LET w == StageChanged([c EXCEPT !.view = "loading"])
        IN  /\ Good(w, NoOp) /\ w.active = c.active
            /\ w.wine # c.wine => c.launch /\ c.game \notin c.pending /\ w.wine = "game"
    BY <2>7, LoadingIs
  <2>9. v = StageChanged([c EXCEPT !.view = "loading"])
    BY <2>3, <2>6 DEF v
  <2>10. Good(v, NoOp) /\ v.active = c.active /\ v.wine = c.wine
    BY <2>7, <2>8, <2>9
  <2>11. v.wine = u.wine /\ v.active = u.active
    BY <2>1, <2>2, <2>4, <2>7, <2>10 DEF Resumed, Beside
  <2> QED BY <2>10, <2>11 DEF v
<1> QED BY <1>3, <1>4, <1>5 DEF Dialogs

(***************************************************************************)
(* Reports                                                                 *)
(***************************************************************************)
LEMMA ClearIs ==
  ASSUME NEW u \in Uis, NEW op, op \notin u.active
  PROVE  Clear(u, op) = u
<1>1. u.active \ {op} = u.active
  OBVIOUS
<1> QED BY <1>1 DEF Clear, Uis

\* A dialog lets go of its operation.
LetGo(u, d, what) == [u EXCEPT !.dialog[d].op = NoOp, !.dialog[d].observing = FALSE,
                               !.dialog[d].retry = what = "failed"]

\* The dialog whose transfer has ended lets go of it.
LEMMA DialogEnds ==
  ASSUME NEW u, NEW p, NEW d \in Dialogs, NEW what, Good(u, p),
         u.dialog[d].op = p, p # NoOp, u.op = NoOp, u.check = "None", ~u.transfer,
         \A e \in Dialogs : ~u.dialog[e].observing,
         \A e \in Dialogs \ {d} : u.dialog[e].op = NoOp,
         u.active = {p}
  PROVE  LET v == Clear(LetGo(u, d, what), p)
         IN  /\ Good(v, NoOp) /\ Idle(v, NoOp) /\ v.active = {} /\ v.wine = u.wine
             /\ v.repairing = u.repairing /\ v.overlays = u.overlays
             /\ v.launch = u.launch /\ v.pending = u.pending
<1> DEFINE v == Clear(LetGo(u, d, what), p)
<1>0. PICK retry \in BOOLEAN : retry = (what = "failed")
  OBVIOUS
<1> DEFINE x == [u.dialog[d] EXCEPT !.op = NoOp, !.observing = FALSE, !.retry = retry]
           D == [u.dialog EXCEPT ![d] = x]
           w == [u EXCEPT !.dialog = D]
           c == [w EXCEPT !.active = {}]
<1>1. /\ u \in Uis /\ Layers(u, p) /\ Place(u)
      /\ u.dialog \in [Dialogs -> DialogStates] /\ u.dialog[d] \in DialogStates
  BY DEF Good, Sound, Uis
<1>2. LetGo(u, d, what) = w
  <2>1. [u EXCEPT !.dialog[d].op = NoOp, !.dialog[d].observing = FALSE, !.dialog[d].retry = retry] = w
    BY <1>1, ZenonT(40) DEF Uis, DialogStates
  <2> QED BY <1>0, <2>1 DEF LetGo
<1>3. x \in DialogStates /\ x.op = NoOp /\ ~x.observing
  BY <1>1, NoOpIsNone DEF DialogStates
<1> HIDE DEF x
<1>4. /\ D \in [Dialogs -> DialogStates]
      /\ \A e \in Dialogs : D[e].op = NoOp /\ ~D[e].observing
  BY <1>1, <1>3
<1> HIDE DEF D
<1>5. w \in Uis /\ Undialogued(u, w) /\ w.dialog = D
  BY <1>1, <1>4 DEF Uis, Undialogued
<1> HIDE DEF w
<1>6. v = c
  <2>1. w.active \ {p} = {}
    BY <1>5 DEF Undialogued
  <2> QED BY <1>2, <2>1 DEF Clear
<1>7. /\ c \in Uis /\ c.active = {}
  BY <1>5 DEF Uis
<1>8. /\ c.config = w.config /\ c.game = w.game /\ c.key = w.key /\ c.checked = w.checked
      /\ c.launch = w.launch /\ c.pending = w.pending /\ c.repairing = w.repairing
      /\ c.suspended = w.suspended /\ c.overlays = w.overlays /\ c.installing = w.installing
      /\ c.view = w.view /\ c.prefix = w.prefix /\ c.present = w.present
  BY <1>5 DEF Uis
<1>9. /\ c.wine = w.wine /\ c.failed = w.failed /\ c.needed = w.needed /\ c.check = w.check
      /\ c.op = w.op /\ c.transfer = w.transfer /\ c.dialog = w.dialog
      /\ c.running = w.running /\ c.posted = w.posted /\ c.stage = w.stage
  BY <1>5 DEF Uis
<1> HIDE DEF c, v
<1>10. AllQuiet(c) /\ Idle(c, NoOp) /\ c.op = NoOp
  BY <1>4, <1>5, <1>9 DEF AllQuiet, Idle, Undialogued
<1>11. Work(c, NoOp) /\ Reported(c, NoOp)
  BY <1>7, <1>10, QuietWork DEF Idle
<1>12. (\A o : Shows(c, o) <=> Shows(u, o)) /\ (\A e \in Dialogs : ~Holds(c, NoOp, e))
  BY <1>5, <1>8, <1>10 DEF Shows, Holds, AllQuiet, Undialogued
<1>13. Layers(c, NoOp)
  BY <1>1, <1>5, <1>8, <1>9, <1>12 DEF Layers, Ordered, Undialogued, Dialogs
<1>14. Place(c)
  BY <1>1, <1>5, <1>8, <1>9 DEF Place, Undialogued
<1>15. Fits(c) /\ Followed(c) /\ Installed(c) /\ RepairShown(c) /\ Viewed(c)
  BY <1>5, <1>8, <1>9, <1>12
     DEF Good, Fits, Followed, Installed, RepairShown, Viewed, Undialogued
<1> QED BY <1>5, <1>6, <1>7, <1>8, <1>9, <1>10, <1>11, <1>13, <1>14, <1>15
       DEF Good, Sound, Undialogued, v

LEMMA DialogStatusIs ==
  ASSUME NEW u, NEW s, NEW d \in Dialogs, {e \in Dialogs : u.dialog[e].op = s.op} = {d},
         ~u.dialog[d].observing, s.what # "working"
  PROVE  OnDialogStatus(u, s) =
           LET x == LetGo(u, d, s.what)
           IN  IF s.what = "ok" THEN Finished(Clear(x, s.op), d) ELSE Clear(x, s.op)
<1> DEFINE shown == {e \in Dialogs : u.dialog[e].op = s.op}
           k == CHOOSE e \in shown : TRUE
           x == LetGo(u, k, s.what)
<1>1. OnDialogStatus(u, s) =
        IF shown = {} \/ s.what = "working" THEN u
        ELSE IF u.dialog[k].observing THEN x
        ELSE IF s.what = "ok" THEN Finished(Clear(x, s.op), k) ELSE Clear(x, s.op)
  BY Zenon DEF OnDialogStatus, LetGo
<1>2. k = d /\ shown # {}
  OBVIOUS
<1> HIDE DEF k, shown
<1> QED BY <1>1, <1>2, Zenon

\* The last report of a transfer that its dialog waits for.
LEMMA TransferReport ==
  ASSUME NEW u, NEW p, NEW d \in Dialogs, NEW able \in BOOLEAN, Receiving(u, p),
         u.dialog[d].op = p, p # NoOp, p # u.op,
         NEW what \in {"ok", "failed", "cancelled"}
  PROVE  LET v == Report(u, Status(p, what), able)
         IN  /\ Good(v, NoOp) /\ v.active = {}
             /\ v.wine # u.wine => what = "ok" /\ u.launch /\ u.game \notin u.pending /\ v.wine = "game"
             /\ what # "ok" =>
                  /\ Idle(v, NoOp) /\ v.repairing = u.repairing
                  /\ \A o \in {"repair", "files"} : Shows(v, o) <=> Shows(u, o)
<1> DEFINE s == Status(p, what)
           t == Transferred(u, what)
           D == OnDialogStatus(t, s)
           v == Report(u, s, able)
<1>1. u \in Uis /\ Work(u, NoOp) /\ Layers(u, NoOp) /\ Place(u) /\ RepairShown(u)
  BY DEF Receiving
<1>2. /\ ~u.dialog[d].observing /\ Above(u, d) /\ p \in u.active /\ u.op = NoOp
      /\ \A e \in Dialogs : ~u.dialog[e].observing
      /\ \A e \in Dialogs \ {d} : u.dialog[e].op = NoOp
  BY <1>1, TransferHeld
<1>3. u.active = {p}
  <2>1. Waited(u) \ {NoOp} = {p}
    BY <1>2 DEF Waited
  <2>2. NoOp \notin u.active
    BY <1>1, NoOpIsNone DEF Uis
  <2> QED BY <1>1, <2>1, <2>2 DEF Work
<1>4. /\ Good(t, p) /\ t.dialog = u.dialog /\ t.active = u.active
      /\ t.repairing = u.repairing /\ ~t.transfer /\ t.check = "None" /\ t.op = NoOp
      /\ \A x \in {"repair", "files"} : Shows(t, x) <=> Shows(u, x)
      /\ t.launch => u.launch
      /\ t.wine # u.wine => what = "ok" /\ u.launch /\ u.game \notin u.pending /\ t.wine = "game"
  BY TransferEnds
<1>5. s.op = p /\ s.what = what
  BY DEF Status
<1>6. v = Clear(D, p)
  <2>1. OnCourierStatus(u, s, able) = t
    BY <1>5 DEF OnCourierStatus
  <2> HIDE DEF t, s
  <2> QED BY <1>2, <1>5, <2>1 DEF Report
<1> HIDE DEF t, v
<1> DEFINE c == Clear(LetGo(t, d, what), p)
<1>8. D = IF what = "ok" THEN Finished(c, d) ELSE c
  <2>1. {e \in Dialogs : t.dialog[e].op = s.op} = {d}
    BY <1>2, <1>4, <1>5
  <2>2. ~t.dialog[d].observing /\ s.what # "working"
    BY <1>2, <1>4, <1>5
  <2> HIDE DEF s
  <2>3. D = LET x == LetGo(t, d, s.what)
            IN  IF s.what = "ok" THEN Finished(Clear(x, s.op), d) ELSE Clear(x, s.op)
    BY <2>1, <2>2, DialogStatusIs
  <2> QED BY <1>5, <2>3
<1> HIDE DEF D
<1>9. /\ Good(c, NoOp) /\ Idle(c, NoOp) /\ c.active = {} /\ c.wine = t.wine
      /\ c.repairing = t.repairing /\ c.overlays = t.overlays
      /\ c.launch = t.launch /\ c.pending = t.pending
  <2>3. /\ t.dialog[d].op = p /\ (\A e \in Dialogs : ~t.dialog[e].observing)
        /\ (\A e \in Dialogs \ {d} : t.dialog[e].op = NoOp) /\ t.active = {p}
    BY <1>2, <1>3, <1>4
  <2> QED BY <1>4, <2>3, DialogEnds
<1> HIDE DEF c
<1>10. CASE what # "ok"
  <2>1. v = c
    BY <1>6, <1>8, <1>9, <1>10, ClearIs DEF Good, Sound
  <2>2. \A o \in {"repair", "files"} : Shows(c, o) <=> Shows(u, o)
    BY <1>4, <1>9 DEF Shows
  <2> QED BY <1>4, <1>9, <1>10, <2>1, <2>2 DEF v, s
<1>11. CASE what = "ok"
  <2> DEFINE f == Finished(c, d)
  <2>1. d = "repair" => c.repairing /\ ~Shows(c, "files")
    <3>1. ASSUME d = "repair", Shows(u, "files") PROVE FALSE
      <4>1. "repair" \in u.overlays["files"] /\ "files" \in u.overlays["repair"]
        BY <1>1, <1>2, <3>1 DEF Layers, Above, Shows
      <4> QED BY <1>1, <1>2, <3>1, <4>1 DEF Layers, Ordered, Above, Shows
    <3>2. d = "repair" => u.repairing
      BY <1>1, <1>2 DEF RepairShown, Above
    <3> QED BY <1>4, <1>9, <3>1, <3>2 DEF Shows
  <2>2. /\ Good(f, NoOp) /\ f.active = {}
        /\ f.wine # c.wine => c.launch /\ c.game \notin c.pending /\ f.wine = "game"
    BY <1>9, <2>1, FinishedIs
  <2>3. v = f
    BY <1>6, <1>8, <1>11, <2>2, ClearIs DEF Good, Sound
  <2> HIDE DEF f
  <2>4. t.launch => u.launch /\ u.game \notin u.pending
    BY <1>1, <1>4 DEF Place
  <2> QED BY <1>4, <1>9, <1>11, <2>2, <2>3, <2>4 DEF v, s
<1> QED BY <1>10, <1>11

\* The answer of the check that is waited for.
LEMMA CheckReport ==
  ASSUME NEW u, NEW p \in Operation, NEW able \in BOOLEAN, Receiving(u, p), p = u.op,
         FreeIds(u) # {}, NEW what \in Outcomes(p.kind) \cup {"cancelled"}
  PROVE  LET v == Report(u, Status(p, what), able)
         IN  /\ Good(v, NoOp) /\ p \notin v.active
             /\ v.wine # u.wine => what = "ok" /\ p.kind = "integrity" /\ u.launch
                                   /\ u.game \notin u.pending /\ v.wine = "game"
<1> DEFINE s == Status(p, what)
           a == [u EXCEPT !.check = "None", !.op = NoOp]
           x == [a EXCEPT !.active = {}]
           t == Checked(x, u.check, what, able)
           v == Report(u, s, able)
<1>1. /\ u \in Uis /\ Work(u, NoOp) /\ Layers(u, NoOp) /\ Place(u) /\ RepairShown(u)
      /\ Followed(u) /\ Installed(u) /\ Viewed(u)
  BY DEF Receiving
<1>2. p # NoOp /\ s.op = p /\ s.what = what
  BY NoOpIsNone DEF Status
<1>3. /\ u.check \in {"Version", "Integrity"} /\ ~u.transfer /\ u.checked
      /\ u.dialog["update"].op = p
      /\ p.kind = (IF u.check = "Version" THEN "version" ELSE "integrity")
  BY <1>1, <1>2 DEF Work, CheckHolds, TransferHolds, Uis
<1>4. /\ \A d \in {"repair", "install"} : ~u.dialog[d].observing
      /\ u.dialog["update"].observing
  BY <1>1, <1>3 DEF Work, CheckHolds
<1>5. \A d \in {"repair", "install"} : u.dialog[d].op = NoOp
  BY <1>1, <1>3, <1>4 DEF Work, TransferHolds, Holds, Dialogs
<1>6. u.active = {p}
  <2>1. {u.dialog[d].op : d \in Dialogs} \subseteq {p, NoOp}
    BY <1>3, <1>5 DEF Dialogs
  <2>2. Waited(u) \ {NoOp} = {p}
    BY <1>2, <2>1 DEF Waited
  <2>3. NoOp \notin u.active
    BY <1>1, NoOpIsNone DEF Uis
  <2> QED BY <1>1, <2>2, <2>3 DEF Work
<1>7. v = Clear(OnDialogStatus(t, s), p)
  <2>1. a.active = u.active
    BY <1>1 DEF Uis
  <2>2. Clear(a, p) = x
    <3> HIDE DEF a
    <3>1. a.active \ {p} = {}
      BY <1>6, <2>1
    <3> QED BY <3>1 DEF Clear
  <2>3. OnCourierStatus(u, s, able) = Checked(Clear(a, p), u.check, what, able)
    <3>1. what # "working"
      BY DEF Outcomes, Operation
    <3> QED BY <1>2, <3>1 DEF OnCourierStatus
  <2>4. OnCourierStatus(u, s, able) = t
    BY <2>2, <2>3
  <2>5. s.what # "working" /\ s.op \in u.active
    BY <1>2, <1>6 DEF Outcomes, Operation
  <2> HIDE DEF t, s
  <2> QED BY <1>2, <2>4, <2>5 DEF Report
<1> HIDE DEF t, v
<1>8. a \in Uis /\ a.check = "None" /\ a.op = NoOp
  BY <1>1, NoOpIsNone DEF Uis
<1>9. /\ Checking(u, a) /\ a.dialog = u.dialog /\ a.overlays = u.overlays
      /\ a.running = u.running /\ a.posted = u.posted
  BY <1>1 DEF Uis, Checking
<1> HIDE DEF a
<1>10. x \in Uis /\ x.active = {} /\ x.check = "None" /\ x.op = NoOp
  BY <1>8 DEF Uis
<1>11. /\ Checking(a, x) /\ x.dialog = a.dialog /\ x.overlays = a.overlays
       /\ x.running = a.running /\ x.posted = a.posted
  BY <1>8 DEF Uis, Checking
<1> HIDE DEF x
<1>12. /\ Checking(u, x) /\ x.dialog = u.dialog /\ x.overlays = u.overlays
       /\ x.running = u.running /\ x.posted = u.posted
  BY <1>9, <1>11 DEF Checking
<1>13. \A o : Shows(x, o) <=> Shows(u, o)
  BY <1>12 DEF Shows
<1>14. \A d \in Dialogs : ~Holds(x, p, d)
  BY <1>3, <1>5, <1>12 DEF Holds, Dialogs
<1>15. Work(x, p)
  <2>1. CheckHolds(x, p)
    BY <1>2, <1>3, <1>4, <1>10, <1>12 DEF CheckHolds
  <2>2. TransferHolds(x, p)
    BY <1>3, <1>4, <1>5, <1>12, <1>14 DEF TransferHolds, Checking, Dialogs
  <2>3. Waited(x) \subseteq {p}
    BY <1>3, <1>5, <1>10, <1>12 DEF Waited, Dialogs
  <2> QED BY <1>10, <2>1, <2>2, <2>3 DEF Work
<1>16. Reported(x, p)
  BY <1>10, <1>14 DEF Reported
<1>17. Layers(x, p)
  BY <1>1, <1>12, <1>13, <1>14 DEF Layers, Ordered, Checking, Dialogs
<1>18. Place(x)
  BY <1>1, <1>3, <1>10, <1>12 DEF Place, Checking
<1>19. Followed(x) /\ Installed(x) /\ RepairShown(x) /\ Viewed(x) /\ Updatable(x)
  BY <1>1, <1>3, <1>12, <1>13 DEF Followed, Installed, RepairShown, Viewed, Updatable, Checking, Place
<1>20. Idle(x, p)
  BY <1>3, <1>10, <1>12 DEF Idle, Checking
<1>21. Answering(x, p)
  BY <1>10, <1>15, <1>16, <1>17, <1>18, <1>19, <1>20 DEF Answering, Fair, Sound
<1>22. Placed(x)
  <2>1. Holds(u, NoOp, "update")
    BY <1>2, <1>3 DEF Holds
  <2>2. ~Shows(u, "setup")
    BY <1>1, <2>1 DEF Layers, Above, Dialogs
  <2> QED BY <1>1, <1>3, <1>12, <1>13, <2>2 DEF Placed, Place, Checking
<1>23. FreeIds(x) # {}
  <2>1. Known(x) \subseteq Known(u) \cup {NoOp}
    BY <1>10, <1>12 DEF Known
  <2> QED BY <2>1, FreeIdsKept
<1>24. /\ Good(t, NoOp) /\ x.dialog["update"].op \notin t.active
       /\ t.wine # x.wine =>
            u.check = "Integrity" /\ what = "ok" /\ x.launch /\ x.game \notin x.pending /\ t.wine = "game"
  <2>1. what \in {"ok", "failed", "cancelled"}
                   \cup (IF u.check = "Version" THEN {"outdated"} ELSE {"damaged"})
    BY <1>3 DEF Outcomes
  <2> QED BY <1>3, <1>10, <1>21, <1>22, <1>23, <2>1, CheckedIs DEF t
<1>25. p \notin t.active /\ t \in Uis /\ Work(t, NoOp)
  BY <1>3, <1>12, <1>24 DEF Good, Sound
<1>26. OnDialogStatus(t, s) = t
  <2>1. \A d \in Dialogs : t.dialog[d].op # p
    BY <1>2, <1>25 DEF Work, Waited
  <2>2. {d \in Dialogs : t.dialog[d].op = s.op} = {}
    BY <1>2, <2>1
  <2> QED BY <2>2, Zenon DEF OnDialogStatus
<1>27. v = t
  BY <1>7, <1>25, <1>26, ClearIs
<1> QED BY <1>3, <1>12, <1>24, <1>25, <1>27 DEF Checking, v, s

\* CourierBridge::report(), and all that follows.
LEMMA ReportIs ==
  ASSUME NEW u, NEW p \in Operation, NEW what, NEW able \in BOOLEAN, Receiving(u, p),
         Saying(p, what), FreeIds(u) # {}, what = "working" => Good(u, NoOp)
  PROVE  LET v == Report(u, Status(p, what), able)
         IN  /\ Good(v, NoOp)
             /\ v.wine # u.wine => /\ what = "ok" /\ p \in u.active /\ p.kind # "version"
                                   /\ u.launch /\ u.game \notin u.pending /\ v.wine = "game"
<1> DEFINE s == Status(p, what)
           v == Report(u, s, able)
<1>1. /\ u \in Uis /\ Work(u, NoOp) /\ Reported(u, p) /\ Layers(u, NoOp) /\ Place(u)
  BY DEF Receiving
<1>2. p # NoOp /\ s.op = p /\ s.what = what
  BY NoOpIsNone DEF Status
<1>3. CASE p \notin u.active
  <2>1. v = u
    BY <1>2, <1>3 DEF Report
  <2>2. p \notin Waited(u)
    BY <1>1, <1>2, <1>3 DEF Work
  <2>3. p # u.op /\ \A d \in Dialogs : u.dialog[d].op # p
    BY <1>2, <2>2 DEF Waited
  <2>4. Reported(u, NoOp)
    BY <1>1, <2>3 DEF Reported, Holds
  <2>5. Good(u, NoOp)
    BY <2>4 DEF Receiving, Good, Sound
  <2> QED BY <2>1, <2>5
<1>4. CASE p \in u.active /\ what = "working"
  <2> DEFINE t == OnCourierStatus(u, s, able)
  <2>1. v = t
    <3>1. OnDialogStatus(t, s) = t
      BY <1>2, <1>4, Zenon DEF OnDialogStatus
    <3> HIDE DEF t, s
    <3> QED BY <1>2, <1>4, <3>1 DEF Report, t
  <2>2. CASE p = u.op
    <3>1. t = Recompute(u)
      BY <1>2, <1>4, <2>2 DEF OnCourierStatus
    <3>3. u.check # "None"
      BY <1>1, <1>2, <2>2 DEF Work, CheckHolds
    <3>5. Fair(u, NoOp) /\ Updatable(u)
      BY <1>4, <3>3, FitsUpdatable DEF Good, Fair
    <3>2. Good(Recompute(u), NoOp) /\ Started(u, Recompute(u))
      BY <3>5, RecomputeFair
    <3>4. Recompute(u).wine = u.wine
      BY <3>2, <3>3 DEF Started
    <3> QED BY <2>1, <3>1, <3>2, <3>4
  <2>3. CASE p # u.op
    <3>1. PICK d \in Dialogs : u.dialog[d].op = p
      BY <1>1, <1>2, <1>4, <2>3 DEF Work, Waited
    <3>2. t = Transferred(u, "working")
      BY <1>2, <1>4, <2>3 DEF OnCourierStatus
    <3>3. Good(Transferred(u, "working"), NoOp) /\ Transferred(u, "working").wine = u.wine
      BY <1>2, <1>4, <2>3, <3>1, TransferGoesOn
    <3> QED BY <2>1, <3>2, <3>3
  <2> QED BY <2>2, <2>3
<1>5. CASE p \in u.active /\ what # "working" /\ p = u.op
  <2>1. what \in Outcomes(p.kind) \cup {"cancelled"}
    BY <1>5 DEF Saying
  <2>2. /\ Good(v, NoOp)
        /\ v.wine # u.wine => what = "ok" /\ p.kind = "integrity" /\ u.launch
                              /\ u.game \notin u.pending /\ v.wine = "game"
    BY <1>5, <2>1, CheckReport
  <2> QED BY <1>5, <2>2
<1>6. CASE p \in u.active /\ what # "working" /\ p # u.op
  <2>1. PICK d \in Dialogs : u.dialog[d].op = p
    BY <1>1, <1>2, <1>6 DEF Work, Waited
  <2>2. p.kind = "transfer"
    BY <1>1, <1>2, <1>6, <2>1, TransferHeld
  <2>3. what \in {"ok", "failed", "cancelled"}
    BY <1>6, <2>2 DEF Saying, Outcomes
  <2>4. /\ Good(v, NoOp)
        /\ v.wine # u.wine => what = "ok" /\ u.launch /\ u.game \notin u.pending /\ v.wine = "game"
    BY <1>2, <1>6, <2>1, <2>3, TransferReport
  <2> QED BY <1>6, <2>2, <2>4
<1> QED BY <1>3, <1>4, <1>5, <1>6

(***************************************************************************)
(* The user closes a dialog, or a check is called off                      *)
(***************************************************************************)
\* A window that is alone on top, and has no operation.
LEMMA NobodyHolds ==
  ASSUME NEW u \in Uis, Work(u, NoOp), \A d \in Dialogs : ~Holds(u, NoOp, d)
  PROVE  /\ Idle(u, NoOp) /\ u.op = NoOp /\ u.active = {} /\ AllQuiet(u)
<1>1. u.check = "None"
  BY DEF Work, CheckHolds, Holds, Dialogs
<1>2. ~u.transfer
  BY DEF Work, TransferHolds
<1>3. Idle(u, NoOp)
  BY <1>1, <1>2 DEF Idle
<1>4. NoOp \notin u.active
  BY NoOpIsNone DEF Uis
<1>5. u.op = NoOp /\ u.active = {}
  BY <1>3, <1>4, IdleIs
<1>6. AllQuiet(u)
  BY <1>3, IdleIs DEF AllQuiet, Dialogs
<1> QED BY <1>3, <1>5, <1>6

LEMMA BareIsIdle ==
  ASSUME NEW u, Good(u, NoOp), DOMAIN u.overlays = {}
  PROVE  Idle(u, NoOp) /\ u.op = NoOp /\ u.active = {} /\ AllQuiet(u)
<1>1. u \in Uis /\ Work(u, NoOp) /\ Layers(u, NoOp)
  BY DEF Good, Sound
<1>2. \A d \in Dialogs : ~Holds(u, NoOp, d)
  BY <1>1 DEF Layers, Above, Shows
<1> QED BY <1>1, <1>2, NobodyHolds

\* The overlay o lies over all the others.
Topmost(u, o) == Shows(u, o) /\ u.overlays[o] = DOMAIN u.overlays \ {o}

LEMMA TopAlone ==
  ASSUME NEW u, NEW o \in Overlays \ {"offer"}, Good(u, NoOp), Topmost(u, o),
         o \in Dialogs => ~Holds(u, NoOp, o)
  PROVE  Idle(u, NoOp) /\ u.op = NoOp /\ u.active = {} /\ AllQuiet(u)
<1>1. u \in Uis /\ Work(u, NoOp) /\ Layers(u, NoOp)
  BY DEF Good, Sound
<1>2. ASSUME NEW d \in Dialogs, Holds(u, NoOp, d) PROVE FALSE
  <2>1. Above(u, d) /\ d # o /\ Ordered(u)
    BY <1>1, <1>2 DEF Layers
  <2>2. o \in u.overlays[d] /\ d \in u.overlays[o] /\ d \in DOMAIN u.overlays
        /\ o \in DOMAIN u.overlays
    BY <2>1 DEF Above, Shows, Topmost
  <2> QED BY <2>1, <2>2 DEF Ordered
<1> QED BY <1>1, <1>2, NobodyHolds

LEMMA TopRepair ==
  ASSUME NEW u, Good(u, NoOp), Topmost(u, "repair")
  PROVE  u.repairing /\ ~Shows(u, "files")
<1>1. u.repairing
  BY DEF Good, RepairShown, Topmost
<1>2. Ordered(u) /\ (Shows(u, "files") => "repair" \in u.overlays["files"])
  BY DEF Good, Sound, Layers, Topmost
<1> QED BY <1>1, <1>2 DEF Ordered, Topmost, Shows

\* A check goes on, and nothing else does.
LEMMA CheckAlone ==
  ASSUME NEW u \in Uis, Work(u, NoOp), u.op # NoOp
  PROVE  /\ u.check \in {"Version", "Integrity"} /\ ~u.transfer /\ u.active = {u.op}
         /\ u.op.kind # "transfer"
         /\ u.dialog["update"].op = u.op /\ u.dialog["update"].observing
         /\ \A d \in {"repair", "install"} : u.dialog[d].op = NoOp /\ ~u.dialog[d].observing
<1>1. /\ u.check \in {"Version", "Integrity"} /\ ~u.transfer
      /\ u.dialog["update"].op = u.op /\ u.dialog["update"].observing
      /\ u.op.kind # "transfer"
  BY DEF Work, CheckHolds, TransferHolds, Uis
<1>2. \A d \in {"repair", "install"} : u.dialog[d].op = NoOp /\ ~u.dialog[d].observing
  BY <1>1 DEF Work, CheckHolds, TransferHolds, Holds, Dialogs
<1>3. u.active = {u.op}
  <2>1. {u.dialog[d].op : d \in Dialogs} \subseteq {u.op, NoOp}
    BY <1>1, <1>2 DEF Dialogs
  <2>2. Waited(u) \ {NoOp} = {u.op}
    BY <2>1 DEF Waited
  <2>3. NoOp \notin u.active
    BY NoOpIsNone DEF Uis
  <2> QED BY <2>2, <2>3 DEF Work
<1> QED BY <1>1, <1>2, <1>3

\* All but the check, its operation, and what goes with them; and its result.
Unchecked(u, v) ==
  /\ v.config = u.config /\ v.game = u.game /\ v.key = u.key /\ v.checked = u.checked
  /\ v.launch = u.launch /\ v.pending = u.pending /\ v.repairing = u.repairing
  /\ v.suspended = u.suspended /\ v.overlays = u.overlays /\ v.installing = u.installing
  /\ v.view = u.view /\ v.purpose = u.purpose /\ v.prefix = u.prefix /\ v.present = u.present
  /\ v.wine = u.wine /\ v.failed = u.failed /\ v.transfer = u.transfer
  /\ v.stage = u.stage

LEMMA CancelCheckIs ==
  ASSUME NEW u \in Uis, u.op # NoOp, u.active = {u.op}
  PROVE  LET v == [CancelCheck(u) EXCEPT !.needed = FALSE]
         IN  /\ v \in Uis /\ Unchecked(u, v) /\ v.check = "None" /\ v.op = NoOp
             /\ v.active = {} /\ ~v.needed /\ v.dialog = u.dialog
<1> DEFINE c == CourierCancel(u, "checker")
           w == [c EXCEPT !.active = {}, !.op = NoOp, !.check = "None", !.needed = FALSE]
<1>1. c \in Uis /\ Queued(u, c)
  BY CancelIs DEF Couriers
<1> HIDE DEF c
<1>2. c.active \ {u.op} = {}
  BY <1>1 DEF Queued
<1>3. CancelCheck(u) = [[c EXCEPT !.active = {}] EXCEPT !.op = NoOp, !.check = "None"]
  BY <1>2 DEF CancelCheck, Clear, c
<1>4. [CancelCheck(u) EXCEPT !.needed = FALSE] = w
  BY <1>1, <1>3 DEF Uis
<1>5. /\ w \in Uis /\ w.check = "None" /\ w.op = NoOp /\ w.active = {} /\ w.needed = FALSE
  BY <1>1, NoOpIsNone DEF Uis
<1>6. Unchecked(c, w) /\ w.dialog = c.dialog
  BY <1>1 DEF Uis, Unchecked
<1> HIDE DEF w
<1> QED BY <1>1, <1>4, <1>5, <1>6, ZenonT(40) DEF Unchecked, Queued

LEMMA CheckLetGo ==
  ASSUME NEW u, NEW p, NEW x \in Uis, Good(u, NoOp), u.op # NoOp, ~u.launch,
         Unchecked(u, x), x.check = "None", x.op = NoOp, x.active = {}, ~x.needed,
         (p = u.op /\ x.dialog = u.dialog) \/ (p = NoOp /\ AllQuiet(x))
  PROVE  Answering(x, p)
<1>1. /\ u \in Uis /\ Work(u, NoOp) /\ Layers(u, NoOp) /\ Place(u) /\ RepairShown(u)
      /\ Followed(u) /\ Installed(u) /\ Viewed(u)
  BY DEF Good, Sound
<1>2. /\ ~u.transfer /\ u.dialog["update"].op = u.op /\ u.dialog["update"].observing
      /\ \A d \in {"repair", "install"} : u.dialog[d].op = NoOp /\ ~u.dialog[d].observing
      /\ u.op.kind # "transfer"
  BY <1>1, CheckAlone
<1>3. \A o : Shows(x, o) <=> Shows(u, o)
  BY DEF Shows, Unchecked
<1>4. \A d \in Dialogs : ~Holds(x, p, d)
  BY <1>2 DEF Holds, Dialogs, AllQuiet
<1>5. Work(x, p)
  <2>1. CheckHolds(x, p)
    BY <1>2 DEF CheckHolds, AllQuiet, Dialogs
  <2>2. TransferHolds(x, p)
    BY <1>2, <1>4 DEF TransferHolds, Unchecked, Dialogs, AllQuiet
  <2>3. Waited(x) \subseteq {p}
    BY <1>2 DEF Waited, Dialogs, AllQuiet
  <2> QED BY <2>1, <2>2, <2>3 DEF Work
<1>6. Reported(x, p)
  BY <1>4 DEF Reported
<1>7. Layers(x, p)
  BY <1>1, <1>3, <1>4 DEF Layers, Ordered, Unchecked, Dialogs
<1>8. Place(x)
  BY <1>1, <1>2 DEF Place, Unchecked
<1>9. Followed(x) /\ Installed(x) /\ RepairShown(x) /\ Viewed(x) /\ Updatable(x)
  BY <1>1, <1>3 DEF Followed, Installed, RepairShown, Viewed, Updatable, Unchecked
<1>10. Idle(x, p)
  BY <1>2 DEF Idle, Unchecked
<1> QED BY <1>5, <1>6, <1>7, <1>8, <1>9, <1>10 DEF Answering, Fair, Sound

\* A dialog calls its transfer off.
LEMMA CancelActiveIs ==
  ASSUME NEW u, NEW d \in Dialogs, Good(u, NoOp), Holds(u, NoOp, d), ~u.dialog[d].observing
  PROVE  LET v == CancelActive(u, d)
         IN  /\ Good(v, NoOp) /\ Idle(v, NoOp) /\ v.wine = u.wine /\ v.repairing = u.repairing
             /\ \A o \in {"repair", "files"} : Shows(v, o) <=> Shows(u, o)
<1> DEFINE op == u.dialog[d].op
           c  == CourierCancel(u, d)
           r  == Report(c, Status(op, "cancelled"), TRUE)
<1>1. /\ u \in Uis /\ Sound(u, NoOp) /\ Work(u, NoOp) /\ op # NoOp /\ ~u.dialog[d].observing
  BY DEF Good, Sound, Holds
<1>2. op # u.op
  BY <1>1, CheckAlone DEF Dialogs
<1>3. c \in Uis /\ Sound(c, NoOp) /\ Queued(u, c)
  BY <1>1, CancelSound DEF Sound, Couriers
<1>4. Good(c, NoOp)
  BY <1>1, <1>3, QueuedSound DEF Good
<1>5. c.dialog[d].op = op /\ op # c.op
  BY <1>2, <1>3 DEF Queued
<1> HIDE DEF c, op
<1>6. Receiving(c, op)
  BY <1>4, GoodReceives
<1>7. /\ Good(r, NoOp) /\ r.wine = c.wine
      /\ Idle(r, NoOp) /\ r.repairing = c.repairing
      /\ \A o \in {"repair", "files"} : Shows(r, o) <=> Shows(c, o)
  <2>1. ASSUME NEW able \in BOOLEAN
        PROVE  LET t == Report(c, Status(op, "cancelled"), able)
               IN  /\ Good(t, NoOp) /\ t.wine = c.wine
                   /\ Idle(t, NoOp) /\ t.repairing = c.repairing
                   /\ \A o \in {"repair", "files"} : Shows(t, o) <=> Shows(c, o)
    BY <1>1, <1>5, <1>6, TransferReport
  <2> QED BY <2>1
<1>8. r.dialog[d].op # op
  <2>1. r \in Uis /\ Work(r, NoOp)
    BY <1>7 DEF Good, Sound
  <2>2. ~Holds(r, NoOp, d)
    BY <1>7, <2>1, IdleIs
  <2> HIDE DEF r
  <2>3. r.dialog[d].op = NoOp
    BY <2>2 DEF Holds
  <2> QED BY <1>1, <2>3
<1>9. CancelActive(u, d) = r
  <2>1. CancelActive(u, d) = IF op = NoOp THEN u
                             ELSE IF r.dialog[d].op = op THEN [Clear(r, op) EXCEPT !.dialog[d].op = NoOp]
                             ELSE r
    BY Zenon DEF CancelActive, op, c
  <2> QED BY <1>1, <1>8, <2>1
<1> HIDE DEF r
<1> QED BY <1>3, <1>7, <1>9 DEF Queued, Shows

\* A launch that was wanted is wanted no more.
LEMMA UnwantedGood ==
  ASSUME NEW u, Good(u, NoOp)
  PROVE  LET v == [u EXCEPT !.launch = FALSE]
         IN  /\ v \in Uis /\ Good(v, NoOp) /\ Unlaunched(u, v) /\ ~v.launch
             /\ v.pending = u.pending
<1> DEFINE v == [u EXCEPT !.launch = FALSE]
<1>1. u \in Uis /\ Fair(u, NoOp) /\ Fits(u)
  BY DEF Good, Sound, Fair
<1>2. v \in Uis /\ v.launch = FALSE /\ v.pending = u.pending /\ Unlaunched(u, v)
  BY <1>1 DEF Uis, Unlaunched
<1> HIDE DEF v
<1>3. Fair(v, NoOp) /\ Fits(v)
  BY <1>1, <1>2, UnlaunchedFair
<1> QED BY <1>2, <1>3 DEF Fair, Good, v

\* The check is called off, from the dialog that shows it.
LEMMA CancelPrelaunchIs ==
  ASSUME NEW u, Good(u, NoOp), u.dialog["update"].observing
  PROVE  LET v == Close(CancelPrelaunch([StopObserving(u) EXCEPT !.launch = FALSE]), "update")
         IN  Good(v, NoOp) /\ v.wine = u.wine
<1> DEFINE g == [u EXCEPT !.launch = FALSE]
           a == StopObserving(u)
           s == [a EXCEPT !.launch = FALSE]
           x == [CancelCheck(s) EXCEPT !.needed = FALSE]
           y == Recompute(x)
           v == Close(y, "update")
<1>1. u \in Uis /\ Work(u, NoOp) /\ u.op # NoOp
  <2>1. u \in Uis /\ Work(u, NoOp)
    BY DEF Good, Sound
  <2> QED BY <2>1 DEF Work, CheckHolds
<1>2. /\ u.active = {u.op}
      /\ \A d \in {"repair", "install"} : u.dialog[d].op = NoOp /\ ~u.dialog[d].observing
  BY <1>1, CheckAlone
<1>3. g \in Uis /\ Good(g, NoOp) /\ Unlaunched(u, g) /\ ~g.launch /\ g.pending = u.pending
  BY UnwantedGood
<1>4. /\ a \in Uis /\ Undialogued(u, a) /\ ~a.dialog["update"].observing
      /\ a.dialog["update"].op = NoOp
      /\ \A d \in {"repair", "install"} : a.dialog[d] = u.dialog[d]
  BY <1>1, StopObservingIs
<1> HIDE DEF a, g
<1>5. /\ s \in Uis /\ s.launch = FALSE /\ s.dialog = a.dialog /\ s.op = a.op /\ s.active = a.active
  BY <1>4 DEF Uis
<1>6. Unchecked(g, s)
  <2>1. Unlaunched(a, s) /\ s.pending = a.pending
    BY <1>4 DEF Uis, Unlaunched
  <2>2. s.launch = g.launch
    <3>1. g.launch = FALSE /\ s.launch = FALSE
      BY <1>3, <1>5 DEF Uis
    <3> HIDE DEF s
    <3> QED BY <3>1, Zenon
  <2> HIDE DEF s
  <2> QED BY <1>3, <1>4, <1>5, <2>1, <2>2 DEF Unchecked, Unlaunched, Undialogued
<1>7. s.op = u.op /\ s.active = {u.op}
  BY <1>2, <1>4, <1>5 DEF Undialogued
<1>8. AllQuiet(s)
  BY <1>2, <1>4, <1>5 DEF AllQuiet, Dialogs
<1> HIDE DEF s
<1>9. /\ x \in Uis /\ Unchecked(s, x) /\ x.check = "None" /\ x.op = NoOp
      /\ x.active = {} /\ ~x.needed /\ x.dialog = s.dialog
  BY <1>1, <1>5, <1>7, CancelCheckIs
<1>10. v = Close(Recompute(x), "update")
  OBVIOUS
<1>11. Close(CancelPrelaunch(s), "update") = v
  BY DEF CancelPrelaunch
<1> HIDE DEF x
<1>12. Unchecked(g, x) /\ AllQuiet(x) /\ g.op # NoOp
  BY <1>1, <1>3, <1>6, <1>8, <1>9 DEF Unchecked, AllQuiet, Unlaunched
<1>13. Answering(x, NoOp)
  BY <1>3, <1>9, <1>12, CheckLetGo
<1>14. Good(y, NoOp) /\ Started(x, y) /\ Changed(x, y, NoOp)
  BY <1>13, RecomputeFair DEF Answering
<1> HIDE DEF y
<1>15. y.wine = u.wine /\ y.dialog = x.dialog
  BY <1>3, <1>12, <1>14 DEF Started, Changed, Moved, Staged, Unchecked, Unlaunched
<1>16. ~Holds(y, NoOp, "update")
  BY <1>12, <1>15 DEF Holds, AllQuiet, Dialogs
<1>17. Fair(y, NoOp) /\ Fits(y) /\ y \in Uis
  BY <1>14 DEF Good, Fair, Sound
<1>18. Fair(v, NoOp) /\ Fits(v) /\ Beside(y, v)
  BY <1>16, <1>17, CloseFair DEF Overlays, Dialogs
<1> HIDE DEF v
<1>19. Good(v, NoOp) /\ v.wine = u.wine
  BY <1>15, <1>18 DEF Good, Fair, Beside
<1> QED BY <1>11, <1>19 DEF s, a

LEMMA CancelDownloadIs ==
  ASSUME NEW u, NEW d \in Dialogs, Good(u, NoOp), Topmost(u, d)
  PROVE  Good(CancelDownload(u, d), NoOp) /\ CancelDownload(u, d).wine = u.wine
<1>1. u \in Uis /\ Work(u, NoOp)
  BY DEF Good, Sound
<1>2. CASE u.dialog[d].observing
  <2>1. d = "update"
    BY <1>1, <1>2 DEF Work, CheckHolds, Dialogs
  <2>2. CancelDownload(u, d) = Close(CancelPrelaunch([StopObserving(u) EXCEPT !.launch = FALSE]), "update")
    BY <1>2, <2>1 DEF CancelDownload, Hide
  <2> QED BY <1>2, <2>1, <2>2, CancelPrelaunchIs
<1>3. CASE ~u.dialog[d].observing
  <2> DEFINE w == CancelActive(u, d)
  <2>1. CancelDownload(u, d) = Closed(w, d)
    BY <1>3 DEF CancelDownload
  <2>2. /\ Good(w, NoOp) /\ Idle(w, NoOp) /\ w.wine = u.wine /\ w.repairing = u.repairing
        /\ \A o \in {"repair", "files"} : Shows(w, o) <=> Shows(u, o)
    <3>1. CASE Holds(u, NoOp, d)
      BY <1>3, <3>1, CancelActiveIs
    <3>2. CASE ~Holds(u, NoOp, d)
      <4>1. w = u
        BY <3>2 DEF CancelActive, Holds
      <4>2. Idle(u, NoOp)
        BY <3>2, TopAlone DEF Overlays, Dialogs
      <4> QED BY <4>1, <4>2
    <3> QED BY <3>1, <3>2
  <2> HIDE DEF w
  <2>3. d = "repair" => w.repairing /\ ~Shows(w, "files")
    BY <2>2, TopRepair
  <2>4. Good(Closed(w, d), NoOp) /\ Closed(w, d).wine = w.wine
    BY <2>2, <2>3, ClosedIs
  <2> QED BY <2>1, <2>2, <2>4
<1> QED BY <1>2, <1>3

\* A transfer whose game is not the configured one any more.
LEMMA OnContextIs ==
  ASSUME NEW u, NEW d \in Dialogs, Good(u, NoOp), Loyal(u)
  PROVE  Good(OnContext(u, d), NoOp) /\ OnContext(u, d).wine = u.wine
<1>1. u \in Uis /\ Work(u, NoOp) /\ Layers(u, NoOp) /\ RepairShown(u)
  BY DEF Good, Sound
<1>2. CASE ~Stale(u, d)
  BY <1>2 DEF OnContext
<1>3. CASE Stale(u, d)
  <2> DEFINE w == CancelActive(u, d)
  <2>1. Holds(u, NoOp, d)
    BY <1>3 DEF Stale, Holds
  <2>2. ~u.dialog[d].observing
    BY <1>1, <1>3 DEF Work, CheckHolds, Stale, Loyal, Going, Waited, Dialogs
  <2>3. /\ Good(w, NoOp) /\ Idle(w, NoOp) /\ w.wine = u.wine /\ w.repairing = u.repairing
        /\ \A o \in {"repair", "files"} : Shows(w, o) <=> Shows(u, o)
    BY <2>1, <2>2, CancelActiveIs
  <2>4. OnContext(u, d) = Closed(w, d)
    BY <1>3 DEF OnContext
  <2> HIDE DEF w
  <2>5. d = "repair" => w.repairing /\ ~Shows(w, "files")
    <3>1. Above(u, d) /\ Ordered(u)
      BY <1>1, <2>1 DEF Layers
    <3> QED BY <1>1, <2>3, <3>1 DEF Layers, Ordered, Above, Shows, RepairShown
  <2>6. Good(Closed(w, d), NoOp) /\ Closed(w, d).wine = w.wine
    BY <2>3, <2>5, ClosedIs
  <2> QED BY <2>3, <2>4, <2>6
<1> QED BY <1>2, <1>3

(***************************************************************************)
(* A launch                                                                *)
(***************************************************************************)
\* All but what has been asked for.
Asked(u, v) ==
  /\ v.config = u.config /\ v.game = u.game /\ v.key = u.key
  /\ v.pending = u.pending /\ v.repairing = u.repairing
  /\ v.suspended = u.suspended /\ v.overlays = u.overlays /\ v.installing = u.installing
  /\ v.view = u.view /\ v.prefix = u.prefix /\ v.present = u.present
  /\ v.wine = u.wine /\ v.failed = u.failed /\ v.needed = u.needed /\ v.check = u.check
  /\ v.op = u.op /\ v.transfer = u.transfer /\ v.dialog = u.dialog /\ v.active = u.active
  /\ v.running = u.running /\ v.posted = u.posted /\ v.stage = u.stage

LEMMA AskedGood ==
  ASSUME NEW u, NEW v \in Uis, Good(u, NoOp), Asked(u, v), u.checked => v.checked,
         v.launch => u.launch \/ (u.stage = "Ready" /\ u.game \notin u.pending /\ ~u.repairing /\ world.prefix)
  PROVE  Good(v, NoOp) /\ FreeIds(v) = FreeIds(u)
<1>1. Sound(u, NoOp) /\ Fits(u) /\ Followed(u) /\ Installed(u) /\ RepairShown(u) /\ Viewed(u)
  BY DEF Good
<1>2. (\A o : Shows(v, o) <=> Shows(u, o)) /\ (\A d : Holds(v, NoOp, d) <=> Holds(u, NoOp, d))
  BY DEF Asked, Shows, Holds
<1>3. Work(v, NoOp) /\ Reported(v, NoOp)
  BY <1>1, <1>2 DEF Asked, Sound, Work, CheckHolds, TransferHolds, Waited, Reported, Coming
<1>4. Layers(v, NoOp)
  BY <1>1, <1>2 DEF Asked, Sound, Layers, Ordered, Above
<1>5. Place(v)
  BY <1>1 DEF Asked, Sound, Place
<1>6. Fits(v) /\ Installed(v) /\ RepairShown(v) /\ Viewed(v)
  BY <1>1, <1>2 DEF Asked, Fits, Installed, RepairShown, Viewed
<1>7. Followed(v)
  BY <1>1 DEF Asked, Followed
<1>8. FreeIds(v) = FreeIds(u)
  BY DEF Asked, FreeIds, Known
<1> QED BY <1>3, <1>4, <1>5, <1>6, <1>7, <1>8 DEF Good, Sound

\* Before the game starts its version is asked for again.
LEMMA RecheckIs ==
  ASSUME NEW u, NEW able \in BOOLEAN, Good(u, NoOp), u.launch, u.checked, u.op = NoOp,
         FreeIds(u) # {}
  PROVE  Good(RecheckBeforeLaunch(u, able), NoOp) /\ RecheckBeforeLaunch(u, able).wine = u.wine
<1> DEFINE v == RecheckBeforeLaunch(u, able)
           n == [u EXCEPT !.needed = FALSE]
<1>1. u \in Uis /\ Work(u, NoOp) /\ Place(u) /\ Layers(u, NoOp) /\ Fits(u) /\ Followed(u) /\ Viewed(u)
  BY DEF Good, Sound
<1>2. CASE u.present /\ ~u.transfer /\ u.wine = "idle"
  <2>1. v = StartUpdateCheck(n, able)
    <3>1. CancelCheck(u) = u
      BY DEF CancelCheck
    <3> QED BY <1>2, <3>1 DEF RecheckBeforeLaunch
  <2>2. u.check = "None" /\ Idle(u, NoOp)
    BY <1>1, <1>2 DEF Work, CheckHolds, Idle
  <2>3. u.stage = "Ready"
    BY <1>1, <1>2, <2>2 DEF Followed, Fits
  <2>4. ~Shows(u, "setup") /\ world.prefix
    <3>1. u.view = "chooser" /\ world.prefix
      BY <1>1, <2>3, ViewIs DEF Place, Viewed
    <3> QED BY <1>1, <3>1 DEF Layers
  <2>5. Answering(u, NoOp)
    <3>1. u.active = {}
      <4>1. NoOp \notin u.active
        BY <1>1, NoOpIsNone DEF Uis
      <4> QED BY <1>1, <2>2, <4>1, IdleIs
    <3>2. Updatable(u)
      BY <1>1, <2>3, FitsUpdatable
    <3> QED BY <2>2, <3>1, <3>2 DEF Good, Answering, Fair
  <2>6. /\ n \in Uis /\ Answering(n, NoOp) /\ FreeIds(n) = FreeIds(u) /\ n.wine = u.wine
        /\ n.prefix = u.prefix /\ n.present = u.present /\ n.failed = u.failed
        /\ n.checked = u.checked /\ n.overlays = u.overlays /\ Fits(n)
    BY <1>1, <2>5, NeededIs
  <2> HIDE DEF n
  <2>7. CASE n.prefix /\ n.present /\ ~n.transfer /\ n.wine = "idle" /\ ~n.failed
    <3>1. v = StartCheck(n, "Version", "version", able)
      BY <2>1, <2>7 DEF StartUpdateCheck
    <3>2. Placed(n)
      BY <2>4, <2>6, <2>7 DEF Placed, Shows
    <3>3. Good(v, NoOp) /\ v.wine = n.wine
      BY <2>6, <3>1, <3>2, StartCheckIs
    <3> QED BY <2>6, <3>3
  <2>8. CASE ~(n.prefix /\ n.present /\ ~n.transfer /\ n.wine = "idle" /\ ~n.failed)
    <3>1. v = n
      BY <2>1, <2>8 DEF StartUpdateCheck
    <3>2. Good(n, NoOp)
      BY <2>6 DEF Answering, Fair, Good
    <3> HIDE DEF v
    <3> QED BY <2>6, <3>1, <3>2 DEF v
  <2> QED BY <2>7, <2>8
<1>3. CASE ~(u.present /\ ~u.transfer /\ u.wine = "idle")
  BY <1>3 DEF RecheckBeforeLaunch
<1> QED BY <1>2, <1>3

LEMMA ContinueIs ==
  ASSUME NEW u, NEW able \in BOOLEAN, Good(u, NoOp), FreeIds(u) # {}
  PROVE  LET v == ContinueAfterLauncherCheck(u, able)
         IN  Good(v, NoOp) /\ v.wine = u.wine
<1> DEFINE v == ContinueAfterLauncherCheck(u, able)
           c == [u EXCEPT !.checked = TRUE]
<1>1. u \in Uis /\ Work(u, NoOp)
  BY DEF Good, Sound
<1>2. c \in Uis /\ Asked(u, c) /\ c.checked = TRUE /\ c.launch = u.launch
  BY <1>1 DEF Uis, Asked
<1>3. v = IF u.checked THEN u ELSE IF u.launch THEN RecheckBeforeLaunch(c, able) ELSE c
  BY DEF ContinueAfterLauncherCheck
<1> HIDE DEF c, v
<1>4. Good(c, NoOp) /\ FreeIds(c) = FreeIds(u) /\ c.wine = u.wine
  BY <1>2, AskedGood DEF Asked
<1>5. CASE u.checked \/ ~u.launch
  <2>1. v \in {u, c}
    BY <1>3, <1>5
  <2> QED BY <1>4, <2>1 DEF v
<1>6. CASE ~u.checked /\ u.launch
  <2>1. c.op = NoOp
    BY <1>1, <1>2, <1>6 DEF Work, CheckHolds, Asked
  <2>2. Good(RecheckBeforeLaunch(c, able), NoOp) /\ RecheckBeforeLaunch(c, able).wine = c.wine
    BY <1>2, <1>4, <1>6, <2>1, RecheckIs
  <2> QED BY <1>3, <1>4, <1>6, <2>2 DEF v
<1> QED BY <1>5, <1>6

(***************************************************************************)
(* A probe, and a change of the game                                       *)
(***************************************************************************)
\* A launch that waits for nothing has been asked for in vain, or is about to be answered.
LEMMA LaunchWaits ==
  ASSUME NEW u, Fits(u), Followed(u), u.launch, u.check = "None", ~u.transfer
  PROVE  u.stage = "Ready"
  BY DEF Fits, Followed

LEMMA RekeyedFair ==
  ASSUME NEW u, NEW v \in Uis, Fair(u, NoOp), Settled(u, v),
         v.needed = FALSE, v.transfer = u.transfer, v.repairing = u.repairing
  PROVE  Fair(v, NoOp) /\ Updatable(v)
<1>1. (\A o : Shows(v, o) <=> Shows(u, o)) /\ (\A d : Holds(v, NoOp, d) <=> Holds(u, NoOp, d))
  BY DEF Shows, Holds, Settled
<1>2. Work(v, NoOp) /\ Reported(v, NoOp)
  BY <1>1 DEF Fair, Sound, Work, CheckHolds, TransferHolds, Waited, Reported, Coming, Settled
<1>3. Layers(v, NoOp)
  BY <1>1 DEF Fair, Sound, Layers, Ordered, Above, Settled
<1>4. Place(v)
  BY DEF Fair, Sound, Place, Settled
<1>5. Followed(v) /\ Installed(v) /\ RepairShown(v) /\ Viewed(v) /\ Updatable(v)
  BY <1>1 DEF Fair, Followed, Installed, RepairShown, Viewed, Updatable, Settled
<1> QED BY <1>2, <1>3, <1>4, <1>5 DEF Fair, Sound

LEMMA ProbeIs ==
  ASSUME NEW u, Fair(u, NoOp), world.prefix \in BOOLEAN,
         u.check # "None" => u.config = u.key /\ u.config \in world.installed,
         u.launch /\ u.check = "None" /\ ~u.transfer => u.stage = "Ready"
  PROVE  LET v == Probe(u)
         IN  /\ Good(v, NoOp) /\ v.wine = u.wine /\ v.config = u.config /\ v.game = u.game
             /\ v.pending = u.pending /\ v.check = u.check /\ v.transfer = u.transfer
             /\ v.launch => u.launch
<1> DEFINE r == Probe(u)
<1>1. u \in Uis /\ Work(u, NoOp) /\ Place(u) /\ Layers(u, NoOp) /\ Reported(u, NoOp)
  BY DEF Fair, Sound
<1>2. PICK found \in BOOLEAN : found <=> u.config \in world.installed
  OBVIOUS
<1> DEFINE v == [u EXCEPT !.prefix = world.prefix, !.present = u.config \in world.installed]
           c == CourierCancel(v, "checker")
           w == [c EXCEPT !.needed = FALSE, !.key = c.config]
<1>3. v = [u EXCEPT !.prefix = world.prefix, !.present = found]
  BY <1>2
<1>4. r = Recompute(IF u.config = u.key THEN v
                    ELSE [CourierCancel(CancelCheck(v), "checker") EXCEPT !.needed = FALSE, !.key = u.config])
  BY DEF Probe
<1> HIDE DEF v, r
<1>5. v \in Uis /\ v.prefix = world.prefix /\ v.present = found
  BY <1>1, <1>3 DEF Uis
<1>6. /\ v.config = u.config /\ v.game = u.game /\ v.key = u.key /\ v.checked = u.checked
      /\ v.launch = u.launch /\ v.pending = u.pending /\ v.repairing = u.repairing
      /\ v.suspended = u.suspended /\ v.overlays = u.overlays /\ v.installing = u.installing
      /\ v.view = u.view /\ v.purpose = u.purpose /\ v.wine = u.wine
  BY <1>1, <1>3 DEF Uis
<1>7. /\ v.failed = u.failed /\ v.needed = u.needed /\ v.check = u.check
      /\ v.op = u.op /\ v.transfer = u.transfer /\ v.dialog = u.dialog /\ v.active = u.active
      /\ v.running = u.running /\ v.posted = u.posted /\ v.stage = u.stage
  BY <1>1, <1>3 DEF Uis
<1>8. (\A o : Shows(v, o) <=> Shows(u, o)) /\ (\A d : Holds(v, NoOp, d) <=> Holds(u, NoOp, d))
  BY <1>6, <1>7 DEF Shows, Holds
<1>9. Work(v, NoOp) /\ Reported(v, NoOp)
  BY <1>1, <1>6, <1>7, <1>8 DEF Work, CheckHolds, TransferHolds, Waited, Reported, Coming
<1>10. Layers(v, NoOp)
  BY <1>1, <1>5, <1>6, <1>7, <1>8 DEF Layers, Ordered, Above
<1>11. Place(v)
  BY <1>1, <1>2, <1>5, <1>6, <1>7 DEF Place
<1>12. Followed(v) /\ Installed(v) /\ RepairShown(v) /\ Viewed(v)
  BY <1>5, <1>6, <1>7, <1>8 DEF Fair, Followed, Installed, RepairShown, Viewed
<1>13. Updatable(v)
  BY <1>5 DEF Updatable
<1>14. Fair(v, NoOp)
  BY <1>5, <1>9, <1>10, <1>11, <1>12 DEF Fair, Sound
<1>15. ASSUME NEW x, r = Recompute(x), Fair(x, NoOp), Updatable(x),
              x.config = u.config, x.game = u.game, x.pending = u.pending, x.check = u.check,
              x.transfer = u.transfer, x.launch = u.launch, x.wine = u.wine, x.stage = u.stage
       PROVE  /\ Good(r, NoOp) /\ r.wine = u.wine /\ r.config = u.config /\ r.game = u.game
              /\ r.pending = u.pending /\ r.check = u.check /\ r.transfer = u.transfer
              /\ r.launch => u.launch
  <2>1. Good(r, NoOp) /\ Started(x, r) /\ Changed(x, r, NoOp)
    BY <1>15, RecomputeFair
  <2> QED BY <1>15, <2>1 DEF Started, Changed, Moved, Staged
<1>16. CASE u.config = u.key
  <2>1. r = Recompute(v)
    BY <1>4, <1>16
  <2> QED BY <1>6, <1>7, <1>13, <1>14, <1>15, <2>1 DEF r
<1>17. CASE u.config # u.key
  <2>1. u.check = "None" /\ v.op = NoOp
    BY <1>1, <1>7, <1>17 DEF Work, CheckHolds
  <2>2. CancelCheck(v) = v
    BY <2>1 DEF CancelCheck
  <2>3. Sound(c, NoOp) /\ Queued(v, c)
    BY <1>5, <1>14, CancelSound DEF Fair, Couriers
  <2>4. c \in Uis
    BY <2>3 DEF Sound
  <2>5. r = Recompute(w)
    BY <1>4, <1>6, <1>17, <2>2, <2>3 DEF Queued
  <2> HIDE DEF c
  <2>6. Fair(c, NoOp)
    BY <1>14, <2>3, <2>4, QueuedSound DEF Fair
  <2>7. w \in Uis /\ w.needed = FALSE
    BY <2>4 DEF Uis
  <2>8. Settled(c, w) /\ w.transfer = c.transfer /\ w.repairing = c.repairing
    BY <2>4 DEF Uis, Settled
  <2> HIDE DEF w
  <2>9. Fair(w, NoOp) /\ Updatable(w)
    BY <2>6, <2>7, <2>8, RekeyedFair
  <2> QED BY <1>6, <1>7, <1>15, <2>3, <2>5, <2>8, <2>9 DEF Settled, Queued, r
<1> QED BY <1>16, <1>17

\* The same, with another game.
Regamed(u, v) ==
  /\ v.checked = u.checked /\ v.key = u.key
  /\ v.launch = u.launch /\ v.pending = u.pending /\ v.repairing = u.repairing
  /\ v.suspended = u.suspended /\ v.overlays = u.overlays /\ v.installing = u.installing
  /\ v.view = u.view /\ v.purpose = u.purpose /\ v.prefix = u.prefix /\ v.present = u.present
  /\ v.wine = u.wine /\ v.failed = u.failed /\ v.needed = u.needed /\ v.check = u.check
  /\ v.op = u.op /\ v.transfer = u.transfer /\ v.dialog = u.dialog /\ v.active = u.active
  /\ v.running = u.running /\ v.posted = u.posted /\ v.stage = u.stage

\* Config::changed, of which the window may know.
LEMMA RegamedIs ==
  ASSUME NEW u, NEW n \in Uis, Fair(u, NoOp), Regamed(u, n),
         n.game = u.game \/ (~u.launch /\ ~u.repairing /\ ~Shows(u, "files"))
           \/ (~u.launch /\ ~u.repairing /\ n.game \in u.pending)
  PROVE  LET v == ConfigChanged(n)
         IN  Fair(v, NoOp) /\ Queued(n, v) /\ (Fits(u) => Fits(v))
<1> DEFINE v == ConfigChanged(n)
<1>1. u \in Uis /\ Work(u, NoOp) /\ Reported(u, NoOp) /\ Place(u) /\ Layers(u, NoOp)
  BY DEF Fair, Sound
<1>2. (\A o : Shows(n, o) <=> Shows(u, o)) /\ (\A d : Holds(n, NoOp, d) <=> Holds(u, NoOp, d))
  BY DEF Shows, Holds, Regamed
<1>3. Work(n, NoOp) /\ Reported(n, NoOp)
  BY <1>1, <1>2 DEF Work, CheckHolds, TransferHolds, Waited, Reported, Coming, Regamed
<1>4. Layers(n, NoOp)
  BY <1>1, <1>2 DEF Layers, Ordered, Above, Regamed
<1>5. Place(n)
  BY <1>1 DEF Place, Regamed
<1>6. /\ Followed(n) /\ Installed(n) /\ RepairShown(n) /\ Viewed(n)
      /\ Fits(u) => Fits(n)
  BY <1>2 DEF Fair, Fits, Followed, Installed, RepairShown, Viewed, Regamed
<1>7. Sound(v, NoOp) /\ Queued(n, v)
  BY <1>3, <1>4, <1>5, ConfigChangedIs DEF Sound
<1> HIDE DEF v
<1>8. v \in Uis
  BY <1>7 DEF Sound
<1> QED BY <1>6, <1>7, <1>8, QueuedSound DEF Fair, v

\* What changes the game, when nothing goes on.
LEMMA SetGameIs ==
  ASSUME NEW u, NEW g \in Games, Fair(u, NoOp), Idle(u, NoOp), u.game # g, ~u.launch,
         ~u.repairing, Shows(u, "files") => g \in u.pending, world.prefix \in BOOLEAN
  PROVE  LET v == SetGame(u, g)
         IN  /\ Good(v, NoOp) /\ Idle(v, NoOp) /\ v.wine = u.wine /\ v.game = g
             /\ v.pending = u.pending /\ ~v.launch
<1> DEFINE n == [u EXCEPT !.game = g, !.config = g]
           c == ConfigChanged(n)
           v == SetGame(u, g)
<1>1. v = Probe(c)
  BY DEF SetGame
<1>2. u \in Uis
  BY DEF Fair, Sound
<1>3. n \in Uis /\ n.game = g
  BY <1>2 DEF Uis
<1>4. Regamed(u, n)
  BY <1>2 DEF Uis, Regamed
<1> HIDE DEF n, v
<1>5. Fair(c, NoOp) /\ Queued(n, c)
  BY <1>3, <1>4, RegamedIs
<1> HIDE DEF c
<1>6. /\ c.check = "None" /\ ~c.transfer /\ ~c.launch /\ c.game = g
      /\ c.pending = u.pending /\ c.wine = u.wine
  BY <1>3, <1>4, <1>5 DEF Queued, Regamed, Idle
<1>7. /\ Good(Probe(c), NoOp) /\ Probe(c).wine = c.wine /\ Probe(c).game = c.game
      /\ Probe(c).pending = c.pending /\ Probe(c).check = c.check
      /\ Probe(c).transfer = c.transfer /\ (Probe(c).launch => c.launch)
  BY <1>5, <1>6, ProbeIs
<1> QED BY <1>1, <1>6, <1>7 DEF Idle, v

\* The configuration is edited.
LEMMA EditIs ==
  ASSUME NEW u, NEW g \in Games, Good(u, NoOp)
  PROVE  LET v == ConfigChanged([u EXCEPT !.config = g])
         IN  /\ Good(v, NoOp) /\ v.wine = u.wine /\ v.config = g
             /\ v.launch = u.launch /\ v.check = u.check
<1> DEFINE n == [u EXCEPT !.config = g]
           v == ConfigChanged(n)
<1>1. u \in Uis /\ Fair(u, NoOp) /\ Fits(u)
  BY DEF Good, Fair, Sound
<1>2. n \in Uis /\ n.config = g /\ n.game = u.game
  BY <1>1 DEF Uis
<1>3. Regamed(u, n)
  BY <1>1 DEF Uis, Regamed
<1> HIDE DEF n
<1>4. Fair(v, NoOp) /\ Queued(n, v) /\ Fits(v)
  BY <1>1, <1>2, <1>3, RegamedIs
<1> HIDE DEF v
<1> QED BY <1>2, <1>3, <1>4 DEF Queued, Regamed, Good, Fair, v, n

(***************************************************************************)
(* Files of the game have changed                                          *)
(***************************************************************************)
\* The check is called off, because its game is not what it was.
LEMMA CallOffIs ==
  ASSUME NEW u, Good(u, NoOp), ~u.launch, u.stage = "CheckingUpdate"
  PROVE  LET v == Close(StopObserving(CancelPrelaunch(u)), "update")
         IN  /\ Good(v, NoOp) /\ Idle(v, NoOp) /\ v.wine = u.wine /\ v.game = u.game /\ ~v.launch
             /\ v.pending = u.pending /\ v.repairing = u.repairing /\ v.config = u.config
<1> DEFINE p == u.op
           x == [CancelCheck(u) EXCEPT !.needed = FALSE]
           y == Recompute(x)
           s == SyncFinished(y, TRUE)
           c == Close(StopObserving(y), "update")
<1>1. u \in Uis /\ Work(u, NoOp) /\ p # NoOp
  <2>1. u \in Uis /\ Work(u, NoOp) /\ Fits(u)
    BY DEF Good, Sound
  <2> QED BY <2>1 DEF Fits, Work, CheckHolds
<1>2. u.active = {p} /\ p.kind # "transfer"
  BY <1>1, CheckAlone
<1>3. /\ x \in Uis /\ Unchecked(u, x) /\ x.check = "None" /\ x.op = NoOp
      /\ x.active = {} /\ ~x.needed /\ x.dialog = u.dialog
  BY <1>1, <1>2, CancelCheckIs
<1>4. Close(StopObserving(CancelPrelaunch(u)), "update") = c
  BY DEF CancelPrelaunch
<1> HIDE DEF x, p
<1>5. Answering(x, p)
  BY <1>1, <1>3, CheckLetGo DEF p
<1>6. Good(y, p) /\ Started(x, y) /\ Changed(x, y, p)
  BY <1>5, RecomputeFair DEF Answering
<1> HIDE DEF y
<1>7. Answering(y, p)
  <2>1. Fits(y) /\ Fair(y, p)
    BY <1>6 DEF Good, Fair
  <2>2. ~y.needed /\ y.active = {} /\ Idle(y, p)
    BY <1>3, <1>5, <1>6 DEF Changed, Moved, Staged, Answering, Idle
  <2> QED BY <2>1, <2>2, FitsUpdatable DEF Answering
<1>8. y \in Uis /\ Fits(y)
  BY <1>6 DEF Good, Sound
<1>9. /\ Answering(s, NoOp) /\ Ended(y, s) /\ Fits(s)
  <2>1. ASSUME NEW ok \in BOOLEAN
        PROVE  LET t == SyncFinished(y, ok)
               IN  Answering(t, NoOp) /\ Ended(y, t) /\ Fits(t)
    BY <1>7, <1>8, FinishedFair
  <2> QED BY <2>1
<1>10. c \in Uis
  BY <1>8, StopObservingIs, CloseIs DEF Overlays, Dialogs
<1>11. s = c
  <2>1. s = [c EXCEPT !.launch = @ /\ TRUE]
    BY DEF SyncFinished
  <2> HIDE DEF c, s
  <2>2. c.launch \in BOOLEAN
    BY <1>10 DEF Uis
  <2>3. (c.launch /\ TRUE) = c.launch
    BY <2>2
  <2>4. s = [c EXCEPT !.launch = c.launch]
    BY <2>1, <2>3
  <2> QED BY <1>10, <2>4 DEF Uis
<1> HIDE DEF s, c
<1>12. Good(s, NoOp) /\ Idle(s, NoOp)
  BY <1>9 DEF Answering, Fair, Good
<1>13. ~y.launch
  BY <1>3, <1>6 DEF Changed, Moved, Unchecked
<1>14. /\ s.wine = u.wine /\ s.game = u.game /\ s.pending = u.pending
       /\ s.repairing = u.repairing /\ s.config = u.config
  BY <1>3, <1>6, <1>9, <1>13 DEF Started, Changed, Moved, Staged, Unchecked, Ended
<1>15. ~s.launch
  <2>1. c.launch = StopObserving(y).launch
    BY <1>8, StopObservingIs, CloseIs DEF Overlays, Dialogs, Beside, c
  <2>2. StopObserving(y).launch = y.launch
    BY <1>8, StopObservingIs DEF Undialogued
  <2> QED BY <1>11, <1>13, <2>1, <2>2
<1> QED BY <1>4, <1>11, <1>12, <1>14, <1>15

LEMMA FilesChangedIs ==
  ASSUME NEW u, NEW g \in Games, Good(u, NoOp), world.prefix \in BOOLEAN
  PROVE  LET v == OnFilesChanged(u, g)
         IN  /\ Good(v, NoOp) /\ v.wine = u.wine
             /\ v # u => ~v.launch /\ v.check = "None"
<1> DEFINE v == [u EXCEPT !.launch = FALSE]
           w == IF v.stage = "CheckingUpdate"
                THEN Close(StopObserving(CancelPrelaunch(v)), "update") ELSE v
           x == [w EXCEPT !.pending = @ \cup {g}]
           a == Close(x, "setup")
           b == Close(a, "install")
           n == SetGame(b, g)
           c == Open(n, "files")
           r == OnFilesChanged(u, g)
<1>1. v \in Uis /\ Good(v, NoOp) /\ Unlaunched(u, v) /\ ~v.launch /\ v.pending = u.pending
  BY UnwantedGood
<1>2. r = IF u.stage \in {"Downloading", "Updating"} \/ u.repairing \/ Shows(u, "repair") THEN u
          ELSE IF g \in u.pending THEN x
          ELSE c
  BY DEF OnFilesChanged
<1> HIDE DEF r, v
<1>3. CASE u.stage \in {"Downloading", "Updating"} \/ u.repairing \/ Shows(u, "repair")
  BY <1>2, <1>3 DEF r
<1>4. CASE ~(u.stage \in {"Downloading", "Updating"} \/ u.repairing \/ Shows(u, "repair"))
  <2>1. /\ Good(w, NoOp) /\ Idle(w, NoOp) /\ w.wine = u.wine /\ ~w.launch /\ ~w.repairing
    <3>1. CASE v.stage = "CheckingUpdate"
      <4> DEFINE k == Close(StopObserving(CancelPrelaunch(v)), "update")
      <4>1. /\ Good(k, NoOp) /\ Idle(k, NoOp) /\ k.wine = v.wine /\ ~k.launch
            /\ k.repairing = v.repairing
        BY <1>1, <3>1, CallOffIs
      <4>2. w = k
        BY <3>1
      <4> HIDE DEF k, w
      <4> QED BY <1>1, <1>4, <4>1, <4>2 DEF Unlaunched
    <3>2. CASE v.stage # "CheckingUpdate"
      <4>1. Fits(v) /\ Place(v)
        BY <1>1 DEF Good, Sound
      <4>2. v.check = "None" /\ ~v.transfer
        BY <1>1, <1>4, <3>2, <4>1 DEF Fits, Place, Unlaunched
      <4>3. w = v
        BY <3>2
      <4> HIDE DEF w
      <4> QED BY <1>1, <1>4, <4>2, <4>3 DEF Idle, Unlaunched
    <3> QED BY <3>1, <3>2
  <2> HIDE DEF w
  <2>2. w \in Uis /\ Fair(w, NoOp) /\ Fits(w)
    BY <2>1 DEF Good, Sound, Fair
  <2>3. /\ x \in Uis /\ Unlaunched(w, x) /\ x.launch = w.launch /\ x.pending = w.pending \cup {g}
    BY <2>2 DEF Uis, Unlaunched
  <2> HIDE DEF x
  <2>4. Fair(x, NoOp) /\ Fits(x)
    BY <2>1, <2>2, <2>3, UnlaunchedFair
  <2>5. Idle(x, NoOp) /\ x.wine = u.wine /\ g \in x.pending /\ ~x.launch /\ ~x.repairing
    BY <2>1, <2>3 DEF Idle, Unlaunched
  <2>6. Fair(a, NoOp) /\ Fits(a) /\ Beside(x, a) /\ a \in Uis
    <3>1. "setup" \in Overlays \ {"repair"} /\ "setup" \notin Dialogs
      BY DEF Overlays, Dialogs
    <3> QED BY <2>3, <2>4, <3>1, CloseFair, CloseIs
  <2>7. Idle(a, NoOp) /\ a.wine = u.wine /\ g \in a.pending /\ ~a.launch /\ ~a.repairing
    BY <2>5, <2>6 DEF Idle, Beside
  <2> HIDE DEF a
  <2>8. Fair(b, NoOp) /\ Fits(b) /\ Beside(a, b) /\ b \in Uis
    <3>1. "install" \in Overlays \ {"repair"} /\ "install" \in Dialogs
      BY DEF Overlays, Dialogs
    <3>2. ~Holds(a, NoOp, "install")
      BY <2>6, <2>7, <3>1, IdleIs DEF Fair, Sound
    <3> QED BY <2>6, <3>1, <3>2, CloseFair, CloseIs
  <2>9. Idle(b, NoOp) /\ b.wine = u.wine /\ g \in b.pending /\ ~b.launch /\ ~b.repairing
    BY <2>7, <2>8 DEF Idle, Beside
  <2> HIDE DEF b
  <2>10. /\ Fair(n, NoOp) /\ Fits(n) /\ Idle(n, NoOp) /\ n.wine = u.wine
         /\ n.game = g /\ g \in n.pending /\ ~n.launch
    <3>1. CASE b.game = g
      BY <2>8, <2>9, <3>1 DEF SetGame
    <3>2. CASE b.game # g
      BY <2>8, <2>9, <3>2, SetGameIs DEF Good, Fair
    <3> QED BY <3>1, <3>2
  <2> HIDE DEF n
  <2>11. MayOpen(n, NoOp, "files")
    <3>1. \A d \in Dialogs : ~Holds(n, NoOp, d)
      BY <2>10, IdleIs DEF Fair, Sound
    <3> QED BY <2>10, <3>1 DEF MayOpen
  <2>12. Fair(c, NoOp) /\ Fits(c) /\ Beside(n, c)
    <3>1. "files" \in Overlays \ {"repair"} /\ n \in Uis
      BY <2>10 DEF Overlays, Fair, Sound
    <3> QED BY <2>10, <2>11, <3>1, OpenFair
  <2> HIDE DEF c
  <2>13. Good(c, NoOp) /\ c.wine = u.wine /\ ~c.launch /\ c.check = "None"
    BY <2>10, <2>12 DEF Good, Fair, Beside, Idle
  <2>14. Good(x, NoOp) /\ x.wine = u.wine /\ ~x.launch /\ x.check = "None"
    BY <2>4, <2>5 DEF Good, Fair, Idle
  <2>15. r = x \/ r = c
    BY <1>2, <1>4
  <2> QED BY <2>13, <2>14, <2>15 DEF r
<1> QED BY <1>3, <1>4

(***************************************************************************)
(* A repair is asked for                                                   *)
(***************************************************************************)
LEMMA RequestRepairIs ==
  ASSUME NEW u, NEW able \in BOOLEAN, Good(u, NoOp), Topmost(u, "files"), u.wine = "idle",
         FreeIds(u) # {}
  PROVE  LET begun == Recompute([Close(u, "files") EXCEPT !.repairing = TRUE, !.needed = FALSE])
             v == StartDownload(Open([begun EXCEPT !.suspended = TRUE], "repair"), "repair", able)
         IN  Good(v, NoOp) /\ v.wine = u.wine
<1> DEFINE a == Close(u, "files")
           b == [a EXCEPT !.repairing = TRUE, !.needed = FALSE]
           c == Recompute(b)
           e == [c EXCEPT !.suspended = TRUE]
           g == Open(e, "repair")
           v == StartDownload(g, "repair", able)
<1>1. /\ u \in Uis /\ Layers(u, NoOp) /\ Place(u) /\ Fair(u, NoOp) /\ Fits(u) /\ Shows(u, "files")
  BY DEF Good, Sound, Fair, Topmost
<1>2. Idle(u, NoOp)
  BY TopAlone DEF Overlays, Dialogs
<1>3. u.game \in u.pending /\ ~u.launch
  BY <1>1 DEF Layers, Place
<1>4. /\ a \in Uis /\ Fair(a, NoOp) /\ Beside(u, a) /\ FreeIds(a) = FreeIds(u)
      /\ \A x : Shows(a, x) <=> Shows(u, x) /\ x # "files"
  <2>1. "files" \in Overlays \ {"repair"} /\ "files" \notin Dialogs
    BY DEF Overlays, Dialogs
  <2> QED BY <1>1, <2>1, CloseFair, CloseIs
<1> HIDE DEF a
<1>5. /\ b \in Uis /\ b.repairing = TRUE /\ b.needed = FALSE
  BY <1>4 DEF Uis
<1>6. /\ b.config = a.config /\ b.game = a.game /\ b.checked = a.checked /\ b.pending = a.pending
      /\ b.prefix = a.prefix /\ b.present = a.present /\ b.failed = a.failed /\ b.check = a.check
      /\ b.op = a.op /\ b.transfer = a.transfer /\ b.dialog = a.dialog /\ b.active = a.active
      /\ b.running = a.running /\ b.posted = a.posted
  BY <1>4 DEF Uis
<1>7. /\ b.launch = a.launch /\ b.overlays = a.overlays /\ b.installing = a.installing
      /\ b.view = a.view /\ b.wine = a.wine
  BY <1>4 DEF Uis
<1> HIDE DEF b
<1>8. /\ (\A o : Shows(b, o) <=> Shows(a, o)) /\ (\A d : Holds(b, NoOp, d) <=> Holds(a, NoOp, d))
  BY <1>6, <1>7 DEF Shows, Holds
<1>9. Sound(b, NoOp)
  <2>1. Sound(a, NoOp)
    BY <1>4 DEF Fair
  <2>2. Work(b, NoOp) /\ Reported(b, NoOp)
    BY <1>6, <1>8, <2>1 DEF Sound, Work, CheckHolds, TransferHolds, Waited, Reported, Coming
  <2>3. Layers(b, NoOp)
    BY <1>6, <1>7, <1>8, <2>1 DEF Sound, Layers, Ordered, Above
  <2>4. Place(b)
    BY <1>2, <1>3, <1>4, <1>6, <1>7, <2>1 DEF Sound, Place, Beside, Idle
  <2> QED BY <1>5, <2>2, <2>3, <2>4 DEF Sound
<1>10. Updatable(b)
  BY <1>5 DEF Updatable
<1>11. Moved(b, c, NoOp)
  BY <1>5, <1>9, <1>10, RecomputeIs
<1> HIDE DEF c
<1>12. /\ c \in Uis /\ Sound(c, NoOp) /\ Fits(c) /\ c.repairing = TRUE /\ c.wine = "idle" /\ ~c.launch
       /\ c.check = "None" /\ ~c.transfer /\ ~Shows(c, "files")
       /\ (Shows(c, "install") => Shows(a, "install") \/ ~c.present)
  BY <1>2, <1>3, <1>4, <1>5, <1>6, <1>7, <1>8, <1>11 DEF Moved, Staged, Beside, Idle, Sound
<1>13. /\ c.prefix = a.prefix /\ c.present = a.present /\ c.pending = a.pending
       /\ FreeIds(c) = FreeIds(u)
  <2>1. c.prefix = a.prefix /\ c.present = a.present /\ c.pending = a.pending
    BY <1>6, <1>11 DEF Moved, Staged
  <2>2. /\ c.op = a.op /\ c.active = a.active /\ c.running = a.running /\ c.dialog = a.dialog
        /\ c.posted = a.posted
    BY <1>6, <1>11 DEF Moved, Staged
  <2>3. FreeIds(c) = FreeIds(a)
    BY <2>2 DEF FreeIds, Known
  <2> QED BY <1>4, <2>1, <2>3
<1>14. /\ e \in Uis /\ e.suspended = TRUE
  BY <1>12 DEF Uis
<1>15. /\ Staged(c, e) /\ e.overlays = c.overlays /\ e.launch = c.launch /\ e.wine = c.wine
       /\ e.view = c.view /\ e.stage = c.stage
  BY <1>12 DEF Uis, Staged
<1> HIDE DEF e
<1>16. (\A o : Shows(e, o) <=> Shows(c, o)) /\ (\A d : Holds(e, NoOp, d) <=> Holds(c, NoOp, d))
  BY <1>15 DEF Shows, Holds, Staged
<1>17. Sound(e, NoOp) /\ Layers(e, NoOp) /\ Work(e, NoOp)
  <2>1. Work(e, NoOp) /\ Reported(e, NoOp)
    BY <1>12, <1>15, StagedWork DEF Sound
  <2>2. Layers(e, NoOp)
    BY <1>12, <1>15, <1>16 DEF Sound, Layers, Ordered, Above, Staged
  <2>3. Place(e)
    BY <1>12, <1>15 DEF Sound, Place, Staged
  <2> QED BY <1>14, <2>1, <2>2, <2>3 DEF Sound
<1>18. Idle(e, NoOp)
  BY <1>12, <1>15 DEF Idle, Staged
<1>19. MayOpen(e, NoOp, "repair")
  BY <1>12, <1>14, <1>16, <1>17, <1>18, IdleIs DEF MayOpen
<1>20. /\ g \in Uis /\ Beside(e, g) /\ Layers(g, NoOp)
       /\ (\A x : Shows(g, x) <=> Shows(e, x) \/ x = "repair")
       /\ Above(g, "repair")
  BY <1>14, <1>17, <1>19, Opening DEF Overlays, Dialogs
<1> HIDE DEF g
<1>21. Sound(g, NoOp)
  BY <1>17, <1>20, BesideSound
<1>22. g.repairing = TRUE /\ g.suspended = TRUE /\ ~g.launch /\ g.wine = "idle" /\ g.stage = c.stage
  BY <1>12, <1>14, <1>15, <1>20 DEF Beside, Staged
<1>23. Fits(g)
  BY <1>12, <1>15, <1>16, <1>20 DEF Fits, Beside, Staged
<1>24. Followed(g) /\ RepairShown(g) /\ Viewed(g)
  BY <1>20, <1>22 DEF Followed, RepairShown, Viewed
<1>25. Installed(g)
  <2>1. Installed(a)
    BY <1>4 DEF Fair
  <2>2. g.present = c.present /\ g.prefix = c.prefix
    BY <1>15, <1>20 DEF Beside, Staged
  <2> QED BY <1>12, <1>13, <1>16, <1>20, <2>1, <2>2 DEF Installed
<1>26. Good(g, NoOp)
  BY <1>21, <1>23, <1>24, <1>25 DEF Good
<1>27. Idle(g, NoOp) /\ FreeIds(g) # {}
  <2>1. Idle(g, NoOp)
    BY <1>18, <1>20 DEF Idle, Beside
  <2>2. FreeIds(g) = FreeIds(e)
    BY <1>20 DEF FreeIds, Known, Beside
  <2>3. FreeIds(e) = FreeIds(c)
    BY <1>15 DEF FreeIds, Known, Staged
  <2> QED BY <1>13, <2>1, <2>2, <2>3
<1>28. Good(v, NoOp) /\ v.wine = g.wine
  BY <1>20, <1>22, <1>26, <1>27, StartDownloadIs DEF Dialogs
<1> QED BY <1>22, <1>28 DEF g, e, c, b, a

(***************************************************************************)
(* The disk is looked at, and commands of a setup are run                  *)
(***************************************************************************)
LEMMA SetupIs ==
  ASSUME NEW u, Good(u, NoOp), u.wine = "idle", ~u.repairing,
         u.stage \notin {"SettingUpPrefix", "Downloading", "Updating", "CheckingUpdate", "Running"},
         Topmost(u, "setup") \/ DOMAIN u.overlays = {}
  PROVE  LET v == Recompute([u EXCEPT !.wine = "setup"])
         IN  Good(v, NoOp) /\ v.wine = "setup"
<1> DEFINE s == [u EXCEPT !.wine = "setup"]
           v == Recompute(s)
<1>1. /\ u \in Uis /\ Work(u, NoOp) /\ Place(u) /\ Layers(u, NoOp) /\ Reported(u, NoOp)
      /\ Followed(u)
  BY DEF Good, Sound
<1>2. Idle(u, NoOp)
  BY BareIsIdle, TopAlone DEF Overlays, Dialogs
<1>3. ~Shows(u, "update") /\ ~Shows(u, "install")
  BY <1>1 DEF Layers, Topmost, Shows
<1>4. s \in Uis /\ s.wine = "setup" /\ Staged(u, s)
  BY <1>1 DEF Uis, Staged
<1>5. /\ s.launch = u.launch /\ s.suspended = u.suspended /\ s.overlays = u.overlays
      /\ s.view = u.view /\ s.stage = u.stage
  BY <1>1 DEF Uis
<1> HIDE DEF s, v
<1>6. (\A o : Shows(s, o) <=> Shows(u, o)) /\ (\A d : Holds(s, NoOp, d) <=> Holds(u, NoOp, d))
  BY <1>4, <1>5 DEF Shows, Holds, Staged
<1>7. Work(s, NoOp) /\ Reported(s, NoOp)
  BY <1>1, <1>4, StagedWork
<1>8. Layers(s, NoOp)
  BY <1>1, <1>3, <1>4, <1>5, <1>6 DEF Layers, Ordered, Above, Staged
<1>9. Place(s)
  BY <1>1, <1>2, <1>4, <1>5 DEF Place, Staged, Idle
<1>10. Followed(s) /\ Installed(s) /\ RepairShown(s) /\ Viewed(s)
  BY <1>4, <1>5, <1>6 DEF Good, Followed, Installed, RepairShown, Viewed, Staged
<1>11. Fair(s, NoOp) /\ Updatable(s)
  BY <1>4, <1>7, <1>8, <1>9, <1>10 DEF Fair, Sound, Updatable
<1>12. Good(v, NoOp) /\ Started(s, v)
  BY <1>11, RecomputeFair DEF v
<1>13. ~(u.launch /\ u.stage # "Ready")
  BY <1>1 DEF Followed
<1> QED BY <1>4, <1>5, <1>12, <1>13 DEF Started, s, v

(***************************************************************************)
(* What the user does in the window and its dialogs                        *)
(***************************************************************************)
LEMMA UpdateIs ==
  ASSUME NEW u, NEW able \in BOOLEAN, Good(u, NoOp), DOMAIN u.overlays = {},
         u.stage = "NeedsUpdate", FreeIds(u) # {}
  PROVE  LET v == StartDownload(Open(u, "update"), "update", able)
         IN  Good(v, NoOp) /\ v.wine = u.wine
<1> DEFINE o == Open(u, "update")
           v == StartDownload(o, "update", able)
<1>1. /\ u \in Uis /\ Work(u, NoOp) /\ Fits(u) /\ Fair(u, NoOp)
  BY DEF Good, Fair, Sound
<1>2. Idle(u, NoOp)
  BY BareIsIdle
<1>3. u.wine = "idle" /\ ~u.failed /\ u.prefix /\ world.prefix
  BY <1>1 DEF Fits, Uis
<1>4. MayOpen(u, NoOp, "update")
  <2>1. \A d \in Dialogs : ~Holds(u, NoOp, d)
    BY <1>1, <1>2, IdleIs
  <2> QED BY <1>3, <2>1 DEF MayOpen, Shows
<1>5. /\ Fair(o, NoOp) /\ Beside(u, o) /\ FreeIds(o) = FreeIds(u) /\ Above(o, "update") /\ Fits(o)
  <2>1. "update" \in Overlays \ {"repair"}
    BY DEF Overlays, Dialogs
  <2> QED BY <1>1, <1>4, <2>1, OpenFair
<1> HIDE DEF o
<1>6. Good(o, NoOp)
  BY <1>5 DEF Good, Fair
<1>7. Idle(o, NoOp) /\ o.wine = "idle" /\ ~o.failed
  BY <1>2, <1>3, <1>5 DEF Idle, Beside
<1>8. "update" \in Dialogs
  BY DEF Dialogs
<1>9. Good(v, NoOp) /\ v.wine = o.wine
  BY <1>5, <1>6, <1>7, <1>8, StartDownloadIs
<1> QED BY <1>3, <1>7, <1>9 DEF o

LEMMA ShowStageIs ==
  ASSUME NEW u, Good(u, NoOp), DOMAIN u.overlays = {}, View(u.stage) \in {"install", "setup"}
  PROVE  Good(Open(u, View(u.stage)), NoOp) /\ Open(u, View(u.stage)).wine = u.wine
<1> DEFINE o == View(u.stage)
           v == Open(u, o)
<1>1. /\ u \in Uis /\ Work(u, NoOp) /\ Fits(u) /\ Fair(u, NoOp) /\ RepairShown(u) /\ Viewed(u)
  BY DEF Good, Fair, Sound
<1>2. Idle(u, NoOp)
  BY BareIsIdle
<1>3. u.view = o
  BY <1>1 DEF RepairShown, Viewed, Shows
<1>4. o = "install" => u.stage = "NeedsDownload"
  BY <1>1, ViewIs DEF Uis, Stages
<1>5. o = "install" => u.wine = "idle" /\ ~u.failed /\ ~u.present
  BY <1>1, <1>4 DEF Fits, Uis
<1> HIDE DEF o, v
<1>6. o \in {"install", "setup"}
  BY DEF o
<1>7. MayOpen(u, NoOp, o)
  <2>1. \A d \in Dialogs : ~Holds(u, NoOp, d)
    BY <1>1, <1>2, IdleIs
  <2> QED BY <1>3, <1>5, <1>6, <2>1 DEF MayOpen, Shows
<1>8. Fair(v, NoOp) /\ Beside(u, v) /\ Fits(v)
  <2>1. o \in Overlays \ {"repair"}
    BY <1>6 DEF Overlays, Dialogs
  <2>2. o \in {"update", "install"} => u.stage \notin {"SettingUpPrefix", "Running", "Failed"}
    BY <1>4, <1>6
  <2> QED BY <1>1, <1>7, <2>1, <2>2, OpenFair DEF v
<1> QED BY <1>8 DEF Good, Fair, Beside, v, o

LEMMA InstallIs ==
  ASSUME NEW u, NEW able \in BOOLEAN, Good(u, NoOp), Topmost(u, "install"), ~u.installing,
         FreeIds(u) # {}
  PROVE  LET v == StartDownload([u EXCEPT !.installing = TRUE], "install", able)
         IN  Good(v, NoOp) /\ v.wine = u.wine
<1> DEFINE i == [u EXCEPT !.installing = TRUE]
           v == StartDownload(i, "install", able)
<1>1. /\ u \in Uis /\ Work(u, NoOp) /\ Reported(u, NoOp) /\ Place(u) /\ Layers(u, NoOp)
      /\ Fits(u) /\ Followed(u) /\ Installed(u) /\ RepairShown(u) /\ Viewed(u)
  BY DEF Good, Sound
<1>2. ~Holds(u, NoOp, "install") /\ u.wine = "idle" /\ ~u.failed
  BY <1>1 DEF Layers, Topmost
<1>3. Idle(u, NoOp)
  BY <1>2, TopAlone DEF Overlays, Dialogs
<1>4. i \in Uis /\ i.installing = TRUE
  BY <1>1 DEF Uis
<1>5. /\ i.config = u.config /\ i.game = u.game /\ i.key = u.key /\ i.checked = u.checked
      /\ i.launch = u.launch /\ i.pending = u.pending /\ i.repairing = u.repairing
      /\ i.suspended = u.suspended /\ i.overlays = u.overlays
      /\ i.view = u.view /\ i.purpose = u.purpose /\ i.prefix = u.prefix /\ i.present = u.present
      /\ i.wine = u.wine
  BY <1>1 DEF Uis
<1>6. /\ i.failed = u.failed /\ i.needed = u.needed /\ i.check = u.check
      /\ i.op = u.op /\ i.transfer = u.transfer /\ i.dialog = u.dialog /\ i.active = u.active
      /\ i.running = u.running /\ i.posted = u.posted /\ i.stage = u.stage
  BY <1>1 DEF Uis
<1> HIDE DEF i, v
<1>7. (\A o : Shows(i, o) <=> Shows(u, o)) /\ (\A d : Holds(i, NoOp, d) <=> Holds(u, NoOp, d))
  BY <1>5, <1>6 DEF Shows, Holds
<1>8. Work(i, NoOp) /\ Reported(i, NoOp)
  BY <1>1, <1>5, <1>6, <1>7 DEF Work, CheckHolds, TransferHolds, Waited, Reported, Coming
<1>9. Layers(i, NoOp)
  BY <1>1, <1>4, <1>5, <1>6, <1>7 DEF Layers, Ordered, Above
<1>10. Place(i)
  BY <1>1, <1>5, <1>6 DEF Place
<1>11. Fits(i)
  BY <1>1, <1>5, <1>6, <1>7 DEF Fits
<1>12. Followed(i) /\ Installed(i) /\ RepairShown(i) /\ Viewed(i)
  BY <1>1, <1>5, <1>6, <1>7 DEF Followed, Installed, RepairShown, Viewed
<1>13. Good(i, NoOp)
  BY <1>4, <1>8, <1>9, <1>10, <1>11, <1>12 DEF Good, Sound
<1>14. Above(i, "install") /\ Idle(i, NoOp) /\ FreeIds(i) # {}
  <2>1. Above(i, "install")
    BY <1>5, <1>7 DEF Topmost, Above
  <2>2. Idle(i, NoOp)
    BY <1>3, <1>6 DEF Idle
  <2>3. FreeIds(i) = FreeIds(u)
    BY <1>5, <1>6 DEF FreeIds, Known
  <2> QED BY <2>1, <2>2, <2>3
<1>15. "install" \in Dialogs
  BY DEF Dialogs
<1>16. Good(v, NoOp) /\ v.wine = i.wine
  BY <1>2, <1>4, <1>5, <1>6, <1>13, <1>14, <1>15, StartDownloadIs DEF v
<1> QED BY <1>5, <1>16 DEF v, i

LEMMA RetryIs ==
  ASSUME NEW u, NEW d \in Dialogs, NEW able \in BOOLEAN, Good(u, NoOp), Topmost(u, d),
         d = "install" => u.installing, FreeIds(u) # {}
  PROVE  Good(StartDownload(u, d, able), NoOp) /\ StartDownload(u, d, able).wine = u.wine
<1>1. CASE u.dialog[d].op # NoOp
  BY <1>1 DEF StartDownload
<1>2. CASE u.dialog[d].op = NoOp
  <2>1. Idle(u, NoOp)
    BY <1>2, TopAlone DEF Overlays, Dialogs, Holds
  <2>2. u.wine = "idle" /\ (u.failed => u.repairing)
    <3>1. Layers(u, NoOp) /\ Place(u)
      BY DEF Good, Sound
    <3>2. CASE d = "repair"
      BY <3>1, <3>2, TopRepair DEF Place
    <3>3. CASE d \in {"update", "install"}
      BY <3>1, <3>3 DEF Layers, Topmost
    <3> QED BY <3>2, <3>3 DEF Dialogs
  <2>3. Above(u, d)
    BY DEF Topmost, Above
  <2> QED BY <2>1, <2>2, <2>3, StartDownloadIs
<1> QED BY <1>1, <1>2

LEMMA CloseTopIs ==
  ASSUME NEW u, NEW o \in {"files", "setup", "install"}, Good(u, NoOp),
         o = "install" => ~u.installing
  PROVE  Good(Close(u, o), NoOp) /\ Close(u, o).wine = u.wine
<1>1. u \in Uis /\ Layers(u, NoOp) /\ Fits(u) /\ Fair(u, NoOp)
  BY DEF Good, Fair, Sound
<1>2. o \in Overlays \ {"repair"}
  BY DEF Overlays, Dialogs
<1>3. o \in Dialogs => ~Holds(u, NoOp, o)
  BY <1>1 DEF Layers, Dialogs
<1>4. Fair(Close(u, o), NoOp) /\ Beside(u, Close(u, o)) /\ Fits(Close(u, o))
  BY <1>1, <1>2, <1>3, CloseFair
<1> QED BY <1>4 DEF Good, Fair, Beside

\* The update of the launcher lies over whatever there is.
LEMMA OfferIs ==
  ASSUME NEW u, Good(u, NoOp)
  PROVE  Good(Open(u, "offer"), NoOp) /\ Open(u, "offer").wine = u.wine
<1>1. u \in Uis /\ Fits(u) /\ Fair(u, NoOp)
  BY DEF Good, Fair, Sound
<1>2. MayOpen(u, NoOp, "offer")
  BY DEF MayOpen
<1>3. "offer" \in Overlays \ {"repair"}
  BY DEF Overlays, Dialogs
<1>4. Fair(Open(u, "offer"), NoOp) /\ Beside(u, Open(u, "offer")) /\ Fits(Open(u, "offer"))
  BY <1>1, <1>2, <1>3, OpenFair
<1> QED BY <1>4 DEF Good, Fair, Beside

LEMMA LaunchIs ==
  ASSUME NEW u, NEW able \in BOOLEAN, NEW service \in BOOLEAN, Good(u, NoOp),
         u.stage = "Ready", world.prefix, FreeIds(u) # {}
  PROVE  LET asked == [u EXCEPT !.launch = TRUE]
             v == IF u.game \in u.pending THEN Open(u, "files")
                  ELSE IF u.checked         THEN RecheckBeforeLaunch(asked, able)
                  ELSE IF u.purpose # "None" THEN asked
                  ELSE IF service            THEN [asked EXCEPT !.purpose = "Startup"]
                  ELSE ContinueAfterLauncherCheck(asked, able)
         IN  Good(v, NoOp) /\ v.wine = u.wine
<1> DEFINE asked == [u EXCEPT !.launch = TRUE]
           begun == [asked EXCEPT !.purpose = "Startup"]
           v == IF u.game \in u.pending THEN Open(u, "files")
                ELSE IF u.checked         THEN RecheckBeforeLaunch(asked, able)
                ELSE IF u.purpose # "None" THEN asked
                ELSE IF service            THEN begun
                ELSE ContinueAfterLauncherCheck(asked, able)
<1>1. /\ u \in Uis /\ Work(u, NoOp) /\ Fits(u) /\ Fair(u, NoOp) /\ Place(u)
  BY DEF Good, Fair, Sound
<1>2. Idle(u, NoOp) /\ u.op = NoOp
  <2>1. u.check = "None" /\ ~u.failed
    BY <1>1 DEF Fits
  <2>2. ~u.transfer
    BY <1>1, <2>1 DEF Fits
  <2> QED BY <1>1, <2>1, <2>2 DEF Idle, Work, CheckHolds
<1>3. asked \in Uis /\ Asked(u, asked) /\ asked.checked = u.checked /\ asked.launch = TRUE
  BY <1>1 DEF Uis, Asked
<1>4. v \in {Open(u, "files"), RecheckBeforeLaunch(asked, able), asked, begun,
             ContinueAfterLauncherCheck(asked, able)}
  OBVIOUS
<1> HIDE DEF asked
<1>5. begun \in Uis /\ Asked(asked, begun) /\ begun.checked = asked.checked
      /\ begun.launch = asked.launch
  BY <1>3 DEF Uis, Asked
<1>6. CASE u.game \in u.pending
  <2>1. MayOpen(u, NoOp, "files")
    <3>1. \A d \in Dialogs : ~Holds(u, NoOp, d)
      BY <1>1, <1>2, IdleIs
    <3> QED BY <1>6, <3>1 DEF MayOpen
  <2>2. "files" \in Overlays \ {"repair"}
    BY DEF Overlays, Dialogs
  <2>3. Fair(Open(u, "files"), NoOp) /\ Beside(u, Open(u, "files")) /\ Fits(Open(u, "files"))
    BY <1>1, <2>1, <2>2, OpenFair
  <2>4. Good(Open(u, "files"), NoOp) /\ Open(u, "files").wine = u.wine
    BY <2>3 DEF Good, Fair, Beside
  <2>5. v = Open(u, "files")
    BY <1>6
  <2> HIDE DEF v, begun
  <2> QED BY <2>4, <2>5 DEF v, asked, begun
<1>7. CASE u.game \notin u.pending
  <2>1. u.game \notin u.pending
    BY <1>1, <1>7
  <2>2. ~u.repairing
    BY <1>1, <2>1 DEF Place
  <2>3. Good(asked, NoOp) /\ FreeIds(asked) = FreeIds(u) /\ asked.wine = u.wine
    BY <1>3, <2>1, <2>2, AskedGood DEF Asked
  <2>4. Good(begun, NoOp) /\ begun.wine = u.wine
    BY <1>5, <2>3, AskedGood DEF Asked
  <2> HIDE DEF begun
  <2>5. CASE u.checked
    <3>1. asked.op = NoOp
      BY <1>2, <1>3 DEF Asked
    <3>2. /\ Good(RecheckBeforeLaunch(asked, able), NoOp)
          /\ RecheckBeforeLaunch(asked, able).wine = asked.wine
      BY <1>3, <2>3, <2>5, <3>1, RecheckIs
    <3>3. v = RecheckBeforeLaunch(asked, able)
      BY <1>7, <2>5
    <3> HIDE DEF v
    <3> QED BY <2>3, <3>2, <3>3 DEF v, asked, begun
  <2>6. CASE ~u.checked
    <3>1. /\ Good(ContinueAfterLauncherCheck(asked, able), NoOp)
          /\ ContinueAfterLauncherCheck(asked, able).wine = asked.wine
      BY <2>3, ContinueIs
    <3>2. v \in {asked, begun, ContinueAfterLauncherCheck(asked, able)}
      BY <1>7, <2>6
    <3> HIDE DEF v
    <3> QED BY <2>3, <2>4, <3>1, <3>2 DEF v, asked, begun
  <2> QED BY <2>5, <2>6
<1> QED BY <1>6, <1>7

LEMMA PurposeIs ==
  ASSUME NEW u, NEW purpose \in {"None", "Startup", "Manual"}, Good(u, NoOp)
  PROVE  LET v == [u EXCEPT !.purpose = purpose]
         IN  Good(v, NoOp) /\ FreeIds(v) = FreeIds(u) /\ v.wine = u.wine
<1> DEFINE v == [u EXCEPT !.purpose = purpose]
<1>1. u \in Uis
  BY DEF Good, Sound
<1>2. v \in Uis /\ Asked(u, v) /\ v.checked = u.checked /\ v.launch = u.launch
  BY <1>1 DEF Uis, Asked
<1> HIDE DEF v
<1>3. Good(v, NoOp) /\ FreeIds(v) = FreeIds(u) /\ v.wine = u.wine
  BY <1>2, AskedGood DEF Asked
<1> QED BY <1>3 DEF v

LEMMA LauncherCheckedIs ==
  ASSUME NEW u, NEW offer \in BOOLEAN, NEW able \in BOOLEAN, Good(u, NoOp), FreeIds(u) # {}
  PROVE  LET idle == [u EXCEPT !.purpose = "None"]
             v == IF offer THEN Open(idle, "offer")
                  ELSE IF u.purpose = "Startup" THEN ContinueAfterLauncherCheck(idle, able)
                  ELSE idle
         IN  Good(v, NoOp) /\ v.wine = u.wine
<1> DEFINE idle == [u EXCEPT !.purpose = "None"]
           v == IF offer THEN Open(idle, "offer")
                ELSE IF u.purpose = "Startup" THEN ContinueAfterLauncherCheck(idle, able)
                ELSE idle
<1>1. Good(idle, NoOp) /\ FreeIds(idle) = FreeIds(u) /\ idle.wine = u.wine
  BY PurposeIs
<1>2. v \in {Open(idle, "offer"), ContinueAfterLauncherCheck(idle, able), idle}
  OBVIOUS
<1> HIDE DEF idle, v
<1>3. Good(Open(idle, "offer"), NoOp) /\ Open(idle, "offer").wine = idle.wine
  BY <1>1, OfferIs
<1>4. /\ Good(ContinueAfterLauncherCheck(idle, able), NoOp)
      /\ ContinueAfterLauncherCheck(idle, able).wine = idle.wine
  BY <1>1, ContinueIs
<1>5. Good(v, NoOp) /\ v.wine = u.wine
  BY <1>1, <1>2, <1>3, <1>4
<1> QED BY <1>5 DEF v, idle

LEMMA PostponeIs ==
  ASSUME NEW u, NEW able \in BOOLEAN, Good(u, NoOp), FreeIds(u) # {}
  PROVE  LET v == ContinueAfterLauncherCheck(Close(u, "offer"), able)
         IN  Good(v, NoOp) /\ v.wine = u.wine
<1> DEFINE c == Close(u, "offer")
<1>1. u \in Uis /\ Fits(u) /\ Fair(u, NoOp)
  BY DEF Good, Fair, Sound
<1>2. "offer" \in Overlays \ {"repair"} /\ "offer" \notin Dialogs
  BY DEF Overlays, Dialogs
<1>3. Fair(c, NoOp) /\ Beside(u, c) /\ Fits(c) /\ FreeIds(c) = FreeIds(u)
  BY <1>1, <1>2, CloseFair
<1> HIDE DEF c
<1>4. Good(c, NoOp) /\ c.wine = u.wine
  BY <1>3 DEF Good, Fair, Beside
<1>5. /\ Good(ContinueAfterLauncherCheck(c, able), NoOp)
      /\ ContinueAfterLauncherCheck(c, able).wine = c.wine
  BY <1>3, <1>4, ContinueIs
<1> QED BY <1>4, <1>5 DEF c

LEMMA DismissIs ==
  ASSUME NEW u, Good(u, NoOp), u.failed, Loyal(u), world.prefix \in BOOLEAN
  PROVE  LET v == Probe([u EXCEPT !.failed = FALSE])
         IN  Good(v, NoOp) /\ v.wine = u.wine
<1> DEFINE v == [u EXCEPT !.failed = FALSE]
<1>1. /\ u \in Uis /\ Work(u, NoOp) /\ Reported(u, NoOp) /\ Place(u) /\ Layers(u, NoOp)
      /\ Fits(u) /\ Followed(u) /\ Installed(u) /\ RepairShown(u) /\ Viewed(u)
  BY DEF Good, Sound
<1>2. v \in Uis /\ v.failed = FALSE
  BY <1>1 DEF Uis
<1>3. /\ v.config = u.config /\ v.game = u.game /\ v.key = u.key /\ v.checked = u.checked
      /\ v.launch = u.launch /\ v.pending = u.pending /\ v.repairing = u.repairing
      /\ v.suspended = u.suspended /\ v.overlays = u.overlays /\ v.installing = u.installing
      /\ v.view = u.view /\ v.purpose = u.purpose /\ v.prefix = u.prefix /\ v.present = u.present
      /\ v.wine = u.wine
  BY <1>1 DEF Uis
<1>4. /\ v.needed = u.needed /\ v.check = u.check
      /\ v.op = u.op /\ v.transfer = u.transfer /\ v.dialog = u.dialog /\ v.active = u.active
      /\ v.running = u.running /\ v.posted = u.posted /\ v.stage = u.stage
  BY <1>1 DEF Uis
<1> HIDE DEF v
<1>5. (\A o : Shows(v, o) <=> Shows(u, o)) /\ (\A d : Holds(v, NoOp, d) <=> Holds(u, NoOp, d))
  BY <1>3, <1>4 DEF Shows, Holds
<1>6. Work(v, NoOp) /\ Reported(v, NoOp)
  BY <1>1, <1>3, <1>4, <1>5 DEF Work, CheckHolds, TransferHolds, Waited, Reported, Coming
<1>7. Layers(v, NoOp)
  BY <1>1, <1>2, <1>3, <1>4, <1>5 DEF Layers, Ordered, Above
<1>8. Place(v)
  BY <1>1, <1>2, <1>3, <1>4 DEF Place
<1>9. Followed(v) /\ Installed(v) /\ RepairShown(v) /\ Viewed(v)
  BY <1>1, <1>3, <1>4, <1>5 DEF Followed, Installed, RepairShown, Viewed
<1>10. Fair(v, NoOp)
  BY <1>2, <1>6, <1>7, <1>8, <1>9 DEF Fair, Sound
<1>11. ~v.launch
  BY <1>1, <1>3 DEF Fits, Followed
<1>12. Good(Probe(v), NoOp) /\ Probe(v).wine = v.wine
  BY <1>3, <1>4, <1>10, <1>11, ProbeIs DEF Loyal, Going, Agrees
<1> QED BY <1>3, <1>12 DEF v

(***************************************************************************)
(* The event queue, and the end of a command                               *)
(***************************************************************************)
LEMMA TailIs ==
  ASSUME NEW q \in Seq(Events), q # <<>>
  PROVE  /\ Head(q) \in Events /\ Tail(q) \in Seq(Events)
         /\ \A i \in DOMAIN q : \/ q[i] = Head(q)
                                \/ i - 1 \in DOMAIN Tail(q) /\ Tail(q)[i - 1] = q[i]
         /\ \A i \in DOMAIN Tail(q) : i + 1 \in DOMAIN q /\ q[i + 1] = Tail(q)[i]
<1>1. Len(q) \in Nat \ {0} /\ DOMAIN q = 1 .. Len(q) /\ q[1] \in Events
  OBVIOUS
<1>2. /\ Head(q) = q[1] /\ Tail(q) \in Seq(Events) /\ Len(Tail(q)) = Len(q) - 1
      /\ \A i \in 1 .. Len(Tail(q)) : Tail(q)[i] = q[i + 1]
  BY HeadTailProperties
<1>3. DOMAIN Tail(q) = 1 .. Len(q) - 1
  BY <1>2
<1>4. ASSUME NEW i \in DOMAIN q, i # 1
      PROVE  i - 1 \in DOMAIN Tail(q) /\ Tail(q)[i - 1] = q[i]
  <2>1. i - 1 \in 1 .. Len(q) - 1 /\ (i - 1) + 1 = i
    BY <1>1, <1>4
  <2> QED BY <1>2, <1>3, <2>1
<1>5. ASSUME NEW i \in DOMAIN Tail(q)
      PROVE  i + 1 \in DOMAIN q /\ q[i + 1] = Tail(q)[i]
  BY <1>1, <1>2, <1>3, <1>5
<1> QED BY <1>1, <1>2, <1>4, <1>5

LEMMA PoppedIs ==
  ASSUME NEW u, Good(u, NoOp), u.posted # <<>>
  PROVE  LET v == [u EXCEPT !.posted = Tail(@)]
             e == Head(u.posted)
         IN  /\ e \in Events /\ Queued(u, v)
             /\ e.event = "status" /\ e.what # "working" => Receiving(v, e.op)
             /\ e.event = "status" /\ e.what = "working" => Good(v, NoOp) /\ Receiving(v, e.op)
             /\ e.event # "status" => Good(v, NoOp)
             /\ FreeIds(u) \subseteq FreeIds(v)
<1> DEFINE v == [u EXCEPT !.posted = Tail(@)]
           e == Head(u.posted)
<1>1. /\ u \in Uis /\ Work(u, NoOp) /\ Reported(u, NoOp) /\ Place(u) /\ Layers(u, NoOp)
      /\ Fits(u) /\ Followed(u) /\ Installed(u) /\ RepairShown(u) /\ Viewed(u)
  BY DEF Good, Sound
<1>2. u.posted \in Seq(Events)
  BY <1>1 DEF Uis
<1>3. /\ e \in Events /\ Tail(u.posted) \in Seq(Events)
      /\ \A i \in DOMAIN u.posted : \/ u.posted[i] = e
                                    \/ i - 1 \in DOMAIN Tail(u.posted)
                                         /\ Tail(u.posted)[i - 1] = u.posted[i]
      /\ \A i \in DOMAIN Tail(u.posted) :
           i + 1 \in DOMAIN u.posted /\ u.posted[i + 1] = Tail(u.posted)[i]
  BY <1>2, TailIs
<1>4. v \in Uis /\ v.posted = Tail(u.posted) /\ v.running = u.running
  BY <1>1, <1>3 DEF Uis
<1>5. Queued(u, v)
  BY <1>1 DEF Uis, Queued
<1> HIDE DEF v, e
<1>6. /\ Work(v, NoOp) /\ Place(v) /\ Layers(v, NoOp)
      /\ Fits(v) /\ Followed(v) /\ Installed(v) /\ RepairShown(v) /\ Viewed(v)
  BY <1>1, <1>4, <1>5, QueuedSound
<1>7. ASSUME NEW c, NEW op, Coming(u, c, op),
             ~(e.event = "status" /\ e.op = op /\ e.what # "working")
      PROVE  Coming(v, c, op)
  <2>1. CASE \/ u.running[c] = op
             \/ \E r \in reports : r.op = op /\ r.what # "working"
    BY <1>4, <2>1 DEF Coming
  <2>2. ASSUME NEW i \in DOMAIN u.posted, u.posted[i].event = "status", u.posted[i].op = op,
               u.posted[i].what # "working"
        PROVE  Coming(v, c, op)
    <3>1. u.posted[i] # e
      BY <1>7, <2>2
    <3>2. i - 1 \in DOMAIN Tail(u.posted) /\ Tail(u.posted)[i - 1] = u.posted[i]
      BY <1>3, <3>1
    <3> QED BY <1>4, <2>2, <3>2 DEF Coming
  <2> QED BY <1>7, <2>1, <2>2 DEF Coming
<1>8. ASSUME e.event = "status" PROVE Reported(v, e.op)
  <2>1. \A d : Holds(v, e.op, d) => Holds(u, NoOp, d) /\ u.dialog[d].op # e.op
    BY <1>5 DEF Holds, Queued
  <2> QED BY <1>1, <1>5, <1>7, <2>1 DEF Reported, Queued
<1>9. ASSUME e.event = "status" => e.what = "working" PROVE Reported(v, NoOp)
  <2>1. \A d : Holds(v, NoOp, d) <=> Holds(u, NoOp, d)
    BY <1>5 DEF Holds, Queued
  <2> QED BY <1>1, <1>5, <1>7, <1>9, <2>1 DEF Reported, Queued
<1>10. e.event = "status" => Receiving(v, e.op)
  BY <1>4, <1>6, <1>8 DEF Receiving
<1>11. (e.event = "status" => e.what = "working") => Good(v, NoOp)
  BY <1>4, <1>6, <1>9 DEF Good, Sound
<1>12. FreeIds(u) \subseteq FreeIds(v)
  <2>1. {v.posted[i].op : i \in {j \in DOMAIN v.posted : v.posted[j].event = "status"}}
          \subseteq {u.posted[i].op : i \in {j \in DOMAIN u.posted : u.posted[j].event = "status"}}
    BY <1>3, <1>4
  <2>2. v.running = u.running /\ v.active = u.active /\ v.op = u.op /\ v.dialog = u.dialog
    BY <1>4, <1>5 DEF Queued
  <2>3. Known(v) \subseteq Known(u)
    BY <2>1, <2>2 DEF Known
  <2> QED BY <2>3, FreeIdsKept
<1> QED BY <1>3, <1>5, <1>10, <1>11, <1>12 DEF v, e

\* One event: what starts the game, or nothing does.
LEMMA EventIs ==
  ASSUME NEW u, NEW able \in BOOLEAN, Good(u, NoOp), u.posted # <<>>, FreeIds(u) # {},
         Loyal(u), world.prefix \in BOOLEAN
  PROVE  LET e == Head(u.posted)
             v == [u EXCEPT !.posted = Tail(@)]
             r == CASE e.event = "status"  -> Report(v, e, able)
                    [] e.event = "context" -> OnContext(v, e.dialog)
                    [] e.event = "probe"   -> Probe(v)
         IN  /\ Good(r, NoOp)
             /\ r.wine # u.wine => /\ \E op \in u.active : e = Status(op, "ok") /\ op.kind # "version"
                                   /\ u.launch /\ u.game \notin u.pending
<1> DEFINE e == Head(u.posted)
           v == [u EXCEPT !.posted = Tail(@)]
           r == CASE e.event = "status"  -> Report(v, e, able)
                  [] e.event = "context" -> OnContext(v, e.dialog)
                  [] e.event = "probe"   -> Probe(v)
<1>1. /\ e \in Events /\ Queued(u, v)
      /\ e.event = "status" /\ e.what # "working" => Receiving(v, e.op)
      /\ e.event = "status" /\ e.what = "working" => Good(v, NoOp) /\ Receiving(v, e.op)
      /\ e.event # "status" => Good(v, NoOp)
      /\ FreeIds(u) \subseteq FreeIds(v)
  BY PoppedIs
<1>2. /\ v.wine = u.wine /\ v.active = u.active /\ v.pending = u.pending /\ v.game = u.game
      /\ v.launch = u.launch /\ Loyal(v)
  BY <1>1 DEF Queued, Loyal, Going, Agrees, Waited
<1> HIDE DEF e, v
<1>3. CASE e \in Statuses
  <2>1. /\ e.event = "status" /\ e.op \in Operation /\ Saying(e.op, e.what)
        /\ e = Status(e.op, e.what)
    BY <1>3 DEF Statuses, Status
  <2>2. LET x == Report(v, Status(e.op, e.what), able)
        IN  /\ Good(x, NoOp)
            /\ x.wine # v.wine => /\ e.what = "ok" /\ e.op \in v.active /\ e.op.kind # "version"
                                  /\ v.launch /\ v.game \notin v.pending /\ x.wine = "game"
    <3>1. Receiving(v, e.op) /\ FreeIds(v) # {} /\ (e.what = "working" => Good(v, NoOp))
      BY <1>1, <2>1
    <3> QED BY <2>1, <3>1, ReportIs
  <2>3. r = Report(v, Status(e.op, e.what), able)
    BY <2>1
  <2> HIDE DEF r
  <2>4. Good(r, NoOp)
    BY <2>2, <2>3
  <2>5. ASSUME r.wine # u.wine
        PROVE  /\ e.what = "ok" /\ e.op \in u.active /\ e.op.kind # "version"
               /\ u.launch /\ u.game \notin u.pending
    BY <1>2, <2>2, <2>3, <2>5
  <2> QED BY <2>1, <2>4, <2>5 DEF r, e, v
<1>4. CASE e = ProbeEvent
  <2>1. e.event = "probe"
    BY <1>4 DEF ProbeEvent
  <2>2. Good(v, NoOp) /\ Fair(v, NoOp) /\ Fits(v) /\ Followed(v)
    BY <1>1, <2>1 DEF Good, Fair
  <2>3. v.launch /\ v.check = "None" /\ ~v.transfer => v.stage = "Ready"
    BY <2>2, LaunchWaits
  <2>4. Good(Probe(v), NoOp) /\ Probe(v).wine = v.wine
    BY <1>2, <2>2, <2>3, ProbeIs DEF Loyal, Going, Agrees
  <2>5. r = Probe(v)
    BY <2>1
  <2> HIDE DEF r
  <2> QED BY <1>2, <2>4, <2>5 DEF r, e, v
<1>5. ASSUME NEW d \in Dialogs, e = Context(d)
      PROVE  Good(r, NoOp) /\ r.wine = u.wine
  <2>1. e.event = "context" /\ e.dialog = d
    BY <1>5 DEF Context
  <2>2. Good(v, NoOp)
    BY <1>1, <2>1
  <2>3. Good(OnContext(v, d), NoOp) /\ OnContext(v, d).wine = v.wine
    BY <1>2, <2>2, OnContextIs
  <2>4. r = OnContext(v, d)
    BY <2>1
  <2> HIDE DEF r
  <2> QED BY <1>2, <2>3, <2>4
<1> QED BY <1>1, <1>3, <1>4, <1>5 DEF Events, Contexts, r, e, v

\* Beside a command nothing goes on, and no launch waits.
LEMMA CommandAlone ==
  ASSUME NEW u, Good(u, NoOp), u.wine # "idle"
  PROVE  /\ u.check = "None" /\ ~u.transfer /\ ~u.repairing /\ ~u.launch
         /\ ~Shows(u, "update") /\ ~Shows(u, "install")
         /\ u.stage \in {"SettingUpPrefix", "Running", "Failed"}
         /\ u.wine = "setup" => u.stage \in {"SettingUpPrefix", "Failed"}
<1>1. u \in Uis /\ Place(u) /\ Layers(u, NoOp) /\ Fits(u) /\ Followed(u)
  BY DEF Good, Sound
<1>2. u.stage \in {"SettingUpPrefix", "Running", "Failed"}
      /\ (u.wine = "setup" => u.stage \in {"SettingUpPrefix", "Failed"})
  BY <1>1 DEF Fits, Uis
<1> QED BY <1>1, <1>2 DEF Place, Layers, Followed

LEMMA EndedIs ==
  ASSUME NEW u, NEW failed \in BOOLEAN, Good(u, NoOp), u.wine # "idle"
  PROVE  LET v == [u EXCEPT !.wine = "idle", !.failed = failed]
         IN  /\ Fair(v, NoOp) /\ (failed => Updatable(v)) /\ (~failed => Fits(v))
             /\ v.wine = "idle" /\ v.failed = failed /\ v.stage = u.stage
             /\ v.check = "None" /\ ~v.launch /\ ~Shows(v, "update") /\ ~Shows(v, "install")
<1> DEFINE v == [u EXCEPT !.wine = "idle", !.failed = failed]
<1>1. /\ u \in Uis /\ Work(u, NoOp) /\ Reported(u, NoOp) /\ Place(u) /\ Layers(u, NoOp)
      /\ Fits(u) /\ Followed(u) /\ Installed(u) /\ RepairShown(u) /\ Viewed(u)
  BY DEF Good, Sound
<1>2. /\ u.check = "None" /\ ~u.transfer /\ ~u.repairing /\ ~u.launch
      /\ ~Shows(u, "update") /\ ~Shows(u, "install")
      /\ u.stage \in {"SettingUpPrefix", "Running", "Failed"}
  BY CommandAlone
<1>3. v \in Uis /\ v.wine = "idle" /\ v.failed = failed
  BY <1>1 DEF Uis
<1>4. /\ v.config = u.config /\ v.game = u.game /\ v.key = u.key /\ v.checked = u.checked
      /\ v.launch = u.launch /\ v.pending = u.pending /\ v.repairing = u.repairing
      /\ v.suspended = u.suspended /\ v.overlays = u.overlays /\ v.installing = u.installing
      /\ v.view = u.view /\ v.purpose = u.purpose /\ v.prefix = u.prefix /\ v.present = u.present
  BY <1>1 DEF Uis
<1>5. /\ v.needed = u.needed /\ v.check = u.check
      /\ v.op = u.op /\ v.transfer = u.transfer /\ v.dialog = u.dialog /\ v.active = u.active
      /\ v.running = u.running /\ v.posted = u.posted /\ v.stage = u.stage
  BY <1>1 DEF Uis
<1> HIDE DEF v
<1>6. (\A o : Shows(v, o) <=> Shows(u, o)) /\ (\A d : Holds(v, NoOp, d) <=> Holds(u, NoOp, d))
  BY <1>4, <1>5 DEF Shows, Holds
<1>7. Work(v, NoOp) /\ Reported(v, NoOp)
  BY <1>1, <1>4, <1>5, <1>6 DEF Work, CheckHolds, TransferHolds, Waited, Reported, Coming
<1>8. Layers(v, NoOp)
  BY <1>1, <1>2, <1>3, <1>4, <1>5, <1>6 DEF Layers, Ordered, Above
<1>9. Place(v)
  BY <1>1, <1>2, <1>3, <1>4, <1>5 DEF Place
<1>10. Followed(v) /\ Installed(v) /\ RepairShown(v) /\ Viewed(v)
  BY <1>1, <1>4, <1>5, <1>6 DEF Followed, Installed, RepairShown, Viewed
<1>11. ~failed => Fits(v)
  BY <1>1, <1>2, <1>3, <1>4, <1>5, <1>6 DEF Fits
<1>12. Fair(v, NoOp) /\ (failed => Updatable(v))
  BY <1>3, <1>7, <1>8, <1>9, <1>10 DEF Fair, Sound, Updatable
<1>13. /\ v.check = "None" /\ ~v.launch /\ ~Shows(v, "update") /\ ~Shows(v, "install")
  BY <1>2, <1>4, <1>5, <1>6
<1> QED BY <1>3, <1>5, <1>11, <1>12, <1>13 DEF v

\* Whichever way a command ends, what its prefix is like then disturbs nothing.
LEMMA CommandEndsIs ==
  ASSUME NEW u, Good(u, NoOp), u.wine # "idle",
         NEW v \in {Recompute([u EXCEPT !.wine = "idle", !.failed = TRUE]),
                    ScheduleProbe([u EXCEPT !.wine = "idle", !.failed = FALSE])}
  PROVE  /\ Good(v, NoOp) /\ v.wine = "idle" /\ v.check = "None" /\ ~v.launch
         /\ ~Shows(v, "update") /\ ~Shows(v, "install")
         /\ u.wine = "setup" => v.stage \in {"SettingUpPrefix", "Failed"}
<1>1. CASE v = Recompute([u EXCEPT !.wine = "idle", !.failed = TRUE])
  <2> DEFINE f == [u EXCEPT !.wine = "idle", !.failed = TRUE]
  <2>1. /\ Fair(f, NoOp) /\ Updatable(f) /\ f.wine = "idle" /\ f.failed
        /\ f.check = "None" /\ ~f.launch
    BY EndedIs
  <2>2. v = Recompute(f)
    BY <1>1
  <2> HIDE DEF f
  <2>3. Good(v, NoOp) /\ Started(f, v) /\ Changed(f, v, NoOp)
    BY <2>1, <2>2, RecomputeFair
  <2>4. v.wine = "idle" /\ v.failed /\ v.check = "None" /\ ~v.launch
    BY <2>1, <2>3 DEF Started, Changed, Moved, Staged
  <2>5. v.stage = "Failed" /\ ~Shows(v, "update") /\ ~Shows(v, "install")
    BY <2>3, <2>4 DEF Good, Fits
  <2> QED BY <2>3, <2>4, <2>5
<1>2. CASE v = ScheduleProbe([u EXCEPT !.wine = "idle", !.failed = FALSE])
  <2> DEFINE s == [u EXCEPT !.wine = "idle", !.failed = FALSE]
  <2>1. /\ Fair(s, NoOp) /\ Fits(s) /\ s.wine = "idle" /\ s.stage = u.stage
        /\ s.check = "None" /\ ~s.launch /\ ~Shows(s, "update") /\ ~Shows(s, "install")
    BY EndedIs
  <2>2. v = ScheduleProbe(s)
    BY <1>2
  <2> HIDE DEF s
  <2>3. s \in Uis /\ Sound(s, NoOp)
    BY <2>1 DEF Fair, Sound
  <2>4. Sound(v, NoOp) /\ Queued(s, v) /\ v \in Uis
    BY <2>2, <2>3, ScheduleProbeIs DEF Sound
  <2>5. Good(v, NoOp)
    BY <2>1, <2>4, QueuedSound DEF Fair, Good
  <2>6. u.wine = "setup" => u.stage \in {"SettingUpPrefix", "Failed"}
    BY CommandAlone
  <2> QED BY <2>1, <2>4, <2>5, <2>6 DEF Queued, Shows
<1> QED BY <1>1, <1>2

(***************************************************************************)
(* From the value of ui to the state                                       *)
(***************************************************************************)
\* All of Good but what Courier still has to say.
Standing(u) ==
  /\ u \in Uis /\ Work(u, NoOp) /\ Place(u) /\ Layers(u, NoOp) /\ Fits(u) /\ Followed(u)
  /\ Installed(u) /\ RepairShown(u) /\ Viewed(u)

\* A look at the new value in the old world is one in the new, where nothing in it depends
\* on a prefix that has changed.
LEMMA Carried ==
  ASSUME Standing(ui'), Reported(ui, NoOp)', world.installed \subseteq world'.installed,
         \/ world'.prefix = world.prefix
         \/ /\ ui'.check = "None" /\ ~ui'.launch /\ ui'.stage \in {"SettingUpPrefix", "Failed"}
            /\ ~Shows(ui', "update") /\ ~Shows(ui', "install")
  PROVE  Good(ui, NoOp)'
<1>1. /\ ui' \in Uis /\ Work(ui', NoOp) /\ Place(ui') /\ Layers(ui', NoOp) /\ Fits(ui')
      /\ Followed(ui') /\ Installed(ui') /\ RepairShown(ui') /\ Viewed(ui')
  BY DEF Standing
<1>2. (ui \in Uis)'
  BY <1>1 DEF Uis, OpsOrNone, Stacks, Events, Statuses, Saying, DialogStates
<1>3. Work(ui, NoOp)'
  BY <1>1 DEF Work, CheckHolds, TransferHolds, Holds, Waited
<1>4. Place(ui)'
  BY <1>1 DEF Place
<1>5. Layers(ui, NoOp)'
  BY <1>1 DEF Layers, Ordered, Above, Holds, Shows
<1>6. Fits(ui)'
  BY <1>1 DEF Fits, Shows
<1>7. Followed(ui)' /\ Installed(ui)' /\ RepairShown(ui)'
  BY <1>1 DEF Followed, Installed, RepairShown, Shows
<1>8. Viewed(ui)'
  BY <1>1 DEF Viewed, View
<1> QED BY <1>2, <1>3, <1>4, <1>5, <1>6, <1>7, <1>8 DEF Good, Sound

LEMMA Kept ==
  ASSUME Core, Good(ui', NoOp), UNCHANGED <<reports, world>>
  PROVE  Core'
<1>1. Standing(ui') /\ Reported(ui', NoOp)
  BY DEF Good, Sound, Standing
<1>2. Reported(ui, NoOp)'
  BY <1>1 DEF Reported, Coming, Holds
<1>3. Good(ui, NoOp)'
  BY <1>1, <1>2, Carried
<1>4. Disk'
  BY DEF Core, Disk, Saying, Operation, Outcomes
<1> QED BY <1>3, <1>4 DEF Core

(***************************************************************************)
(* The threads of Courier                                                  *)
(***************************************************************************)
\* A report is of an operation that has been begun, and says what can be said of it.
LEMMA ReportsTyped ==
  ASSUME Disk, NEW op \in Operation, NEW what, Saying(op, what), what # "cancelled"
  PROVE  [op |-> op, what |-> what] \in
           [op : Operation, what : {"working", "ok", "outdated", "damaged", "failed"}]
<1>1. what \in {"working", "ok", "outdated", "damaged", "failed"}
  BY DEF Saying, Outcomes, Operation
<1> QED BY <1>1

\* What was to come still is: a thread's end is followed by its report, and that by an event.
LEMMA StillComing ==
  ASSUME Core, Queued(ui, ui'), ui' \in Uis, Disk', world.installed \subseteq world'.installed,
         world'.prefix = world.prefix,
         \A c \in Couriers : \A op \in Operation : Coming(ui, c, op) => Coming(ui, c, op)'
  PROVE  Core'
<1>1. /\ ui \in Uis /\ Work(ui, NoOp) /\ Reported(ui, NoOp) /\ Place(ui) /\ Layers(ui, NoOp)
      /\ Fits(ui) /\ Followed(ui) /\ Installed(ui) /\ RepairShown(ui) /\ Viewed(ui)
  BY DEF Core, Good, Sound
<1>2. Standing(ui')
  BY <1>1, QueuedSound DEF Standing
<1>3. /\ ui.op # NoOp => ui.op \in Operation
      /\ \A d \in Dialogs : ui.dialog[d].op # NoOp => ui.dialog[d].op \in Operation
  BY <1>1, NoOpIsNone DEF Uis, DialogStates
<1>4. ui.op # NoOp => Coming(ui, "checker", ui.op)'
  <2>1. "checker" \in Couriers
    BY DEF Couriers
  <2>2. ui.op # NoOp => Coming(ui, "checker", ui.op)
    BY <1>1 DEF Reported
  <2>3. ASSUME NEW op \in Operation, Coming(ui, "checker", op)
        PROVE  Coming(ui, "checker", op)'
    BY <2>1, <2>3
  <2>4. ui'.op = ui.op
    BY DEF Queued
  <2> QED BY <1>3, <2>2, <2>3, <2>4 DEF Coming
<1>5. ASSUME NEW d \in Dialogs, ui.dialog[d].op # NoOp, ~ui.dialog[d].observing
      PROVE  Coming(ui, d, ui.dialog[d].op)'
  <2>1. d \in Couriers
    BY DEF Couriers
  <2>2. Coming(ui, d, ui.dialog[d].op)
    BY <1>1, <1>5 DEF Reported, Holds
  <2>3. ASSUME NEW op \in Operation, Coming(ui, d, op)
        PROVE  Coming(ui, d, op)'
    BY <2>1, <2>3
  <2>4. ui'.dialog = ui.dialog
    BY DEF Queued
  <2> QED BY <1>3, <1>5, <2>2, <2>3, <2>4 DEF Coming
<1>6. Reported(ui, NoOp)'
  <2>1. ui'.op = ui.op /\ ui'.dialog = ui.dialog
    BY DEF Queued
  <2>2. ui'.op # NoOp => Coming(ui, "checker", ui.op)'
    BY <1>4, <2>1
  <2>3. ASSUME NEW d \in Dialogs, ui'.dialog[d].op # NoOp, ~ui'.dialog[d].observing
        PROVE  Coming(ui, d, ui.dialog[d].op)'
    BY <1>5, <2>1, <2>3
  <2> QED BY <2>2, <2>3 DEF Reported, Holds
<1>7. Good(ui, NoOp)'
  BY <1>2, <1>6, Carried
<1> QED BY <1>7 DEF Core

LEMMA ProgressKeeps ==
  ASSUME Core, NEW c \in Couriers, Progress(c)
  PROVE  Core' /\ ui'.wine = ui.wine
<1>1. /\ ui' = ui /\ world' = world /\ ui.running[c] # NoOp
      /\ reports' = reports \cup {[op |-> ui.running[c], what |-> "working"]}
  BY DEF Progress
<1>2. ui \in Uis /\ Disk
  BY DEF Core, Good, Sound
<1>3. ui.running[c] \in Operation /\ Saying(ui.running[c], "working")
  BY <1>1, <1>2, NoOpIsNone DEF Uis, Saying
<1>4. Disk'
  <2>1. [op |-> ui.running[c], what |-> "working"] \in
          [op : Operation, what : {"working", "ok", "outdated", "damaged", "failed"}]
    BY <1>3
  <2>2. \A r \in reports' : Saying(r.op, r.what)
    BY <1>1, <1>2, <1>3 DEF Disk
  <2>3. (\A r \in reports : Saying(r.op, r.what))'
    BY <2>2 DEF Saying, Outcomes
  <2>4. (reports \in SUBSET [op : Operation, what : {"working", "ok", "outdated", "damaged", "failed"}])'
    BY <1>1, <1>2, <2>1 DEF Disk, Operation
  <2> QED BY <1>1, <1>2, <2>3, <2>4 DEF Disk
<1>5. \A k \in Couriers : \A op \in Operation : Coming(ui, k, op) => Coming(ui, k, op)'
  BY <1>1 DEF Coming
<1>6. Queued(ui, ui')
  BY <1>1 DEF Queued
<1> QED BY <1>1, <1>2, <1>4, <1>5, <1>6, StillComing

LEMMA FinishKeeps ==
  ASSUME Core, NEW c \in Couriers, Finish(c)
  PROVE  Core' /\ ui'.wine = ui.wine
<1> DEFINE op == ui.running[c]
<1>1. ui \in Uis /\ Disk
  BY DEF Core, Good, Sound
<1>2. PICK what \in Outcomes(op.kind) :
        /\ reports' = reports \cup {[op |-> op, what |-> what]}
        /\ world' = IF op.kind = "transfer" /\ what = "ok"
                    THEN [world EXCEPT !.installed = @ \cup {op.game}] ELSE world
  BY DEF Finish
<1>3. op # NoOp /\ ui' = [ui EXCEPT !.running[c] = NoOp]
  BY DEF Finish
<1>4. op \in Operation
  BY <1>1, <1>3, NoOpIsNone DEF Uis
<1>5. Saying(op, what) /\ what \in {"ok", "outdated", "damaged", "failed"}
  BY <1>2, <1>4 DEF Saying, Outcomes, Operation
<1>6. /\ ui' \in Uis /\ Queued(ui, ui') /\ ui'.posted = ui.posted
      /\ \A k \in Couriers : k # c => ui'.running[k] = ui.running[k]
  <2> DEFINE R == [ui.running EXCEPT ![c] = NoOp]
  <2>1. R \in [Couriers -> OpsOrNone] /\ (\A k \in Couriers : k # c => R[k] = ui.running[k])
    BY <1>1, NoOpIsNone DEF Uis
  <2>2. ui' = [ui EXCEPT !.running = R]
    BY <1>3
  <2> HIDE DEF R
  <2>3. ui' \in Uis /\ ui'.running = R /\ ui'.posted = ui.posted
    BY <1>1, <2>1, <2>2 DEF Uis
  <2>4. Queued(ui, ui')
    BY <1>1, <2>2 DEF Uis, Queued
  <2> QED BY <2>1, <2>3, <2>4
<1> HIDE DEF op
<1>7. world' \in [installed : SUBSET Games, prefix : BOOLEAN] /\ world'.prefix = world.prefix
      /\ world.installed \subseteq world'.installed
  BY <1>1, <1>2, <1>4 DEF Disk, Operation
<1>8. Disk'
  <2>1. [op |-> op, what |-> what] \in
          [op : Operation, what : {"working", "ok", "outdated", "damaged", "failed"}]
    BY <1>4, <1>5
  <2>2. \A r \in reports' : Saying(r.op, r.what)
    BY <1>1, <1>2, <1>5 DEF Disk
  <2>3. (\A r \in reports : Saying(r.op, r.what))'
    BY <2>2 DEF Saying, Outcomes
  <2>4. (reports \in SUBSET [op : Operation, what : {"working", "ok", "outdated", "damaged", "failed"}])'
    BY <1>1, <1>2, <2>1 DEF Disk, Operation
  <2> QED BY <1>7, <2>3, <2>4 DEF Disk
<1>9. ASSUME NEW k \in Couriers, NEW o \in Operation, Coming(ui, k, o)
      PROVE  Coming(ui, k, o)'
  <2>1. CASE ui.running[k] = o /\ k # c
    BY <1>6, <2>1 DEF Coming
  <2>2. CASE ui.running[k] = o /\ k = c
    <3>1. [op |-> op, what |-> what] \in reports' /\ op = o /\ what # "working"
      BY <1>2, <1>5, <2>2 DEF op
    <3> QED BY <3>1 DEF Coming
  <2>3. CASE \E r \in reports : r.op = o /\ r.what # "working"
    BY <1>2, <2>3 DEF Coming
  <2>4. ASSUME NEW i \in DOMAIN ui.posted, ui.posted[i].event = "status", ui.posted[i].op = o,
               ui.posted[i].what # "working"
        PROVE  Coming(ui, k, o)'
    BY <1>6, <2>4 DEF Coming
  <2> QED BY <1>9, <2>1, <2>2, <2>3, <2>4 DEF Coming
<1>10. Core'
  BY <1>6, <1>7, <1>8, <1>9, StillComing
<1> QED BY <1>6, <1>10 DEF Queued

LEMMA PostKeeps ==
  ASSUME Core, Post
  PROVE  Core' /\ ui'.wine = ui.wine
<1>1. ui \in Uis /\ Disk
  BY DEF Core, Good, Sound
<1>2. PICK r \in reports :
        /\ ui' = [ui EXCEPT !.posted = Append(@, Status(r.op, r.what))]
        /\ reports' = reports \ {r}
  BY DEF Post
<1>3. world' = world
  BY DEF Post
<1> DEFINE s == Status(r.op, r.what)
<1>4. s \in Events /\ s.event = "status" /\ s.op = r.op /\ s.what = r.what
  BY <1>1 DEF Disk, Status, Events, Statuses, Said
<1> HIDE DEF s
<1>5. /\ Append(ui.posted, s) \in Seq(Events)
      /\ \A i \in DOMAIN ui.posted :
           i \in DOMAIN Append(ui.posted, s) /\ Append(ui.posted, s)[i] = ui.posted[i]
      /\ Len(ui.posted) + 1 \in DOMAIN Append(ui.posted, s)
      /\ Append(ui.posted, s)[Len(ui.posted) + 1] = s
  BY <1>1, <1>4, AppendIs DEF Uis
<1>6. ui' = [ui EXCEPT !.posted = Append(ui.posted, s)]
  BY <1>2 DEF s
<1>7. /\ ui' \in Uis /\ ui'.posted = Append(ui.posted, s) /\ ui'.running = ui.running
  BY <1>1, <1>5, <1>6 DEF Uis
<1>8. Queued(ui, ui')
  BY <1>1, <1>6 DEF Uis, Queued
<1>9. Disk'
  BY <1>1, <1>2, <1>3 DEF Disk, Saying, Outcomes, Operation
<1>10. ASSUME NEW k \in Couriers, NEW o \in Operation, Coming(ui, k, o)
       PROVE  Coming(ui, k, o)'
  <2>1. CASE ui.running[k] = o
    BY <1>7, <2>1 DEF Coming
  <2>2. ASSUME NEW q \in reports, q.op = o, q.what # "working"
        PROVE  Coming(ui, k, o)'
    <3>1. CASE q # r
      BY <1>2, <2>2, <3>1 DEF Coming
    <3>2. CASE q = r
      <4> DEFINE i == Len(ui.posted) + 1
      <4> HIDE DEF i
      <4>1. i \in DOMAIN ui'.posted /\ ui'.posted[i] = s
        BY <1>5, <1>7 DEF i
      <4> QED BY <1>4, <2>2, <3>2, <4>1 DEF Coming
    <3> QED BY <3>1, <3>2
  <2>3. ASSUME NEW i \in DOMAIN ui.posted, ui.posted[i].event = "status", ui.posted[i].op = o,
               ui.posted[i].what # "working"
        PROVE  Coming(ui, k, o)'
    <3>1. i \in DOMAIN ui'.posted /\ ui'.posted[i] = ui.posted[i]
      BY <1>5, <1>7, <2>3
    <3> QED BY <2>3, <3>1 DEF Coming
  <2> QED BY <1>10, <2>1, <2>2, <2>3 DEF Coming
<1>11. Core'
  BY <1>3, <1>7, <1>8, <1>9, <1>10, StillComing
<1> QED BY <1>8, <1>11 DEF Queued

(***************************************************************************)
(* What goes on goes on for one game                                       *)
(***************************************************************************)
Fields ==
  {"config", "game", "key", "launch", "checked", "pending", "repairing", "suspended", "overlays",
   "installing", "view", "purpose", "prefix", "present", "wine", "failed", "needed", "check", "op",
   "transfer", "dialog", "active", "running", "posted", "stage"}

Shape(u) ==
  /\ DOMAIN u = Fields /\ DOMAIN u.dialog = Dialogs
  /\ \A d \in Dialogs : DOMAIN u.dialog[d] = {"op", "observing", "retry"}

\* The same is configured and waited for, and no launch begins.
Same(u, v) ==
  /\ DOMAIN v = Fields /\ v.config = u.config /\ v.op = u.op /\ v.dialog = u.dialog
  /\ v.check = u.check /\ (v.launch => u.launch)

\* What is waited for anew is of the configured game.
Fresh(u, v) ==
  /\ Shape(v) /\ v.config = u.config
  /\ \A op \in Waited(v) : op \in Waited(u) \/ op.game = u.config

Steady(u, v) == Fresh(u, v) /\ (Going(v) => Going(u))

LEMMA UisShape ==
  ASSUME NEW u \in Uis
  PROVE  Shape(u)
  BY DEF Uis, Shape, Fields, DialogStates

LEMMA SameSteady ==
  ASSUME NEW u, NEW v, Shape(u), Same(u, v)
  PROVE  Steady(u, v)
  BY DEF Shape, Same, Steady, Fresh, Waited, Going

LEMMA SteadyOn ==
  ASSUME NEW u, NEW v, NEW w, Steady(u, v), Steady(v, w)
  PROVE  Steady(u, w)
  BY DEF Steady, Fresh

LEMMA CloseSame ==
  ASSUME NEW u, NEW o, DOMAIN u = Fields
  PROVE  Same(u, Close(u, o)) /\ Same(u, Open(u, o)) /\ Same(u, Hide(u, o))
<1>1. Same(u, Close(u, o))
  BY DEF Same, Close, Fields
<1>2. Same(u, Open(u, o))
  BY DEF Same, Open, Fields
<1>3. Same(u, Hide(u, o))
  BY <1>1 DEF Hide, Same, Fields
<1> QED BY <1>1, <1>2, <1>3

LEMMA SuspendSame ==
  ASSUME NEW u, DOMAIN u = Fields
  PROVE  Same(u, Suspend(u))
  BY DEF Same, Suspend, Fields

LEMMA SameOn ==
  ASSUME NEW u, NEW v, NEW w, Same(u, v), Same(v, w)
  PROVE  Same(u, w)
  BY DEF Same

LEMMA ShowViewSame ==
  ASSUME NEW u, DOMAIN u = Fields
  PROVE  Same(u, ShowView(u))
<1> DEFINE v == [u EXCEPT !.view = View(u.stage)]
<1>1. Same(u, v)
  BY DEF Same, Fields
<1>2. ShowView(u) \in {u, v, Open(Close(v, "setup"), "install"), Open(Close(v, "install"), "setup"),
                       Close(Close(v, "setup"), "install")}
  BY DEF ShowView, View
<1> HIDE DEF v
<1>3. \A o, x : /\ Same(v, Close(v, o))
                /\ Same(v, Open(Close(v, o), x)) /\ Same(v, Close(Close(v, o), x))
  BY <1>1, CloseSame DEF Same
<1> QED BY <1>1, <1>2, <1>3 DEF Same

LEMMA RunGameSame ==
  ASSUME NEW u, DOMAIN u = Fields
  PROVE  Same(u, RunGame(u))
<1> DEFINE v == Close(u, "update")
           w == [v EXCEPT !.launch = FALSE, !.wine = "game", !.stage = "Running"]
<1>1. Same(u, v)
  BY CloseSame
<1> HIDE DEF v
<1>2. Same(v, w)
  BY <1>1 DEF Same, Fields
<1> HIDE DEF w
<1>3. Same(w, Suspend(w)) /\ Same(Suspend(w), ShowView(Suspend(w)))
  BY <1>2, SuspendSame, ShowViewSame DEF Same
<1> QED BY <1>1, <1>2, <1>3 DEF RunGame, Same, v, w

LEMMA StageChangedSame ==
  ASSUME NEW u, DOMAIN u = Fields
  PROVE  Same(u, StageChanged(u))
<1> DEFINE s == Suspend(u)
           t == [s EXCEPT !.launch = @ /\ s.stage \in LaunchSurvives]
           v == IF t.stage = "Ready" /\ t.dialog["update"].observing THEN Close(t, "update") ELSE t
<1>1. StageChanged(u) = IF s.launch /\ s.stage = "Ready" THEN RunGame(s)
                        ELSE IF v.repairing /\ Shows(v, "repair") THEN v
                        ELSE ShowView(v)
  BY DEF StageChanged
<1>2. Same(u, s)
  BY SuspendSame
<1> HIDE DEF s
<1>3. Same(s, t)
  BY <1>2 DEF Same, Fields
<1> HIDE DEF t
<1>4. Same(t, v)
  BY <1>3, CloseSame DEF Same
<1> HIDE DEF v
<1>5. Same(s, RunGame(s)) /\ Same(v, ShowView(v))
  BY <1>2, <1>4, RunGameSame, ShowViewSame DEF Same
<1> QED BY <1>1, <1>2, <1>3, <1>4, <1>5 DEF Same

LEMMA RecomputeSame ==
  ASSUME NEW u, DOMAIN u = Fields
  PROVE  Same(u, Recompute(u))
<1> DEFINE v == [u EXCEPT !.stage = Compute(u)]
<1>1. Same(u, v)
  BY DEF Same, Fields
<1>2. Recompute(u) \in {u, StageChanged(v)}
  BY DEF Recompute
<1> HIDE DEF v
<1>3. Same(v, StageChanged(v))
  BY <1>1, StageChangedSame DEF Same
<1> QED BY <1>1, <1>2, <1>3 DEF Same

LEMMA CancelSame ==
  ASSUME NEW u, NEW c, DOMAIN u = Fields
  PROVE  /\ Same(u, CourierCancel(u, c)) /\ Same(u, Clear(u, c)) /\ Same(u, ScheduleProbe(u))
         /\ \A op : Same(u, Run(u, c, op))
<1>1. Same(u, CourierCancel(u, c))
  BY DEF Same, CourierCancel, Fields
<1>2. Same(u, Clear(u, c))
  BY DEF Same, Clear, Fields
<1>3. Same(u, ScheduleProbe(u))
  BY DEF Same, ScheduleProbe, Fields
<1>4. \A op : Same(u, Run(u, c, op))
  BY DEF Same, Run, Fields
<1> QED BY <1>1, <1>2, <1>3, <1>4

LEMMA RecomputeSteady ==
  ASSUME NEW u, NEW v, Steady(u, v)
  PROVE  Steady(u, Recompute(v))
  BY RecomputeSame, SameSteady, SteadyOn DEF Steady, Fresh, Shape

LEMMA SameShape ==
  ASSUME NEW u, NEW v, Shape(u), Same(u, v)
  PROVE  Shape(v)
  BY DEF Same, Shape

LEMMA CancelCheckSteady ==
  ASSUME NEW u, Shape(u)
  PROVE  LET v == [CancelCheck(u) EXCEPT !.needed = FALSE]
         IN  /\ Steady(u, CancelCheck(u)) /\ CancelCheck(u).launch = u.launch
             /\ Steady(u, v) /\ v.launch = u.launch
<1> DEFINE x == Clear(CourierCancel(u, "checker"), u.op)
           y == [x EXCEPT !.op = NoOp, !.check = "None"]
<1>1. Same(u, x) /\ x.launch = u.launch
  BY CancelSame DEF Same, Shape, Clear, CourierCancel, Fields
<1>2. CancelCheck(u) \in {u, y}
  BY DEF CancelCheck
<1> HIDE DEF x
<1>3. Steady(u, y) /\ y.launch = u.launch
  BY <1>1 DEF Same, Shape, Steady, Fresh, Waited, Going, Fields
<1>4. Steady(u, u)
  BY DEF Steady, Fresh
<1> DEFINE z == CancelCheck(u)
<1>5. Steady(u, z) /\ z.launch = u.launch
  BY <1>2, <1>3, <1>4
<1> HIDE DEF z
<1>6. LET v == [z EXCEPT !.needed = FALSE] IN Steady(u, v) /\ v.launch = u.launch
  BY <1>5 DEF Shape, Steady, Fresh, Waited, Going, Fields
<1> QED BY <1>5, <1>6 DEF z

LEMMA StopObservingSteady ==
  ASSUME NEW u, Shape(u)
  PROVE  Steady(u, StopObserving(u)) /\ StopObserving(u).launch = u.launch
<1> DEFINE v == [u EXCEPT !.dialog["update"].op = NoOp, !.dialog["update"].observing = FALSE]
<1>1. StopObserving(u) \in {u, v}
  BY DEF StopObserving
<1>2. Steady(u, v) /\ v.launch = u.launch
  BY DEF Shape, Steady, Fresh, Waited, Going, Fields, Dialogs
<1>3. Steady(u, u)
  BY DEF Steady, Fresh
<1> QED BY <1>1, <1>2, <1>3

LEMMA SyncFinishedSteady ==
  ASSUME NEW u, NEW ok, Shape(u)
  PROVE  Steady(u, SyncFinished(u, ok))
<1> DEFINE v == StopObserving(u)
           w == Close(v, "update")
           x == [w EXCEPT !.launch = @ /\ ok]
<1>1. Steady(u, v)
  BY StopObservingSteady
<1> HIDE DEF v
<1>2. Same(v, w)
  BY <1>1, CloseSame DEF Steady, Fresh, Shape
<1> HIDE DEF w
<1>3. Same(w, x)
  BY <1>2 DEF Same, Fields
<1>4. x = SyncFinished(u, ok)
  BY DEF SyncFinished, v, w
<1> HIDE DEF x
<1>5. Same(v, x)
  BY <1>2, <1>3, SameOn
<1> QED BY <1>1, <1>4, <1>5, SameSteady, SteadyOn DEF Steady, Fresh

LEMMA RepairRequiredSteady ==
  ASSUME NEW u, Shape(u)
  PROVE  Steady(u, RepairRequired(u))
<1> DEFINE v == [u EXCEPT !.launch = FALSE, !.pending = @ \cup {u.game}]
<1>1. Same(u, v)
  BY DEF Same, Shape, Fields
<1>2. RepairRequired(u) = Open(v, "files")
  BY DEF RepairRequired
<1> HIDE DEF v
<1>3. Same(v, Open(v, "files"))
  BY <1>1, CloseSame DEF Same
<1> QED BY <1>1, <1>2, <1>3, SameOn, SameSteady

LEMMA ObserveSteady ==
  ASSUME NEW u, Shape(u)
  PROVE  Steady(u, Observe(u))
<1> DEFINE w == Clear(CourierCancel(u, "update"), u.dialog["update"].op)
           x == [w EXCEPT !.dialog["update"] = [op |-> u.op, observing |-> TRUE, retry |-> FALSE]]
<1>1. Same(u, w)
  BY CancelSame, SameOn DEF Shape, Same
<1> HIDE DEF w
<1>2. Steady(u, x)
  BY <1>1 DEF Same, Shape, Steady, Fresh, Waited, Going, Fields, Dialogs
<1>3. Observe(u) = Open(x, "update")
  BY DEF Observe, w
<1> HIDE DEF x
<1>4. Same(x, Open(x, "update"))
  BY <1>2, CloseSame DEF Steady, Fresh, Shape
<1> QED BY <1>2, <1>3, <1>4, SameSteady, SteadyOn DEF Steady, Fresh

LEMMA UnneededSame ==
  ASSUME NEW u, NEW needed, Shape(u)
  PROVE  Same(u, [u EXCEPT !.needed = needed]) /\ Steady(u, [u EXCEPT !.needed = needed])
<1>1. Same(u, [u EXCEPT !.needed = needed])
  BY DEF Same, Shape, Fields
<1> QED BY <1>1, SameSteady

\* A check that did not start or is over.
LEMMA SyncSteady ==
  ASSUME NEW u, NEW ok, NEW needed, Shape(u)
  PROVE  Steady(u, Recompute(SyncFinished([u EXCEPT !.needed = needed], ok)))
<1> DEFINE v == [u EXCEPT !.needed = needed]
<1>1. Steady(u, v)
  BY UnneededSame
<1> HIDE DEF v
<1>2. Steady(v, SyncFinished(v, ok))
  BY <1>1, SyncFinishedSteady DEF Steady, Fresh
<1> QED BY <1>1, <1>2, SteadyOn, RecomputeSteady DEF v

LEMMA StartCheckFresh ==
  ASSUME NEW u, NEW check, NEW kind, NEW able, Shape(u)
  PROVE  Fresh(u, StartCheck(u, check, kind, able))
<1>1. CASE ~able
  BY <1>1, SyncSteady DEF StartCheck, Steady
<1>2. CASE able
  <2> DEFINE op == NewOp(u, kind)
             v  == Run(u, "checker", op)
             w  == [v EXCEPT !.op = op, !.check = check]
  <2>1. op.game = u.config
    BY DEF NewOp
  <2> HIDE DEF op
  <2>2. Same(u, v)
    BY CancelSame DEF Shape
  <2> HIDE DEF v
  <2>3. Fresh(u, w)
    BY <2>1, <2>2 DEF Same, Shape, Fresh, Waited, Fields
  <2>4. StartCheck(u, check, kind, able) = Recompute(Observe(w))
    BY <1>2 DEF StartCheck, v, op
  <2> HIDE DEF w
  <2>5. Steady(w, Recompute(Observe(w)))
    BY <2>3, ObserveSteady, RecomputeSteady DEF Fresh
  <2> QED BY <2>3, <2>4, <2>5 DEF Steady, Fresh
<1> QED BY <1>1, <1>2

LEMMA StartUpdateCheckFresh ==
  ASSUME NEW u, NEW able, Shape(u)
  PROVE  Fresh(u, StartUpdateCheck(u, able))
<1>1. Fresh(u, u)
  BY DEF Fresh
<1> QED BY <1>1, StartCheckFresh DEF StartUpdateCheck

LEMMA RecheckFresh ==
  ASSUME NEW u, NEW able, Shape(u)
  PROVE  Fresh(u, RecheckBeforeLaunch(u, able))
<1> DEFINE v == [CancelCheck(u) EXCEPT !.needed = FALSE]
<1>1. Fresh(u, v)
  BY CancelCheckSteady DEF Steady
<1>2. RecheckBeforeLaunch(u, able) \in {u, StartUpdateCheck(v, able)}
  BY DEF RecheckBeforeLaunch
<1> HIDE DEF v
<1>3. Fresh(v, StartUpdateCheck(v, able)) /\ Fresh(u, u)
  BY <1>1, StartUpdateCheckFresh DEF Fresh
<1> QED BY <1>1, <1>2, <1>3 DEF Fresh

LEMMA CheckedFresh ==
  ASSUME NEW u, NEW check, NEW what, NEW able, Shape(u),
         \/ what \in {"failed", "cancelled"}
         \/ check = "Version" /\ what \in {"ok", "outdated"}
         \/ check = "Integrity" /\ what \in {"ok", "damaged"}
  PROVE  /\ Fresh(u, Checked(u, check, what, able))
         /\ what \in {"failed", "cancelled"} => Steady(u, Checked(u, check, what, able))
<1>1. CASE what \in {"failed", "cancelled"}
  <2>1. Checked(u, check, what, able) = Recompute(SyncFinished([u EXCEPT !.needed = FALSE], FALSE))
    BY <1>1 DEF Checked
  <2> QED BY <2>1, SyncSteady DEF Steady
<1>2. CASE check = "Version" /\ what = "outdated"
  <2>1. Checked(u, check, what, able) = Recompute(SyncFinished([u EXCEPT !.needed = TRUE], FALSE))
    BY <1>2 DEF Checked
  <2> QED BY <1>2, <2>1, SyncSteady DEF Steady
<1>3. CASE check = "Version" /\ what = "ok"
  <2> DEFINE v == [u EXCEPT !.needed = FALSE]
  <2>1. Checked(u, check, what, able) = StartCheck(v, "Integrity", "integrity", able)
    BY <1>3 DEF Checked
  <2>2. Steady(u, v)
    BY UnneededSame
  <2> HIDE DEF v
  <2>3. Fresh(v, StartCheck(v, "Integrity", "integrity", able))
    BY <2>2, StartCheckFresh DEF Steady, Fresh
  <2> QED BY <1>3, <2>1, <2>2, <2>3 DEF Steady, Fresh
<1>4. CASE check = "Integrity" /\ what = "damaged"
  <2> DEFINE v == [u EXCEPT !.needed = FALSE]
  <2>1. Checked(u, check, what, able) = Recompute(RepairRequired(SyncFinished(v, FALSE)))
    BY <1>4 DEF Checked
  <2>2. Steady(u, v)
    BY UnneededSame
  <2> HIDE DEF v
  <2> DEFINE w == SyncFinished(v, FALSE)
  <2>3. Steady(u, w)
    BY <2>2, SyncFinishedSteady, SteadyOn, ZenonT(40) DEF Steady, Fresh
  <2> HIDE DEF w
  <2>4. Steady(u, Recompute(RepairRequired(w)))
    BY <2>3, RepairRequiredSteady, SteadyOn, RecomputeSteady DEF Steady, Fresh
  <2> QED BY <1>4, <2>1, <2>4 DEF Steady, w
<1>5. CASE check = "Integrity" /\ what = "ok"
  <2>1. Checked(u, check, what, able) = Recompute(SyncFinished([u EXCEPT !.needed = FALSE], TRUE))
    BY <1>5 DEF Checked
  <2> QED BY <1>5, <2>1, SyncSteady DEF Steady
<1> QED BY <1>1, <1>2, <1>3, <1>4, <1>5

LEMMA TransferredSteady ==
  ASSUME NEW u, NEW what \in Said, Shape(u)
  PROVE  Steady(u, Transferred(u, what))
<1>1. CASE what = "working"
  <2> DEFINE v == [u EXCEPT !.transfer = TRUE]
  <2>1. Same(u, v)
    BY DEF Same, Shape, Fields
  <2>2. Transferred(u, what) = Recompute(v)
    BY <1>1 DEF Transferred
  <2> QED BY <2>1, <2>2, SameSteady, RecomputeSteady
<1>2. CASE what # "working" /\ u.repairing
  <2> DEFINE v == [u EXCEPT !.transfer = FALSE, !.needed = FALSE]
  <2>1. Same(u, v)
    BY DEF Same, Shape, Fields
  <2>2. Transferred(u, what) = Recompute(v)
    BY <1>2 DEF Transferred
  <2> QED BY <2>1, <2>2, SameSteady, RecomputeSteady
<1>3. CASE what \in {"failed", "cancelled"} /\ ~u.repairing
  <2> DEFINE v == [u EXCEPT !.transfer = FALSE, !.needed = TRUE]
  <2>1. Same(u, v)
    BY DEF Same, Shape, Fields
  <2>2. Transferred(u, what) = Recompute(v)
    BY <1>3 DEF Transferred
  <2> QED BY <2>1, <2>2, SameSteady, RecomputeSteady
<1>4. CASE what \in {"ok", "outdated", "damaged"} /\ ~u.repairing
  <2> DEFINE v == [u EXCEPT !.transfer = FALSE, !.needed = FALSE, !.key = u.config,
                            !.present = u.config \in world.installed]
  <2>1. Same(u, v)
    BY DEF Same, Shape, Fields
  <2>2. Transferred(u, what) = Recompute(ScheduleProbe(v))
    BY <1>4 DEF Transferred
  <2> HIDE DEF v
  <2>3. Same(v, ScheduleProbe(v))
    BY <2>1, CancelSame DEF Same
  <2> QED BY <2>1, <2>2, <2>3, SameOn, SameSteady, RecomputeSteady
<1> QED BY <1>1, <1>2, <1>3, <1>4 DEF Said

\* What a check's operation can have said of it.
Answers(u, op, what) ==
  op = u.op /\ what \notin {"working", "cancelled"} =>
     \/ u.check = "Version" /\ what \in {"ok", "outdated", "failed"}
     \/ u.check = "Integrity" /\ what \in {"ok", "damaged", "failed"}

LEMMA CourierStatusSteady ==
  ASSUME NEW u, NEW op, NEW what \in Said, NEW able, Shape(u), Answers(u, op, what)
  PROVE  Steady(u, OnCourierStatus(u, Status(op, what), able))
<1>1. Status(op, what).op = op /\ Status(op, what).what = what
  BY DEF Status
<1>2. CASE op # u.op
  <2>1. OnCourierStatus(u, Status(op, what), able) = Transferred(u, what)
    BY <1>1, <1>2 DEF OnCourierStatus
  <2> QED BY <2>1, TransferredSteady
<1>3. CASE op = u.op /\ what = "working"
  <2>1. OnCourierStatus(u, Status(op, what), able) = Recompute(u)
    BY <1>1, <1>3 DEF OnCourierStatus
  <2> QED BY <2>1, RecomputeSame, SameSteady DEF Shape
<1>4. CASE op = u.op /\ what # "working"
  <2> DEFINE v == [u EXCEPT !.check = "None", !.op = NoOp]
             w == Clear(v, op)
  <2>1. OnCourierStatus(u, Status(op, what), able) = Checked(w, u.check, what, able)
    BY <1>1, <1>4 DEF OnCourierStatus
  <2>2. Steady(u, v)
    BY DEF Shape, Steady, Fresh, Waited, Going, Fields
  <2> HIDE DEF v
  <2>3. Steady(v, w)
    BY <2>2, CancelSame, SameSteady DEF Steady, Fresh, Shape
  <2>4. Steady(u, w)
    BY <2>2, <2>3, SteadyOn
  <2> HIDE DEF w
  <2>5. \/ what \in {"failed", "cancelled"}
        \/ u.check = "Version" /\ what \in {"ok", "outdated"}
        \/ u.check = "Integrity" /\ what \in {"ok", "damaged"}
    BY <1>4 DEF Answers
  <2>6. /\ Fresh(w, Checked(w, u.check, what, able))
        /\ what \in {"failed", "cancelled"} => Steady(w, Checked(w, u.check, what, able))
    BY <2>4, <2>5, CheckedFresh DEF Steady, Fresh
  <2>7. CASE what \in {"failed", "cancelled"}
    BY <2>1, <2>4, <2>6, <2>7, SteadyOn
  <2>8. CASE what \notin {"failed", "cancelled"}
    <3>1. Going(u)
      BY <2>5, <2>8 DEF Going
    <3>2. Fresh(u, Checked(w, u.check, what, able))
      BY <2>4, <2>6 DEF Steady, Fresh
    <3> QED BY <2>1, <3>1, <3>2 DEF Steady
  <2> QED BY <2>7, <2>8
<1> QED BY <1>2, <1>3, <1>4

LEMMA EndRepairSteady ==
  ASSUME NEW u, Shape(u)
  PROVE  Steady(u, EndRepair(u))
<1> DEFINE v == [u EXCEPT !.repairing = FALSE, !.transfer = FALSE, !.needed = FALSE]
<1>1. Same(u, v)
  BY DEF Same, Shape, Fields
<1>2. EndRepair(u) = Recompute(v)
  BY DEF EndRepair
<1> QED BY <1>1, <1>2, SameSteady, RecomputeSteady

LEMMA MarkSynchronizedSteady ==
  ASSUME NEW u, Shape(u)
  PROVE  Steady(u, MarkSynchronized(u))
<1> DEFINE v == CancelCheck(u)
           w == [v EXCEPT !.key = u.config, !.needed = FALSE]
<1>1. Steady(u, v)
  BY CancelCheckSteady
<1> HIDE DEF v
<1>2. Same(v, w)
  BY <1>1 DEF Same, Steady, Fresh, Shape, Fields
<1>3. MarkSynchronized(u) = Recompute(w)
  BY DEF MarkSynchronized, v
<1> HIDE DEF w
<1> QED BY <1>1, <1>2, <1>3, SameSteady, SteadyOn, RecomputeSteady DEF Steady, Fresh

LEMMA LoadingSteady ==
  ASSUME NEW u, Shape(u)
  PROVE  /\ Steady(u, StageChanged([u EXCEPT !.view = "loading"]))
         /\ Steady(u, StageChanged([u EXCEPT !.suspended = FALSE, !.view = "loading"]))
<1> DEFINE v == [u EXCEPT !.view = "loading"]
           w == [u EXCEPT !.suspended = FALSE, !.view = "loading"]
<1>1. Same(u, v) /\ Same(u, w)
  BY DEF Same, Shape, Fields
<1> HIDE DEF v, w
<1>2. Same(v, StageChanged(v)) /\ Same(w, StageChanged(w))
  BY <1>1, StageChangedSame DEF Same
<1>3. Same(u, StageChanged(v)) /\ Same(u, StageChanged(w))
  BY <1>1, <1>2, SameOn
<1> QED BY <1>3, SameSteady DEF v, w

LEMMA HideSteady ==
  ASSUME NEW u, NEW o, Shape(u)
  PROVE  Steady(u, Close(u, o)) /\ Steady(u, Open(u, o)) /\ Steady(u, Hide(u, o))
  BY CloseSame, SameSteady DEF Shape

LEMMA FinishedSteady ==
  ASSUME NEW u, NEW d \in Dialogs, Shape(u)
  PROVE  Steady(u, Finished(u, d))
<1>1. CASE d = "install"
  BY <1>1, HideSteady DEF Finished
<1>2. CASE d = "update"
  <2> DEFINE v == Close(u, d)
             w == MarkSynchronized(v)
  <2>1. Steady(u, v)
    BY HideSteady
  <2> HIDE DEF v
  <2>2. Steady(v, w)
    BY <2>1, MarkSynchronizedSteady DEF Steady, Fresh
  <2> HIDE DEF w
  <2>3. Steady(w, StageChanged([w EXCEPT !.view = "loading"]))
    BY <2>2, LoadingSteady DEF Steady, Fresh
  <2>4. Finished(u, d) = StageChanged([w EXCEPT !.view = "loading"])
    BY <1>2 DEF Finished, w, v
  <2> QED BY <2>1, <2>2, <2>3, <2>4, SteadyOn
<1>3. CASE d = "repair"
  <2> DEFINE v == EndRepair(u)
             w == Close(v, d)
             x == [w EXCEPT !.pending = @ \ {u.game}, !.suspended = FALSE]
             y == MarkSynchronized(x)
  <2>1. Steady(u, v)
    BY EndRepairSteady
  <2> HIDE DEF v
  <2>2. Steady(v, w)
    BY <2>1, HideSteady DEF Steady, Fresh
  <2> HIDE DEF w
  <2>3. Same(w, x)
    BY <2>2 DEF Same, Steady, Fresh, Shape, Fields
  <2> HIDE DEF x
  <2>4. Steady(w, x)
    BY <2>2, <2>3, SameSteady DEF Steady, Fresh
  <2>5. Steady(x, y)
    BY <2>4, MarkSynchronizedSteady DEF Steady, Fresh
  <2> HIDE DEF y
  <2>6. Steady(y, StageChanged([y EXCEPT !.view = "loading"]))
    BY <2>5, LoadingSteady DEF Steady, Fresh
  <2>7. Finished(u, d) = StageChanged([y EXCEPT !.view = "loading"])
    BY <1>3 DEF Finished, y, x, w, v
  <2> QED BY <2>1, <2>2, <2>4, <2>5, <2>6, <2>7, SteadyOn
<1> QED BY <1>1, <1>2, <1>3 DEF Dialogs

LEMMA DialogStatusSteady ==
  ASSUME NEW u, NEW op, NEW what, Shape(u)
  PROVE  Steady(u, OnDialogStatus(u, Status(op, what)))
<1>0. Status(op, what).op = op /\ Status(op, what).what = what
  BY DEF Status
<1> DEFINE s == Status(op, what)
           shown == {d \in Dialogs : u.dialog[d].op = s.op}
<1>1. CASE shown = {} \/ s.what = "working"
  <2>1. OnDialogStatus(u, s) = u
    BY <1>1 DEF OnDialogStatus
  <2> QED BY <2>1 DEF Steady, Fresh
<1>2. CASE ~(shown = {} \/ s.what = "working")
  <2> DEFINE d == CHOOSE d \in shown : TRUE
             retry == s.what = "failed"
  <2>1. d \in Dialogs
    BY <1>2
  <2> HIDE DEF d, retry
  <2> DEFINE v == [u EXCEPT !.dialog[d].op = NoOp, !.dialog[d].observing = FALSE,
                            !.dialog[d].retry = retry]
  <2>2. Steady(u, v)
    BY <2>1 DEF Shape, Steady, Fresh, Waited, Going, Fields
  <2>3. OnDialogStatus(u, s) \in {v, Finished(Clear(v, s.op), d), Clear(v, s.op)}
    BY <1>2, Zenon DEF OnDialogStatus, d, retry
  <2> HIDE DEF v, s
  <2>4. Steady(v, Clear(v, s.op))
    BY <2>2, CancelSame, SameSteady DEF Steady, Fresh, Shape
  <2>5. Steady(Clear(v, s.op), Finished(Clear(v, s.op), d))
    BY <2>1, <2>4, FinishedSteady DEF Steady, Fresh
  <2> QED BY <2>2, <2>3, <2>4, <2>5, SteadyOn DEF s
<1> QED BY <1>1, <1>2

LEMMA ReportSteady ==
  ASSUME NEW u, NEW op, NEW what \in Said, NEW able, Shape(u), Answers(u, op, what)
  PROVE  Steady(u, Report(u, Status(op, what), able))
<1> DEFINE s == Status(op, what)
           v == OnCourierStatus(u, s, able)
           w == OnDialogStatus(v, s)
<1>1. Steady(u, v)
  BY CourierStatusSteady
<1>2. Steady(v, w)
  BY <1>1, DialogStatusSteady DEF Steady, Fresh
<1>3. Report(u, s, able) \in {u, w, Clear(w, s.op)}
  BY DEF Report
<1> HIDE DEF s, v, w
<1>4. Steady(w, Clear(w, s.op))
  BY <1>2, CancelSame, SameSteady DEF Steady, Fresh, Shape
<1>5. Steady(u, u)
  BY DEF Steady, Fresh
<1> QED BY <1>1, <1>2, <1>3, <1>4, <1>5, SteadyOn DEF s

LEMMA StartDownloadSteady ==
  ASSUME NEW u, NEW d \in Dialogs, NEW able, Shape(u)
  PROVE  Steady(u, StartDownload(u, d, able))
<1> DEFINE op == NewOp(u, "transfer")
           c  == CourierCancel(u, d)
           v  == [c EXCEPT !.dialog[d].observing = FALSE, !.dialog[d].retry = ~able]
           r  == Run(v, d, op)
           w  == [r EXCEPT !.dialog[d].op = op]
<1>1. StartDownload(u, d, able) \in {u, v, Report(w, Status(op, "working"), able)}
  BY DEF StartDownload
<1>2. op.game = u.config
  BY DEF NewOp
<1> HIDE DEF op
<1>3. Same(u, c)
  BY CancelSame DEF Shape
<1> HIDE DEF c
<1> DEFINE retry == ~able
<1> HIDE DEF retry
<1>4. Steady(u, [c EXCEPT !.dialog[d].observing = FALSE, !.dialog[d].retry = retry])
  BY <1>3 DEF Same, Shape, Steady, Fresh, Waited, Going, Fields
<1>5. Steady(u, v)
  BY <1>4 DEF retry
<1> HIDE DEF v
<1>6. Same(v, r)
  BY <1>5, CancelSame DEF Steady, Fresh, Shape
<1> HIDE DEF r
<1>7. Steady(u, w)
  BY <1>2, <1>5, <1>6 DEF Same, Shape, Steady, Fresh, Waited, Going, Fields
<1> HIDE DEF w
<1>8. Steady(w, Report(w, Status(op, "working"), able))
  BY <1>7, ReportSteady DEF Steady, Fresh, Said, Answers
<1>9. Steady(u, u)
  BY DEF Steady, Fresh
<1> QED BY <1>1, <1>5, <1>7, <1>8, <1>9, SteadyOn

LEMMA CancelActiveSteady ==
  ASSUME NEW u, NEW d \in Dialogs, Shape(u)
  PROVE  Steady(u, CancelActive(u, d))
<1> DEFINE op == u.dialog[d].op
           c  == CourierCancel(u, d)
           v  == Report(c, Status(op, "cancelled"), TRUE)
           x  == Clear(v, op)
           w  == [x EXCEPT !.dialog[d].op = NoOp]
<1>1. CancelActive(u, d) \in {u, v, w}
  BY DEF CancelActive
<1>2. Steady(u, c)
  BY CancelSame, SameSteady DEF Shape
<1> HIDE DEF op, c
<1>3. Steady(c, v)
  BY <1>2, ReportSteady DEF Steady, Fresh, Said, Answers
<1> HIDE DEF v
<1>4. Same(v, x)
  BY <1>3, CancelSame DEF Steady, Fresh, Shape
<1> HIDE DEF x
<1>5. Steady(v, w)
  BY <1>3, <1>4 DEF Same, Shape, Steady, Fresh, Waited, Going, Fields
<1>6. Steady(u, u)
  BY DEF Steady, Fresh
<1> QED BY <1>1, <1>2, <1>3, <1>5, <1>6, SteadyOn

LEMMA ClosedSteady ==
  ASSUME NEW u, NEW d \in Dialogs, Shape(u)
  PROVE  Steady(u, Closed(u, d))
<1> DEFINE v == Hide(u, d)
           w == EndRepair(v)
           x == StageChanged([w EXCEPT !.suspended = FALSE, !.view = "loading"])
<1>1. Closed(u, d) \in {v, x}
  BY DEF Closed
<1>2. Steady(u, v)
  BY HideSteady
<1> HIDE DEF v
<1>3. Steady(v, w)
  BY <1>2, EndRepairSteady DEF Steady, Fresh
<1> HIDE DEF w
<1>4. Steady(w, x)
  BY <1>3, LoadingSteady DEF Steady, Fresh
<1> QED BY <1>1, <1>2, <1>3, <1>4, SteadyOn

LEMMA CancelPrelaunchSteady ==
  ASSUME NEW u, Shape(u)
  PROVE  Steady(u, CancelPrelaunch(u))
  BY CancelCheckSteady, RecomputeSteady DEF CancelPrelaunch

LEMMA CancelDownloadSteady ==
  ASSUME NEW u, NEW d \in Dialogs, Shape(u)
  PROVE  Steady(u, CancelDownload(u, d))
<1>1. CASE u.dialog[d].observing
  <2> DEFINE v == StopObserving(u)
             w == [v EXCEPT !.launch = FALSE]
             x == CancelPrelaunch(w)
  <2>1. Steady(u, v)
    BY StopObservingSteady
  <2> HIDE DEF v
  <2>2. Same(v, w)
    BY <2>1 DEF Same, Steady, Fresh, Shape, Fields
  <2> HIDE DEF w
  <2>3. Steady(v, w)
    BY <2>1, <2>2, SameSteady DEF Steady, Fresh
  <2>4. Steady(w, x)
    BY <2>3, CancelPrelaunchSteady DEF Steady, Fresh
  <2> HIDE DEF x
  <2>5. Steady(x, Hide(x, d))
    BY <2>4, HideSteady DEF Steady, Fresh
  <2>6. CancelDownload(u, d) = Hide(x, d)
    BY <1>1 DEF CancelDownload, x, w, v
  <2> QED BY <2>1, <2>3, <2>4, <2>5, <2>6, SteadyOn
<1>2. CASE ~u.dialog[d].observing
  <2>1. CancelDownload(u, d) = Closed(CancelActive(u, d), d)
    BY <1>2 DEF CancelDownload
  <2>2. Steady(u, CancelActive(u, d))
    BY CancelActiveSteady
  <2>3. Steady(CancelActive(u, d), Closed(CancelActive(u, d), d))
    BY <2>2, ClosedSteady DEF Steady, Fresh
  <2> QED BY <2>1, <2>2, <2>3, SteadyOn
<1> QED BY <1>1, <1>2

LEMMA OnContextSteady ==
  ASSUME NEW u, NEW d \in Dialogs, Shape(u)
  PROVE  Steady(u, OnContext(u, d))
<1>1. Steady(u, CancelActive(u, d)) /\ Steady(u, u)
  BY CancelActiveSteady DEF Steady, Fresh
<1>2. Steady(CancelActive(u, d), Closed(CancelActive(u, d), d))
  BY <1>1, ClosedSteady DEF Steady, Fresh
<1> QED BY <1>1, <1>2, SteadyOn DEF OnContext

LEMMA ProbeSteady ==
  ASSUME NEW u, Shape(u)
  PROVE  Steady(u, Probe(u))
<1> DEFINE found == u.config \in world.installed
           v == [u EXCEPT !.prefix = world.prefix, !.present = found]
           c == CancelCheck(v)
           x == CourierCancel(c, "checker")
           w == [x EXCEPT !.needed = FALSE, !.key = u.config]
<1>1. Probe(u) = Recompute(IF u.config = u.key THEN v ELSE w)
  <2>1. v.config = u.config
    BY DEF Shape, Fields
  <2> QED BY <2>1 DEF Probe
<1> HIDE DEF found
<1>2. Same(u, v)
  BY DEF Same, Shape, Fields
<1> HIDE DEF v
<1>3. Steady(u, v) /\ Steady(v, c)
  BY <1>2, SameSteady, CancelCheckSteady DEF Steady, Fresh
<1> HIDE DEF c
<1>4. Same(c, x)
  BY <1>3, CancelSame DEF Steady, Fresh, Shape
<1> HIDE DEF x
<1>5. Same(x, w)
  BY <1>4 DEF Same, Fields
<1> HIDE DEF w
<1>6. Steady(c, w)
  BY <1>3, <1>4, <1>5, SameOn, SameSteady DEF Steady, Fresh
<1> QED BY <1>1, <1>3, <1>6, SteadyOn, RecomputeSteady

LEMMA ContinueSteady ==
  ASSUME NEW u, NEW able, Shape(u)
  PROVE  Steady(u, ContinueAfterLauncherCheck(u, able))
<1> DEFINE v == [u EXCEPT !.checked = TRUE]
<1>1. Same(u, v)
  BY DEF Same, Shape, Fields
<1>2. ContinueAfterLauncherCheck(u, able) = IF u.checked THEN u
        ELSE IF u.launch THEN RecheckBeforeLaunch(v, able) ELSE v
  BY DEF ContinueAfterLauncherCheck
<1> HIDE DEF v
<1>3. Steady(u, v) /\ Steady(u, u)
  BY <1>1, SameSteady DEF Steady, Fresh
<1>4. Fresh(v, RecheckBeforeLaunch(v, able))
  BY <1>3, RecheckFresh DEF Steady, Fresh
<1>5. u.launch => Steady(u, RecheckBeforeLaunch(v, able))
  BY <1>3, <1>4 DEF Steady, Fresh, Going
<1> QED BY <1>2, <1>3, <1>5

\* An assignment that concerns neither.
LEMMA AssignSteady ==
  ASSUME NEW u, Shape(u), NEW x
  PROVE  /\ Steady(u, [u EXCEPT !.purpose = x]) /\ Steady(u, [u EXCEPT !.installing = x])
         /\ Steady(u, [u EXCEPT !.suspended = x]) /\ Steady(u, [u EXCEPT !.wine = x])
         /\ Steady(u, [u EXCEPT !.posted = x]) /\ Steady(u, [u EXCEPT !.failed = x])
         /\ \A y : /\ Steady(u, [u EXCEPT !.wine = x, !.failed = y])
                   /\ Steady(u, [u EXCEPT !.running[x] = y])
<1>1. /\ Same(u, [u EXCEPT !.purpose = x]) /\ Same(u, [u EXCEPT !.installing = x])
      /\ Same(u, [u EXCEPT !.suspended = x]) /\ Same(u, [u EXCEPT !.wine = x])
      /\ Same(u, [u EXCEPT !.posted = x]) /\ Same(u, [u EXCEPT !.failed = x])
  BY DEF Same, Shape, Fields
<1>2. \A y : /\ Same(u, [u EXCEPT !.wine = x, !.failed = y])
             /\ Same(u, [u EXCEPT !.running[x] = y])
  BY DEF Same, Shape, Fields
<1> QED BY <1>1, <1>2, SameSteady

LEMMA RepairSteady ==
  ASSUME NEW u, NEW able, Shape(u)
  PROVE  LET begun == Recompute([Close(u, "files") EXCEPT !.repairing = TRUE, !.needed = FALSE])
         IN  Steady(u, StartDownload(Open([begun EXCEPT !.suspended = TRUE], "repair"), "repair", able))
<1> DEFINE v == Close(u, "files")
           w == [v EXCEPT !.repairing = TRUE, !.needed = FALSE]
           x == Recompute(w)
           y == [x EXCEPT !.suspended = TRUE]
           z == Open(y, "repair")
<1>1. Steady(u, v)
  BY HideSteady
<1> HIDE DEF v
<1>2. Same(v, w) /\ Steady(v, w)
  <2>1. Same(v, w)
    BY <1>1 DEF Steady, Fresh, Same, Shape, Fields
  <2> QED BY <1>1, <2>1, SameSteady DEF Steady, Fresh
<1> HIDE DEF w
<1>3. Steady(u, x)
  BY <1>1, <1>2, SteadyOn, RecomputeSteady
<1> HIDE DEF x
<1>4. Steady(x, y)
  <2>1. Same(x, y)
    BY <1>3 DEF Steady, Fresh, Same, Shape, Fields
  <2> QED BY <1>3, <2>1, SameSteady DEF Steady, Fresh
<1> HIDE DEF y
<1>5. Steady(y, z)
  BY <1>4, HideSteady DEF Steady, Fresh
<1> HIDE DEF z
<1>6. Steady(z, StartDownload(z, "repair", able))
  BY <1>5, StartDownloadSteady DEF Steady, Fresh, Dialogs
<1>7. Steady(u, StartDownload(z, "repair", able))
  BY <1>3, <1>4, <1>5, <1>6, SteadyOn
<1> QED BY <1>7 DEF v, w, x, y, z

\* The same without a launch.
Off(u) == [u EXCEPT !.launch = FALSE]

Still(u, v) ==
  /\ DOMAIN v = Fields /\ v.launch = u.launch /\ v.check = u.check /\ v.op = u.op
  /\ v.transfer = u.transfer /\ v.stage = u.stage /\ v.config = u.config

LEMMA OffPosts ==
  ASSUME NEW u, DOMAIN u = Fields
  PROVE  /\ ConfigChanged(Off(u)) = Off(ConfigChanged(u))
         /\ Still(u, ConfigChanged(u))
<1> DEFINE P(v, d) == IF Stale(v, d) THEN [v EXCEPT !.posted = Append(@, Context(d))] ELSE v
<1>1. ASSUME NEW v, NEW d, DOMAIN v = Fields
      PROVE  P(Off(v), d) = Off(P(v, d)) /\ Still(v, P(v, d))
  <2>1. Stale(Off(v), d) <=> Stale(v, d)
    BY <1>1 DEF Stale, Off, Fields
  <2> DEFINE q == Append(v.posted, Context(d))
  <2>2. /\ [v EXCEPT !.posted = Append(@, Context(d))] = [v EXCEPT !.posted = q]
        /\ [Off(v) EXCEPT !.posted = Append(@, Context(d))] = [Off(v) EXCEPT !.posted = q]
    BY <1>1 DEF Off, Fields
  <2> HIDE DEF q
  <2>3. /\ [Off(v) EXCEPT !.posted = q] = Off([v EXCEPT !.posted = q])
        /\ Still(v, [v EXCEPT !.posted = q])
    BY <1>1 DEF Off, Still, Fields
  <2> QED BY <1>1, <2>1, <2>2, <2>3 DEF Still
<1>2. ASSUME NEW v, DOMAIN v = Fields
      PROVE  ScheduleProbe(Off(v)) = Off(ScheduleProbe(v)) /\ Still(v, ScheduleProbe(v))
  <2> DEFINE q == Append(v.posted, ProbeEvent)
  <2>1. /\ Off(v).posted = v.posted
        /\ [v EXCEPT !.posted = Append(@, ProbeEvent)] = [v EXCEPT !.posted = q]
        /\ [Off(v) EXCEPT !.posted = Append(@, ProbeEvent)] = [Off(v) EXCEPT !.posted = q]
    BY <1>2 DEF Off, Fields
  <2> HIDE DEF q
  <2>2. /\ [Off(v) EXCEPT !.posted = q] = Off([v EXCEPT !.posted = q])
        /\ Still(v, [v EXCEPT !.posted = q])
    BY <1>2 DEF Off, Still, Fields
  <2> QED BY <1>2, <2>1, <2>2 DEF ScheduleProbe, Still
<1>3. \A v : ConfigChanged(v) = ScheduleProbe(P(P(P(v, "update"), "repair"), "install"))
  BY DEF ConfigChanged
<1> HIDE DEF P
<1>4. P(Off(u), "update") = Off(P(u, "update")) /\ Still(u, P(u, "update"))
  BY <1>1
<1>5. /\ P(P(Off(u), "update"), "repair") = Off(P(P(u, "update"), "repair"))
      /\ Still(u, P(P(u, "update"), "repair"))
  BY <1>1, <1>4 DEF Still
<1>6. /\ P(P(P(Off(u), "update"), "repair"), "install") = Off(P(P(P(u, "update"), "repair"), "install"))
      /\ Still(u, P(P(P(u, "update"), "repair"), "install"))
  BY <1>1, <1>5 DEF Still
<1> QED BY <1>2, <1>3, <1>6 DEF Still

\* What a probe finds.
Probed(u) ==
  LET v == [u EXCEPT !.prefix = world.prefix, !.present = u.config \in world.installed]
  IN  IF u.config = u.key THEN v
      ELSE [CourierCancel(CancelCheck(v), "checker") EXCEPT !.needed = FALSE, !.key = u.config]

LEMMA ProbedIs ==
  ASSUME NEW u, DOMAIN u = Fields
  PROVE  Probe(u) = Recompute(Probed(u))
<1>1. [u EXCEPT !.prefix = world.prefix, !.present = u.config \in world.installed].config = u.config
  BY DEF Fields
<1> QED BY <1>1 DEF Probe, Probed

LEMMA OffProbed ==
  ASSUME NEW u, DOMAIN u = Fields, u.op = NoOp
  PROVE  Probed(Off(u)) = Off(Probed(u)) /\ Still(u, Probed(u))
<1> DEFINE found == u.config \in world.installed
           v == [u EXCEPT !.prefix = world.prefix, !.present = found]
           c == CourierCancel(v, "checker")
<1>1. Off(u).config = u.config /\ Off(u).key = u.key
  BY DEF Off, Fields
<1>2. /\ Still(u, v) /\ v.op = NoOp /\ Off(v).op = NoOp
      /\ [Off(u) EXCEPT !.prefix = world.prefix, !.present = found] = Off(v)
  <2> HIDE DEF found
  <2>1. Still(u, v) /\ v.op = NoOp /\ Off(v).op = NoOp
    BY DEF Off, Still, Fields
  <2>2. [Off(u) EXCEPT !.prefix = world.prefix, !.present = found] = Off(v)
    BY DEF Off, Fields
  <2> QED BY <2>1, <2>2
<1>3. Probed(u) = IF u.config = u.key THEN v ELSE [CourierCancel(CancelCheck(v), "checker") EXCEPT !.needed = FALSE, !.key = u.config]
  BY DEF Probed
<1>4. Probed(Off(u)) = IF u.config = u.key THEN Off(v) ELSE [CourierCancel(CancelCheck(Off(v)), "checker") EXCEPT !.needed = FALSE, !.key = u.config]
  BY <1>1, <1>2 DEF Probed
<1> HIDE DEF v
<1> USE DEF Still
<1>5. CancelCheck(v) = v /\ CancelCheck(Off(v)) = Off(v)
  BY <1>2 DEF CancelCheck
<1>6. CourierCancel(Off(v), "checker") = Off(c) /\ Still(v, c)
  <2> DEFINE q == Append(v.posted, Status(v.running["checker"], "cancelled"))
             w == [v EXCEPT !.running["checker"] = NoOp, !.posted = q]
  <2>1. /\ c = IF v.running["checker"] = NoOp THEN v ELSE w
        /\ CourierCancel(Off(v), "checker") = IF v.running["checker"] = NoOp THEN Off(v)
             ELSE [Off(v) EXCEPT !.running["checker"] = NoOp, !.posted = q]
    BY <1>2 DEF CourierCancel, Off, Fields
  <2> HIDE DEF q, c
  <2>2. /\ [Off(v) EXCEPT !.running["checker"] = NoOp, !.posted = q] = Off(w)
        /\ Still(v, w)
    BY <1>2 DEF Off, Fields
  <2> QED BY <1>2, <2>1, <2>2
<1> DEFINE no == FALSE
           k == u.config
<1> HIDE DEF c, no, k
<1>7. /\ [Off(c) EXCEPT !.needed = no, !.key = k] = Off([c EXCEPT !.needed = no, !.key = k])
      /\ Still(c, [c EXCEPT !.needed = no, !.key = k])
  <2>1. [Off(c) EXCEPT !.needed = no, !.key = k] = Off([c EXCEPT !.needed = no, !.key = k])
    BY <1>6 DEF Off, Fields
  <2>2. Still(c, [c EXCEPT !.needed = no, !.key = k])
    BY <1>6 DEF Fields
  <2> QED BY <2>1, <2>2
<1> QED BY <1>2, <1>3, <1>4, <1>5, <1>6, <1>7 DEF c, no, k

\* A change of the stage that no launch survives does as if there were none.
LEMMA LaunchDropped ==
  ASSUME NEW u, DOMAIN u = Fields, u.launch, Compute(u) # u.stage,
         Compute(u) \notin {"Ready"} \cup LaunchSurvives
  PROVE  Recompute(u) = Recompute(Off(u))
<1> DEFINE x == Off(u)
           k == Compute(u)
           busy == u.repairing \/ k \in {"Downloading", "Updating"}
           s == [u EXCEPT !.stage = k, !.suspended = busy]
           r == [x EXCEPT !.stage = k, !.suspended = busy]
           t == [u EXCEPT !.stage = k, !.suspended = busy, !.launch = FALSE]
           Rest(y) ==
             LET v == IF y.stage = "Ready" /\ y.dialog["update"].observing THEN Close(y, "update") ELSE y
             IN  IF v.repairing /\ Shows(v, "repair") THEN v ELSE ShowView(v)
<1>1. Findings(x) = Findings(u)
  BY DEF Findings, Off, Fields
<1>2. Compute(x) = k /\ x.stage = u.stage
  BY <1>1 DEF Compute, Off, Fields
<1> HIDE DEF k
<1>4. PICK b \in BOOLEAN : b = busy
  OBVIOUS
<1>5. Suspend([u EXCEPT !.stage = k]) = s /\ Suspend([x EXCEPT !.stage = k]) = r
  BY DEF Suspend, Off, Fields
<1>6. s.stage = k /\ r.stage = k /\ s.launch = TRUE /\ r.launch = FALSE
  BY DEF Off, Fields
<1>7. /\ [s EXCEPT !.launch = FALSE] = t
      /\ [r EXCEPT !.launch = FALSE] = t
  BY DEF Off, Fields
<1>8. k # "Ready" /\ k \notin LaunchSurvives
  BY DEF k
<1> HIDE DEF s, r, t, x
<1>9. StageChanged([u EXCEPT !.stage = k]) = Rest(t)
  <2>1. (s.launch /\ s.stage \in LaunchSurvives) = FALSE
    BY <1>6, <1>8
  <2>2. [s EXCEPT !.launch = s.launch /\ s.stage \in LaunchSurvives] = t
    BY <1>7, <2>1
  <2> QED BY <1>5, <1>6, <1>8, <2>2 DEF StageChanged
<1>10. StageChanged([x EXCEPT !.stage = k]) = Rest(t)
  <2>1. (r.launch /\ r.stage \in LaunchSurvives) = FALSE
    BY <1>6, <1>8
  <2>2. [r EXCEPT !.launch = r.launch /\ r.stage \in LaunchSurvives] = t
    BY <1>7, <2>1
  <2> QED BY <1>5, <1>6, <1>8, <2>2 DEF StageChanged
<1>11. Recompute(u) = StageChanged([u EXCEPT !.stage = k])
  BY DEF Recompute, k
<1>12. Recompute(x) = StageChanged([x EXCEPT !.stage = k])
  BY <1>2 DEF Recompute, k
<1> QED BY <1>9, <1>10, <1>11, <1>12 DEF x

\* The game is changed: a launch that waits ends with it, or goes on for the other game.
LEMMA SwitchIs ==
  ASSUME NEW u, NEW g \in Games, Good(u, NoOp), DOMAIN u.overlays = {}, ~u.repairing, u.game # g,
         world.prefix \in BOOLEAN
  PROVE  LET v == SetGame(u, g)
         IN  /\ ~v.launch => Good(v, NoOp) /\ v.wine = u.wine /\ v.check = "None"
             /\ v.launch => u.launch /\ v.config = g
<1>1. Idle(u, NoOp) /\ u.op = NoOp
  BY BareIsIdle
<1>2. u \in Uis /\ Fair(u, NoOp) /\ Fits(u) /\ Followed(u) /\ ~Shows(u, "files") /\ DOMAIN u = Fields
  BY UisShape DEF Good, Fair, Sound, Shows, Shape
<1>3. CASE ~u.launch
  BY <1>1, <1>2, <1>3, SetGameIs DEF Idle
<1>4. CASE u.launch
  <2> DEFINE o == Off(u)
             n == [u EXCEPT !.game = g, !.config = g]
             c == ConfigChanged(n)
             x == Probed(c)
             v == SetGame(u, g)
  <2>1. /\ DOMAIN o = Fields /\ o.game = u.game /\ o.wine = u.wine
        /\ [o EXCEPT !.game = g, !.config = g] = Off(n)
    BY <1>2 DEF Off, Fields
  <2>2. Good(o, NoOp) /\ ~o.launch /\ Idle(o, NoOp) /\ ~o.repairing /\ ~Shows(o, "files")
    BY <1>1, <1>2, UnwantedGood DEF Off, Unlaunched, Idle, Shows
  <2>3. /\ Good(SetGame(o, g), NoOp) /\ Idle(SetGame(o, g), NoOp) /\ SetGame(o, g).wine = u.wine
    BY <2>1, <2>2, SetGameIs DEF Good, Fair, Sound
  <2>4. /\ DOMAIN n = Fields /\ n.config = g /\ n.launch = u.launch /\ n.check = u.check
        /\ n.op = u.op /\ n.transfer = u.transfer /\ n.stage = u.stage
    BY <1>2 DEF Fields
  <2>5. v = Probe(c) /\ SetGame(o, g) = Probe(ConfigChanged(Off(n)))
    BY <2>1 DEF SetGame
  <2> HIDE DEF o, n
  <2>6. ConfigChanged(Off(n)) = Off(c) /\ Still(n, c)
    BY <2>4, OffPosts
  <2> HIDE DEF c, v
  <2>7. DOMAIN Off(c) = Fields
    BY <2>6 DEF Off, Still
  <2>8. Probed(Off(c)) = Off(x) /\ Still(n, x)
    BY <1>1, <2>4, <2>6, OffProbed DEF Still
  <2>9. v = Recompute(x) /\ SetGame(o, g) = Recompute(Off(x))
    BY <2>5, <2>6, <2>7, <2>8, ProbedIs DEF Still
  <2> HIDE DEF x
  <2>10. x.stage = "Ready" /\ x.launch /\ x.check = "None" /\ ~x.transfer /\ DOMAIN x = Fields
    <3>1. u.check = "None" /\ ~u.transfer
      BY <1>1 DEF Idle
    <3> QED BY <1>2, <1>4, <2>4, <2>8, <3>1, LaunchWaits DEF Still
  <2>11. v.config = g
    BY <2>4, <2>8, <2>9, <2>10, RecomputeSame DEF Same, Still
  <2> SUFFICES ASSUME ~v.launch
               PROVE  Good(v, NoOp) /\ v.wine = u.wine /\ v.check = "None"
    BY <1>4, <2>11 DEF v
  <2>12. Compute(x) # x.stage
    BY <2>9, <2>10 DEF Recompute
  <2>13. Compute(x) \notin {"CheckingUpdate", "Updating"}
    BY <2>10, ComputeIs
  <2>14. v = SetGame(o, g)
    BY <2>9, <2>10, <2>12, <2>13, LaunchDropped DEF LaunchSurvives
  <2> QED BY <2>3, <2>14 DEF Idle
<1> QED BY <1>3, <1>4

(***************************************************************************)
(* The actions                                                             *)
(***************************************************************************)
LEMMA IdsAreFree ==
  ASSUME HasIds
  PROVE  FreeIds(ui) # {}
  BY FS_EmptySet DEF HasIds

\* What every action's lemma starts from.
LEMMA Standpoint ==
  ASSUME Core, Loyal(ui)
  PROVE  /\ Good(ui, NoOp) /\ ui \in Uis /\ Shape(ui) /\ world.prefix \in BOOLEAN
         /\ world.installed \subseteq Games
<1>1. Good(ui, NoOp) /\ ui \in Uis
  BY DEF Core, Good, Sound
<1> QED BY <1>1, UisShape DEF Core, Disk

\* A launch that goes on is still one for the configured game.
LEMMA LoyalKept ==
  ASSUME Loyal(ui), Steady(ui, ui'), ~Strays, world.installed \subseteq world'.installed
  PROVE  Loyal(ui)'
<1> SUFFICES ASSUME Going(ui')
             PROVE  /\ Agrees(ui') /\ ui'.config \in world'.installed
                    /\ \A op \in Waited(ui') : op.game = ui'.config
  BY DEF Loyal, Going, Agrees, Waited
<1>1. Going(ui) /\ ui'.config = ui.config
  BY DEF Steady, Fresh
<1> QED BY <1>1 DEF Strays, Loyal, Steady, Fresh

\* A launch begins where the configured game is, and nobody waits.
LEMMA RequestLaunchKeeps ==
  ASSUME Core, Loyal(ui), RequestLaunch, ~Strays
  PROVE  Core' /\ Loyal(ui)' /\ ui'.wine = ui.wine
<1> DEFINE asked == [ui EXCEPT !.launch = TRUE]
<1>1. PICK able \in BOOLEAN, service \in BOOLEAN :
        ui' = IF ui.game \in ui.pending THEN Open(ui, "files")
              ELSE IF ui.checked         THEN RecheckBeforeLaunch(asked, able)
              ELSE IF ui.purpose # "None" THEN asked
              ELSE IF service            THEN [asked EXCEPT !.purpose = "Startup"]
              ELSE ContinueAfterLauncherCheck(asked, able)
  BY Zenon DEF RequestLaunch
<1>2. /\ ui.stage = "Ready" /\ world.prefix /\ FreeIds(ui) # {} /\ UNCHANGED <<reports, world>>
      /\ ui.config \in world.installed
  BY IdsAreFree DEF RequestLaunch, CanRun
<1>3. Good(ui', NoOp) /\ ui'.wine = ui.wine
  BY <1>1, <1>2, Standpoint, LaunchIs
<1>4. Waited(ui) = {}
  <2>1. ui \in Uis /\ Work(ui, NoOp) /\ Fits(ui)
    BY DEF Core, Good, Sound
  <2>2. ui.check = "None" /\ ~ui.transfer
    BY <1>2, <2>1 DEF Fits
  <2>3. \A d \in Dialogs : ~Holds(ui, NoOp, d)
    BY <2>1, <2>2 DEF Work, CheckHolds, TransferHolds, Dialogs
  <2>4. ui.op = NoOp /\ AllQuiet(ui)
    BY <2>1, <2>3, NobodyHolds
  <2> QED BY <2>4 DEF AllQuiet, Waited
<1>5. Shape(ui) /\ Shape(asked) /\ asked.config = ui.config /\ Waited(asked) = {}
  BY <1>4, Standpoint DEF Shape, Fields, Waited
<1> HIDE DEF asked
<1>6. Fresh(asked, ui') \/ Fresh(ui, ui')
  <2>1. Fresh(ui, Open(ui, "files"))
    BY <1>5, HideSteady DEF Steady
  <2>2. Fresh(asked, RecheckBeforeLaunch(asked, able)) /\ Fresh(asked, asked)
    BY <1>5, RecheckFresh DEF Fresh
  <2>3. Fresh(asked, [asked EXCEPT !.purpose = "Startup"])
    BY <1>5, AssignSteady DEF Steady
  <2>4. Fresh(asked, ContinueAfterLauncherCheck(asked, able))
    BY <1>5, ContinueSteady DEF Steady
  <2> QED BY <1>1, <2>1, <2>2, <2>3, <2>4
<1>7. ui'.config = ui.config /\ \A op \in Waited(ui') : op.game = ui.config
  BY <1>4, <1>5, <1>6 DEF Fresh
<1>8. Loyal(ui)'
  <2> SUFFICES ASSUME Going(ui')
               PROVE  /\ Agrees(ui') /\ ui'.config \in world'.installed
                      /\ \A op \in Waited(ui') : op.game = ui'.config
    BY DEF Loyal, Going, Agrees, Waited
  <2> QED BY <1>2, <1>7 DEF Strays
<1> QED BY <1>2, <1>3, <1>8, Kept

LEMMA ManageVersionsKeeps ==
  ASSUME Core, Loyal(ui), ManageVersions
  PROVE  Core' /\ Steady(ui, ui') /\ ui'.wine = ui.wine
<1>1. ui' = [ui EXCEPT !.purpose = "Manual"] /\ UNCHANGED <<reports, world>>
  BY DEF ManageVersions
<1>2. Good(ui', NoOp) /\ ui'.wine = ui.wine
  BY <1>1, Standpoint, PurposeIs
<1>4. Steady(ui, ui')
  BY <1>1, Standpoint, AssignSteady
<1> QED BY <1>1, <1>2, <1>4, Kept

LEMMA LauncherCheckedKeeps ==
  ASSUME Core, Loyal(ui), LauncherChecked
  PROVE  Core' /\ Steady(ui, ui') /\ ui'.wine = ui.wine
<1>1. PICK offer \in BOOLEAN, able \in BOOLEAN :
        LET idle == [ui EXCEPT !.purpose = "None"]
        IN  ui' = IF offer THEN Open(idle, "offer")
                  ELSE IF ui.purpose = "Startup" THEN ContinueAfterLauncherCheck(idle, able)
                  ELSE idle
  BY Zenon DEF LauncherChecked
<1>2. FreeIds(ui) # {} /\ UNCHANGED <<reports, world>>
  BY IdsAreFree DEF LauncherChecked
<1>3. Good(ui', NoOp) /\ ui'.wine = ui.wine
  BY <1>1, <1>2, Standpoint, LauncherCheckedIs
<1>4. Steady(ui, ui')
  <2> DEFINE idle == [ui EXCEPT !.purpose = "None"]
  <2>1. Steady(ui, idle)
    BY Standpoint, AssignSteady
  <2>2. ui' \in {Open(idle, "offer"), ContinueAfterLauncherCheck(idle, able), idle}
    BY <1>1
  <2> HIDE DEF idle
  <2>3. Steady(idle, Open(idle, "offer")) /\ Steady(idle, ContinueAfterLauncherCheck(idle, able))
    BY <2>1, HideSteady, ContinueSteady DEF Steady, Fresh
  <2> QED BY <2>1, <2>2, <2>3, SteadyOn
<1> QED BY <1>2, <1>3, <1>4, Kept

LEMMA PostponeKeeps ==
  ASSUME Core, Loyal(ui), Postpone
  PROVE  Core' /\ Steady(ui, ui') /\ ui'.wine = ui.wine
<1>1. PICK able \in BOOLEAN : ui' = ContinueAfterLauncherCheck(Close(ui, "offer"), able)
  BY Zenon DEF Postpone
<1>2. FreeIds(ui) # {} /\ UNCHANGED <<reports, world>>
  BY IdsAreFree DEF Postpone
<1>3. Good(ui', NoOp) /\ ui'.wine = ui.wine
  BY <1>1, <1>2, Standpoint, PostponeIs
<1>4. Steady(ui, ui')
  <2>1. Steady(ui, Close(ui, "offer"))
    BY Standpoint, HideSteady
  <2>2. Steady(Close(ui, "offer"), ui')
    BY <1>1, <2>1, ContinueSteady DEF Steady, Fresh
  <2> QED BY <2>1, <2>2, SteadyOn
<1> QED BY <1>2, <1>3, <1>4, Kept

\* A launch or a check that the change of the game does not end has strayed.
LEMMA SwitchGameKeeps ==
  ASSUME Core, Loyal(ui), SwitchGame, ~Strays
  PROVE  Core' /\ Loyal(ui)' /\ ui'.wine = ui.wine
<1>1. PICK g \in Games \ {ui.game} : ui' = SetGame(ui, g)
  BY Zenon DEF SwitchGame
<1>2. /\ UNCHANGED <<reports, world>> /\ DOMAIN ui.overlays = {} /\ ~ui.repairing
      /\ ui.stage # "CheckingUpdate"
  BY DEF SwitchGame, Bare, Switchable
<1>3. /\ ~ui'.launch => Good(ui', NoOp) /\ ui'.wine = ui.wine /\ ui'.check = "None"
      /\ ui'.launch => ui.launch /\ ui'.config = g
  BY <1>1, <1>2, Standpoint, SwitchIs
<1>4. ~ui'.launch
  BY <1>1, <1>3 DEF Strays, Going, Loyal, Agrees
<1>5. Loyal(ui)'
  BY <1>3, <1>4 DEF Loyal, Going
<1> QED BY <1>2, <1>3, <1>4, <1>5, Kept

LEMMA EditConfigKeeps ==
  ASSUME Core, Loyal(ui), EditConfig, ~Strays
  PROVE  Core' /\ Loyal(ui)' /\ ui'.wine = ui.wine
<1>1. PICK g \in Games \ {ui.config} : ui' = ConfigChanged([ui EXCEPT !.config = g])
  BY Zenon DEF EditConfig
<1>2. UNCHANGED <<reports, world>>
  BY DEF EditConfig
<1>3. /\ Good(ui', NoOp) /\ ui'.wine = ui.wine /\ ui'.config = g
      /\ ui'.launch = ui.launch /\ ui'.check = ui.check
  BY <1>1, Standpoint, EditIs
<1>4. ~Going(ui')
  BY <1>1, <1>3 DEF Strays, Going
<1>5. Loyal(ui)'
  BY <1>4 DEF Loyal, Going
<1> QED BY <1>2, <1>3, <1>5, Kept

LEMMA FilesChangedKeeps ==
  ASSUME Core, Loyal(ui), FilesChanged
  PROVE  Core' /\ Loyal(ui)' /\ ui'.wine = ui.wine
<1>1. PICK g \in world.installed : ui' = OnFilesChanged(ui, g)
  BY Zenon DEF FilesChanged
<1>2. UNCHANGED <<reports, world>> /\ g \in Games
  BY Standpoint DEF FilesChanged
<1>3. Good(ui', NoOp) /\ ui'.wine = ui.wine /\ (ui' # ui => ~ui'.launch /\ ui'.check = "None")
  BY <1>1, <1>2, Standpoint, FilesChangedIs
<1>4. Loyal(ui)'
  BY <1>2, <1>3 DEF Loyal, Going, Agrees, Waited
<1> QED BY <1>2, <1>3, <1>4, Kept

LEMMA RequestRepairKeeps ==
  ASSUME Core, Loyal(ui), RequestRepair
  PROVE  Core' /\ Steady(ui, ui') /\ ui'.wine = ui.wine
<1>1. PICK able \in BOOLEAN :
        LET begun == Recompute([Close(ui, "files") EXCEPT !.repairing = TRUE, !.needed = FALSE])
        IN  ui' = StartDownload(Open([begun EXCEPT !.suspended = TRUE], "repair"), "repair", able)
  BY Zenon DEF RequestRepair
<1>2. /\ FreeIds(ui) # {} /\ UNCHANGED <<reports, world>> /\ ui.wine = "idle"
      /\ Topmost(ui, "files")
  BY IdsAreFree DEF RequestRepair, OnTop, Topmost
<1>3. Good(ui', NoOp) /\ ui'.wine = ui.wine
  BY <1>1, <1>2, Standpoint, RequestRepairIs
<1>4. Steady(ui, ui')
  BY <1>1, Standpoint, RepairSteady
<1> QED BY <1>2, <1>3, <1>4, Kept

LEMMA CloseOverlayKeeps ==
  ASSUME Core, Loyal(ui), CloseOverlay
  PROVE  Core' /\ Steady(ui, ui') /\ ui'.wine = ui.wine
<1>1. PICK o \in {"files", "setup", "install"} : OnTop(o) /\ ui' = Close(ui, o)
  BY Zenon DEF CloseOverlay
<1>2. UNCHANGED <<reports, world>> /\ (o = "install" => ~ui.installing)
  BY <1>1 DEF CloseOverlay, InDialog
<1>3. Good(ui', NoOp) /\ ui'.wine = ui.wine
  BY <1>1, <1>2, Standpoint, CloseTopIs
<1>4. Steady(ui, ui')
  BY <1>1, Standpoint, HideSteady
<1> QED BY <1>2, <1>3, <1>4, Kept

LEMMA OpenForStageKeeps ==
  ASSUME Core, Loyal(ui), OpenForStage
  PROVE  Core' /\ Steady(ui, ui') /\ ui'.wine = ui.wine
<1>1. /\ FreeIds(ui) # {} /\ UNCHANGED <<reports, world>> /\ DOMAIN ui.overlays = {}
  BY IdsAreFree DEF OpenForStage, Bare
<1>2. CASE View(ui.stage) \in {"install", "setup"} /\ ui' = Open(ui, View(ui.stage))
  <2>1. Good(ui', NoOp) /\ ui'.wine = ui.wine
    BY <1>1, <1>2, Standpoint, ShowStageIs
  <2>2. Steady(ui, ui')
    BY <1>2, Standpoint, HideSteady
  <2> QED BY <1>1, <2>1, <2>2, Kept
<1>3. ASSUME NEW able \in BOOLEAN, ui.stage = "NeedsUpdate",
             ui' = StartDownload(Open(ui, "update"), "update", able)
      PROVE  Core' /\ Steady(ui, ui') /\ ui'.wine = ui.wine
  <2>1. Good(ui', NoOp) /\ ui'.wine = ui.wine
    BY <1>1, <1>3, Standpoint, UpdateIs
  <2>2. Steady(ui, Open(ui, "update"))
    BY Standpoint, HideSteady
  <2>3. Steady(Open(ui, "update"), ui')
    BY <1>3, <2>2, StartDownloadSteady DEF Steady, Fresh, Dialogs
  <2> QED BY <1>1, <2>1, <2>2, <2>3, SteadyOn, Kept
<1> QED BY <1>2, <1>3 DEF OpenForStage

LEMMA StartInstallKeeps ==
  ASSUME Core, Loyal(ui), StartInstall
  PROVE  Core' /\ Steady(ui, ui') /\ ui'.wine = ui.wine
<1>1. PICK able \in BOOLEAN : ui' = StartDownload([ui EXCEPT !.installing = TRUE], "install", able)
  BY Zenon DEF StartInstall
<1>2. /\ FreeIds(ui) # {} /\ UNCHANGED <<reports, world>> /\ ~ui.installing
      /\ Topmost(ui, "install")
  BY IdsAreFree DEF StartInstall, OnTop, Topmost
<1>3. Good(ui', NoOp) /\ ui'.wine = ui.wine
  BY <1>1, <1>2, Standpoint, InstallIs
<1>4. Steady(ui, ui')
  <2> DEFINE u == [ui EXCEPT !.installing = TRUE]
  <2>1. Steady(ui, u)
    <3>1. Same(ui, u)
      BY Standpoint DEF Same, Shape, Fields
    <3> QED BY <3>1, Standpoint, SameSteady
  <2> HIDE DEF u
  <2>2. Steady(u, StartDownload(u, "install", able))
    BY <2>1, StartDownloadSteady DEF Steady, Fresh, Dialogs
  <2> QED BY <1>1, <2>1, <2>2, SteadyOn DEF u
<1> QED BY <1>2, <1>3, <1>4, Kept

LEMMA RetryKeeps ==
  ASSUME Core, Loyal(ui), Retry
  PROVE  Core' /\ Steady(ui, ui') /\ ui'.wine = ui.wine
<1>1. PICK d \in Dialogs, able \in BOOLEAN : InDialog(d) /\ ui' = StartDownload(ui, d, able)
  BY Zenon DEF Retry
<1>2. /\ FreeIds(ui) # {} /\ UNCHANGED <<reports, world>>
      /\ Topmost(ui, d) /\ (d = "install" => ui.installing)
  BY <1>1, IdsAreFree DEF Retry, InDialog, OnTop, Topmost
<1>3. Good(ui', NoOp) /\ ui'.wine = ui.wine
  BY <1>1, <1>2, Standpoint, RetryIs
<1>4. Steady(ui, ui')
  BY <1>1, Standpoint, StartDownloadSteady
<1> QED BY <1>2, <1>3, <1>4, Kept

LEMMA CancelKeeps ==
  ASSUME Core, Loyal(ui), Cancel
  PROVE  Core' /\ Steady(ui, ui') /\ ui'.wine = ui.wine
<1>1. PICK d \in Dialogs : InDialog(d) /\ ui' = CancelDownload(ui, d)
  BY Zenon DEF Cancel
<1>2. UNCHANGED <<reports, world>> /\ Topmost(ui, d)
  BY <1>1 DEF Cancel, InDialog, OnTop, Topmost
<1>3. Good(ui', NoOp) /\ ui'.wine = ui.wine
  BY <1>1, <1>2, Standpoint, CancelDownloadIs
<1>4. Steady(ui, ui')
  BY <1>1, Standpoint, CancelDownloadSteady
<1> QED BY <1>2, <1>3, <1>4, Kept

LEMMA DismissErrorKeeps ==
  ASSUME Core, Loyal(ui), DismissError
  PROVE  Core' /\ Steady(ui, ui') /\ ui'.wine = ui.wine
<1>1. ui.failed /\ ui' = Probe([ui EXCEPT !.failed = FALSE]) /\ UNCHANGED <<reports, world>>
  BY DEF DismissError
<1>2. Good(ui', NoOp) /\ ui'.wine = ui.wine
  BY <1>1, Standpoint, DismissIs
<1>3. Steady(ui, ui')
  <2> DEFINE u == [ui EXCEPT !.failed = FALSE]
  <2>1. Steady(ui, u)
    <3>1. Same(ui, u)
      BY Standpoint DEF Same, Shape, Fields
    <3> QED BY <3>1, Standpoint, SameSteady
  <2> HIDE DEF u
  <2>2. Steady(u, Probe(u))
    BY <2>1, ProbeSteady DEF Steady, Fresh
  <2> QED BY <1>1, <2>1, <2>2, SteadyOn DEF u
<1> QED BY <1>1, <1>2, <1>3, Kept

LEMMA BeginSetupKeeps ==
  ASSUME Core, Loyal(ui), BeginSetup
  PROVE  Core' /\ Steady(ui, ui') /\ ui'.wine = "setup"
<1>1. /\ ui' = Recompute([ui EXCEPT !.wine = "setup"]) /\ UNCHANGED <<reports, world>>
      /\ ui.wine = "idle" /\ Switchable
      /\ Topmost(ui, "setup") \/ DOMAIN ui.overlays = {}
  BY DEF BeginSetup, OnTop, Topmost, Bare
<1>2. Good(ui', NoOp) /\ ui'.wine = "setup"
  BY <1>1, Standpoint, SetupIs DEF Switchable
<1>3. Steady(ui, ui')
  BY <1>1, Standpoint, AssignSteady, RecomputeSteady
<1> QED BY <1>1, <1>2, <1>3, Kept

LEMMA CommandEndsKeeps ==
  ASSUME Core, Loyal(ui), CommandEnds
  PROVE  Core' /\ Steady(ui, ui') /\ ui'.wine = "idle" /\ world'.installed = world.installed
<1>1. /\ ui.wine # "idle" /\ UNCHANGED reports
      /\ ui' \in {Recompute([ui EXCEPT !.wine = "idle", !.failed = TRUE]),
                  ScheduleProbe([ui EXCEPT !.wine = "idle", !.failed = FALSE])}
  BY DEF CommandEnds
<1>2. PICK prefix \in IF ui.wine = "setup" THEN BOOLEAN ELSE {world.prefix} :
        world' = [world EXCEPT !.prefix = prefix]
  BY DEF CommandEnds
<1>3. /\ Good(ui', NoOp) /\ ui'.wine = "idle" /\ ui'.check = "None" /\ ~ui'.launch
      /\ ~Shows(ui', "update") /\ ~Shows(ui', "install")
      /\ ui.wine = "setup" => ui'.stage \in {"SettingUpPrefix", "Failed"}
  BY <1>1, Standpoint, CommandEndsIs
<1>4. Disk
  BY DEF Core
<1>5. /\ world'.installed = world.installed /\ world'.prefix = prefix /\ prefix \in BOOLEAN
      /\ world' \in [installed : SUBSET Games, prefix : BOOLEAN]
      /\ (ui.wine # "setup" => world'.prefix = world.prefix)
  BY <1>2, <1>4 DEF Disk
<1>6. Standing(ui') /\ Reported(ui', NoOp)
  BY <1>3 DEF Good, Sound, Standing
<1>7. Reported(ui, NoOp)'
  BY <1>1, <1>6 DEF Reported, Coming, Holds
<1>8. Good(ui, NoOp)'
  BY <1>3, <1>5, <1>6, <1>7, Carried
<1>9. Disk'
  BY <1>1, <1>4, <1>5 DEF Disk, Saying, Operation, Outcomes
<1>10. Steady(ui, ui')
  <2>1. ASSUME NEW failed \in BOOLEAN
        PROVE  Steady(ui, [ui EXCEPT !.wine = "idle", !.failed = failed])
    BY Standpoint, AssignSteady
  <2>2. Steady(ui, [ui EXCEPT !.wine = "idle", !.failed = TRUE])
    BY <2>1
  <2> DEFINE u == [ui EXCEPT !.wine = "idle", !.failed = FALSE]
  <2>3. Steady(ui, u)
    BY <2>1
  <2> HIDE DEF u
  <2>4. Steady(u, ScheduleProbe(u))
    BY <2>3, CancelSame, SameSteady DEF Steady, Fresh, Shape
  <2>5. Steady(ui, ScheduleProbe(u))
    BY <2>3, <2>4, SteadyOn
  <2> QED BY <1>1, <2>2, <2>5, RecomputeSteady DEF u
<1> QED BY <1>3, <1>5, <1>8, <1>9, <1>10 DEF Core

\* What an event says of a check's operation is what can be said of it.
LEMMA EventSteady ==
  ASSUME Core, Loyal(ui), HandleEvent
  PROVE  Steady(ui, ui')
<1> DEFINE e == Head(ui.posted)
           u == [ui EXCEPT !.posted = Tail(@)]
<1>1. PICK able \in BOOLEAN :
        ui' = CASE e.event = "status"  -> Report(u, e, able)
                [] e.event = "context" -> OnContext(u, e.dialog)
                [] e.event = "probe"   -> Probe(u)
  BY Zenon DEF HandleEvent
<1>2. ui.posted # <<>> /\ e \in Events
  BY Standpoint, PoppedIs DEF HandleEvent
<1>3. Steady(ui, u) /\ u.op = ui.op /\ u.check = ui.check
  <2>1. Same(ui, u)
    BY Standpoint DEF Same, Shape, Fields
  <2> QED BY <2>1, Standpoint, SameSteady DEF Same
<1>4. Shape(u)
  BY <1>3 DEF Steady, Fresh
<1> HIDE DEF e, u
<1>5. CASE e \in Statuses
  <2>1. /\ e.event = "status" /\ e.op \in Operation /\ Saying(e.op, e.what) /\ e.what \in Said
        /\ e = Status(e.op, e.what)
    BY <1>5 DEF Statuses, Status
  <2>2. CheckHolds(ui, NoOp)
    BY DEF Core, Good, Sound, Work
  <2>3. Answers(u, e.op, e.what)
    <3> SUFFICES ASSUME e.op = ui.op, e.what \notin {"working", "cancelled"}
                 PROVE  \/ ui.check = "Version" /\ e.what \in {"ok", "outdated", "failed"}
                        \/ ui.check = "Integrity" /\ e.what \in {"ok", "damaged", "failed"}
      BY <1>3 DEF Answers
    <3>1. ui.check \in {"Version", "Integrity"}
      BY <2>1, <2>2, NoOpIsNone, Standpoint DEF CheckHolds, Uis
    <3>2. e.what \in Outcomes(ui.op.kind)
      BY <2>1 DEF Saying
    <3> QED BY <2>2, <3>1, <3>2 DEF CheckHolds, Outcomes
  <2>4. Steady(u, Report(u, Status(e.op, e.what), able))
    BY <1>4, <2>1, <2>3, ReportSteady
  <2> QED BY <1>1, <1>3, <2>1, <2>4, SteadyOn
<1>6. CASE e = ProbeEvent
  <2>1. ui' = Probe(u)
    BY <1>1, <1>6 DEF ProbeEvent
  <2> QED BY <1>3, <1>4, <2>1, ProbeSteady, SteadyOn
<1>7. ASSUME NEW d \in Dialogs, e = Context(d)
      PROVE  Steady(ui, ui')
  <2>1. ui' = OnContext(u, d)
    BY <1>1, <1>7 DEF Context
  <2> QED BY <1>3, <1>4, <2>1, OnContextSteady, SteadyOn
<1> QED BY <1>2, <1>5, <1>6, <1>7 DEF Events, Contexts

\* The one step that starts the game.
LEMMA HandleEventKeeps ==
  ASSUME Core, Loyal(ui), HandleEvent
  PROVE  /\ Core' /\ Steady(ui, ui')
         /\ ui'.wine # ui.wine => /\ \E op \in ui.active :
                                       /\ ui.posted # <<>> /\ Head(ui.posted) = Status(op, "ok")
                                       /\ op.kind # "version" /\ op.game = ui.config
                                  /\ ui.config \notin ui.pending
<1>1. PICK able \in BOOLEAN :
        LET e == Head(ui.posted)
            u == [ui EXCEPT !.posted = Tail(@)]
        IN  ui' = CASE e.event = "status"  -> Report(u, e, able)
                    [] e.event = "context" -> OnContext(u, e.dialog)
                    [] e.event = "probe"   -> Probe(u)
  BY Zenon DEF HandleEvent
<1>2. ui.posted # <<>> /\ FreeIds(ui) # {} /\ UNCHANGED <<reports, world>>
  BY DEF HandleEvent
<1>3. /\ Good(ui', NoOp)
      /\ ui'.wine # ui.wine =>
           /\ \E op \in ui.active : Head(ui.posted) = Status(op, "ok") /\ op.kind # "version"
           /\ ui.launch /\ ui.game \notin ui.pending
  BY <1>1, <1>2, Standpoint, EventIs
<1>4. ui.launch => Agrees(ui) /\ \A op \in ui.active : op.game = ui.config
  <2>1. ui.active \subseteq Waited(ui)
    <3>1. ui \in Uis /\ Work(ui, NoOp)
      BY DEF Core, Good, Sound
    <3>2. NoOp \notin ui.active
      BY <3>1, NoOpIsNone DEF Uis
    <3> QED BY <3>1, <3>2 DEF Work
  <2> QED BY <2>1 DEF Loyal, Going
<1> QED BY <1>2, <1>3, <1>4, Kept, EventSteady DEF Agrees

(***************************************************************************)
(* The specification                                                       *)
(***************************************************************************)
\* What the game may be started by.
Verified ==
  ~strayed' /\ ui.wine # "game" /\ ui'.wine = "game" =>
    /\ \E op \in ui.active :
         /\ ui.posted # <<>> /\ Head(ui.posted) = Status(op, "ok")
         /\ op.kind # "version" /\ op.game = ui.config
    /\ ui.config \notin ui.pending

LEMMA InitKeeps == Init => IInv
<1> SUFFICES ASSUME Init PROVE IInv
  OBVIOUS
<1>1. /\ reports = {} /\ world.installed \subseteq Games /\ world.prefix = TRUE
      /\ world \in [installed : SUBSET Games, prefix : BOOLEAN]
  BY DEF Init
<1> DEFINE Begun(g, found) ==
             [config |-> g, game |-> g, key |-> g, launch |-> FALSE, checked |-> FALSE,
              pending |-> {}, repairing |-> FALSE, suspended |-> FALSE,
              overlays |-> <<>>, installing |-> FALSE, view |-> "loading", purpose |-> "None",
              prefix |-> world.prefix, present |-> found,
              wine |-> "idle", failed |-> FALSE,
              needed |-> FALSE, check |-> "None", op |-> NoOp, transfer |-> FALSE,
              dialog |-> [d \in Dialogs |-> NoDownload], active |-> {},
              running |-> [c \in Couriers |-> NoOp], posted |-> <<>>, stage |-> "Failed"]
<1>2. PICK g \in Games : ui = Recompute(Begun(g, g \in world.installed))
  BY Zenon DEF Init
<1>3. PICK found \in BOOLEAN : found <=> g \in world.installed
  OBVIOUS
<1>4. (g \in world.installed) = found
  BY <1>3
<1> DEFINE u == Begun(g, found)
<1>5. ui = Recompute(u)
  BY <1>2, <1>4
<1>6. /\ u.config = g /\ u.game = g /\ u.key = g /\ u.launch = FALSE /\ u.checked = FALSE
      /\ u.pending = {} /\ u.repairing = FALSE /\ u.suspended = FALSE /\ u.overlays = <<>>
      /\ u.installing = FALSE /\ u.view = "loading" /\ u.purpose = "None" /\ u.prefix = TRUE
      /\ u.present = found
  BY <1>1
<1>7. /\ u.wine = "idle" /\ u.failed = FALSE /\ u.needed = FALSE /\ u.check = "None"
      /\ u.op = NoOp /\ u.transfer = FALSE /\ u.dialog = [d \in Dialogs |-> NoDownload]
      /\ u.active = {} /\ u.posted = <<>> /\ u.stage = "Failed"
  OBVIOUS
<1>8. u \in Uis
  <2>1. <<>> \in Stacks
    <3>1. <<>> \in [{} -> SUBSET Overlays]
      OBVIOUS
    <3> QED BY <3>1, StackTypes
  <2>2. [d \in Dialogs |-> NoDownload] \in [Dialogs -> DialogStates]
    BY NoOpIsNone DEF NoDownload, DialogStates
  <2>3. [c \in Couriers |-> NoOp] \in [Couriers -> OpsOrNone]
    BY NoOpIsNone
  <2>4. <<>> \in Seq(Events)
    OBVIOUS
  <2> QED BY <1>1, <2>1, <2>2, <2>3, <2>4, NoOpIsNone DEF Uis, Stages
<1> HIDE DEF u, Begun
<1>9. DOMAIN u.overlays = {} /\ \A o : ~Shows(u, o)
  BY <1>6 DEF Shows
<1>10. AllQuiet(u)
  BY <1>7 DEF AllQuiet, NoDownload
<1>11. Work(u, NoOp) /\ Reported(u, NoOp)
  BY <1>7, <1>10, QuietWork
<1>12. Place(u)
  BY <1>3, <1>6, <1>7 DEF Place
<1>13. Layers(u, NoOp)
  <2>1. \A d \in Dialogs : ~Holds(u, NoOp, d)
    BY <1>10 DEF AllQuiet, Holds
  <2> QED BY <1>6, <1>7, <1>9, <2>1 DEF Layers, Ordered, Dialogs
<1>14. Sound(u, NoOp) /\ Updatable(u) /\ Followed(u)
  BY <1>6, <1>7, <1>8, <1>11, <1>12, <1>13 DEF Sound, Updatable, Followed
<1>15. Compute(u) # u.stage
  BY <1>6, <1>7, ComputeIs
<1>16. Changed(u, ui, NoOp) /\ Viewed(ui)
  BY <1>5, <1>8, <1>14, <1>15, RecomputeIs
<1>17. Installed(ui) /\ RepairShown(ui)
  BY <1>1, <1>6, <1>9, <1>16 DEF Changed, Moved, Staged, Installed, RepairShown
<1>18. Good(ui, NoOp)
  BY <1>16, <1>17 DEF Changed, Moved, Good
<1>19. Disk
  BY <1>1 DEF Disk
<1>20. Same(u, ui)
  BY <1>5, <1>8, RecomputeSame, UisShape DEF Shape
<1>21. Loyal(ui)
  BY <1>6, <1>7, <1>20 DEF Same, Loyal, Going
<1> QED BY <1>18, <1>19, <1>21 DEF IInv, Core

LEMMA PostSteady ==
  ASSUME Core, Loyal(ui), Post
  PROVE  Steady(ui, ui')
<1>1. PICK r \in reports : ui' = [ui EXCEPT !.posted = Append(@, Status(r.op, r.what))]
  BY DEF Post
<1>2. Same(ui, ui')
  BY <1>1, Standpoint DEF Same, Shape, Fields
<1> QED BY <1>2, Standpoint, SameSteady

LEMMA ThreadSteady ==
  ASSUME Core, Loyal(ui), NEW c \in Couriers, Progress(c) \/ Finish(c)
  PROVE  Steady(ui, ui')
<1>1. ui' = ui \/ ui' = [ui EXCEPT !.running[c] = NoOp]
  BY DEF Progress, Finish
<1>2. Same(ui, ui')
  BY <1>1, Standpoint DEF Same, Shape, Fields
<1> QED BY <1>2, Standpoint, SameSteady

\* Nobody takes a game from the disk.
LEMMA Grows ==
  ASSUME Core, Loyal(ui), Event
  PROVE  world.installed \subseteq world'.installed
<1>1. CASE CommandEnds
  BY <1>1, CommandEndsKeeps
<1>2. ASSUME NEW c \in Couriers, Progress(c) \/ Finish(c)
      PROVE  world.installed \subseteq world'.installed
  BY <1>2 DEF Progress, Finish, Core, Disk
<1>3. CASE \/ RequestLaunch \/ ManageVersions \/ LauncherChecked \/ Postpone \/ SwitchGame
           \/ EditConfig \/ FilesChanged \/ RequestRepair \/ CloseOverlay \/ OpenForStage
  BY <1>3 DEF RequestLaunch, ManageVersions, LauncherChecked, Postpone, SwitchGame,
              EditConfig, FilesChanged, RequestRepair, CloseOverlay, OpenForStage
<1>4. CASE StartInstall \/ Retry \/ Cancel \/ DismissError \/ HandleEvent \/ BeginSetup \/ Post
  BY <1>4 DEF StartInstall, Retry, Cancel, DismissError, HandleEvent, BeginSetup, Post
<1> QED BY <1>1, <1>2, <1>3, <1>4 DEF Event

LEMMA EventKeeps ==
  ASSUME Core, Loyal(ui), Event, ~Strays
  PROVE  Core' /\ Loyal(ui)' /\ Verified
<1>1. world.installed \subseteq world'.installed
  BY Grows
<1>2. CASE RequestLaunch
  BY <1>2, RequestLaunchKeeps DEF Verified
<1>3. CASE SwitchGame
  BY <1>3, SwitchGameKeeps DEF Verified
<1>4. CASE EditConfig
  BY <1>4, EditConfigKeeps DEF Verified
<1>5. CASE FilesChanged
  BY <1>5, FilesChangedKeeps DEF Verified
<1>6. ASSUME Core', Steady(ui, ui'), ui'.wine = ui.wine \/ ui'.wine # "game"
      PROVE  Core' /\ Loyal(ui)' /\ Verified
  BY <1>1, <1>6, LoyalKept DEF Verified
<1>7. CASE ManageVersions
  BY <1>6, <1>7, ManageVersionsKeeps
<1>8. CASE LauncherChecked
  BY <1>6, <1>8, LauncherCheckedKeeps
<1>9. CASE Postpone
  BY <1>6, <1>9, PostponeKeeps
<1>10. CASE RequestRepair
  BY <1>6, <1>10, RequestRepairKeeps
<1>11. CASE CloseOverlay
  BY <1>6, <1>11, CloseOverlayKeeps
<1>12. CASE OpenForStage
  BY <1>6, <1>12, OpenForStageKeeps
<1>13. CASE StartInstall
  BY <1>6, <1>13, StartInstallKeeps
<1>14. CASE Retry
  BY <1>6, <1>14, RetryKeeps
<1>15. CASE Cancel
  BY <1>6, <1>15, CancelKeeps
<1>16. CASE DismissError
  BY <1>6, <1>16, DismissErrorKeeps
<1>17. CASE HandleEvent
  BY <1>1, <1>17, HandleEventKeeps, LoyalKept DEF Verified
<1>18. CASE BeginSetup
  BY <1>6, <1>18, BeginSetupKeeps
<1>19. CASE CommandEnds
  BY <1>6, <1>19, CommandEndsKeeps
<1>20. CASE Post
  BY <1>6, <1>20, PostKeeps, PostSteady
<1>21. ASSUME NEW c \in Couriers, Progress(c) \/ Finish(c)
       PROVE  Core' /\ Loyal(ui)' /\ Verified
  BY <1>6, <1>21, ProgressKeeps, FinishKeeps, ThreadSteady
<1> QED BY <1>2, <1>3, <1>4, <1>5, <1>7, <1>8, <1>9, <1>10, <1>11, <1>12, <1>13, <1>14, <1>15,
           <1>16, <1>17, <1>18, <1>19, <1>20, <1>21 DEF Event

\* What has strayed is nothing to the invariant.
LEMMA NextKeeps ==
  ASSUME IInv, [Next]_vars
  PROVE  IInv' /\ Verified
<1>1. CASE strayed'
  BY <1>1 DEF IInv, Verified
<1>2. CASE UNCHANGED vars /\ ~strayed'
  <2>1. Core /\ Loyal(ui) /\ ui' = ui /\ UNCHANGED <<reports, world>>
    BY <1>2 DEF vars, IInv
  <2>2. Core'
    BY <2>1, Kept DEF Core
  <2>3. Loyal(ui)'
    BY <2>1 DEF Loyal, Going, Agrees, Waited
  <2> QED BY <2>1, <2>2, <2>3 DEF IInv, Verified
<1>3. CASE Next /\ ~strayed'
  <2>1. Core /\ Loyal(ui) /\ Event /\ ~Strays
    BY <1>3 DEF Next, IInv
  <2> QED BY <2>1, EventKeeps DEF IInv
<1> QED BY <1>1, <1>2, <1>3

\* What the invariant says, as the properties of Prelaunch put it.
LEMMA Consequences ==
  ASSUME IInv
  PROVE  OperationShown /\ NothingBeside /\ Answered
<1> SUFFICES ASSUME ~strayed
             PROVE  OperationShown /\ NothingBeside /\ Answered
  BY DEF OperationShown, NothingBeside, Answered
<1>0. Core
  BY DEF IInv
<1>1. /\ ui \in Uis /\ Work(ui, NoOp) /\ Reported(ui, NoOp) /\ Place(ui) /\ Layers(ui, NoOp)
      /\ Fits(ui) /\ Followed(ui)
  BY <1>0 DEF Core, Good, Sound
<1>2. NoOp \notin ui.active
  BY <1>1, NoOpIsNone DEF Uis
<1>3. ui.active = Waited(ui)
  BY <1>1, <1>2 DEF Work, Waited
<1>4. CheckShown
  BY <1>1 DEF Work, CheckHolds, CheckShown
<1>5. TransferShown
  <2>1. \A d \in Dialogs : ui.dialog[d].op \in ui.active <=> ui.dialog[d].op # NoOp
    BY <1>3 DEF Waited
  <2> QED BY <1>1, <2>1 DEF Work, TransferHolds, Holds, TransferShown
<1>6. WatcherSuspended
  <2>1. CASE ui.failed
    BY <1>1, <2>1 DEF Place, Followed, WatcherSuspended
  <2>2. CASE ~ui.failed
    BY <1>1, <2>2 DEF Fits, Followed, WatcherSuspended
  <2> QED BY <2>1, <2>2
<1>7. OneAtATime
  BY <1>1 DEF Work, TransferHolds, Place, OneAtATime
<1>8. TypeOK
  <2>1. Disk
    BY <1>0 DEF Core
  <2>2. DOMAIN ui.overlays \subseteq Overlays
    BY <1>1, StackTypes DEF Uis
  <2>3. \A b \in {ui.launch, ui.checked, ui.repairing, ui.suspended, ui.installing, ui.prefix,
                  ui.present, ui.failed, ui.needed, ui.transfer} : b \in BOOLEAN
    BY <1>1 DEF Uis
  <2>4. /\ ui.config \in Games /\ ui.game \in Games /\ ui.key \in Games
        /\ ui.pending \in SUBSET Games /\ ui.purpose \in {"None", "Startup", "Manual"}
        /\ ui.wine \in {"idle", "setup", "game"}
        /\ ui.check \in {"None", "Version", "Integrity"} /\ ui.op \in OpsOrNone
        /\ ui.active \in SUBSET Operation /\ ui.running \in [Couriers -> OpsOrNone]
        /\ ui.stage \in Stages
    BY <1>1 DEF Uis
  <2>5. ui.dialog \in [Dialogs -> [op : OpsOrNone, observing : BOOLEAN, retry : BOOLEAN]]
    BY <1>1 DEF Uis, DialogStates
  <2> QED BY <2>1, <2>2, <2>3, <2>4, <2>5 DEF TypeOK, Disk
<1>9. Answered
  <2> SUFFICES ASSUME NEW op \in Waited(ui)
               PROVE  op \in ui.active /\ \E c \in Couriers : Coming(ui, c, op)
    BY DEF Answered, Waited, Coming
  <2>1. op \in ui.active
    BY <1>3
  <2>2. "checker" \in Couriers /\ Dialogs \subseteq Couriers
    BY DEF Couriers
  <2>3. CASE op = ui.op
    BY <1>1, <2>1, <2>2, <2>3, <1>2 DEF Reported
  <2>4. ASSUME NEW d \in Dialogs, op = ui.dialog[d].op, op # ui.op
        PROVE  \E c \in Couriers : Coming(ui, c, op)
    <3>1. ~ui.dialog[d].observing
      BY <1>1, <1>2, <2>1, <2>4 DEF Work, CheckHolds, Dialogs
    <3>2. Holds(ui, NoOp, d)
      BY <1>2, <2>1, <2>4 DEF Holds
    <3> QED BY <1>1, <2>2, <2>4, <3>1, <3>2 DEF Reported
  <2> QED BY <2>1, <2>3, <2>4 DEF Waited
<1> QED BY <1>4, <1>5, <1>6, <1>7, <1>8, <1>9 DEF OperationShown, NothingBeside

\* In every state, however many games there are, a launch has strayed or the inductive
\* invariant holds: what goes on fits together, and is for the configured game.
THEOREM PrelaunchInvariant == Spec => []IInv
<1>1. Init => IInv
  BY InitKeeps
<1>2. IInv /\ [Next]_vars => IInv'
  BY NextKeeps
<1> QED BY <1>1, <1>2, PTL DEF Spec

\* Unless a launch has strayed, the dialogs and the stage show the operation that goes on and
\* no other.
THEOREM ShownOperations == Spec => []OperationShown
<1>1. IInv => OperationShown
  BY Consequences
<1> QED BY <1>1, PrelaunchInvariant, PTL

\* Unless a launch has strayed, no check goes on beside a transfer or the game, the watcher
\* does not watch what the launcher itself is changing, and every variable keeps its type.
THEOREM Alone == Spec => []NothingBeside
<1>1. IInv => NothingBeside
  BY Consequences
<1> QED BY <1>1, PrelaunchInvariant, PTL

\* Unless a launch has strayed, whoever waits for an operation is answered: its last report is
\* still to come.
THEOREM AllAnswered == Spec => []Answered
<1>1. IInv => Answered
  BY Consequences
<1> QED BY <1>1, PrelaunchInvariant, PTL

\* With any number of games, switched and edited at any time, a launch that has not strayed
\* starts nothing but on good news of that very game, from an operation that is still waited
\* for and that verifies its files, and not while a repair of it is due.
THEOREM VerifiedLaunches == Spec => LaunchVerified
<1>1. IInv /\ [Next]_vars => [Verified]_vars
  BY NextKeeps
<1> QED BY <1>1, PrelaunchInvariant, PTL DEF Spec, LaunchVerified, Verified
=============================================================================
