--------------------------- MODULE OnboardingProofs ---------------------------
(***************************************************************************)
(* From the first start to the game, for either sort of document, any      *)
(* countdown, and however much the sign-in lets queue up: the rules are    *)
(* read before they count as read, an account is stored by the attempt that*)
(* is under way, and but for the dead ends that Onboarding names the user  *)
(* always has a control that leads on.                                     *)
(*                                                                         *)
(* An event of the user interface is a composition of operators on the     *)
(* value of ui.  So the inductive invariant is a predicate on such values, *)
(* and there is one lemma per operator.                                    *)
(***************************************************************************)
EXTENDS Onboarding, TLAPS, WellFoundedInduction

Configs == [DOMAIN Empty -> BOOLEAN]

Prefixes == {"none", "incomplete", "ready"}

Disked == [prefix : Prefixes, game : BOOLEAN, rules : Documents \cup {NoDocument}]

Seens == [config : Configs, prefix : Prefixes, game : BOOLEAN]

Views == SetupBoxes \cup {"loading", "error", "chooser"}

Events == {Callback, Due, Overdue}

Stacks == UNION {[S -> SUBSET Boxed] : S \in SUBSET Boxed}

Uis ==
  [config : Configs, read : BOOLEAN, disk : Disked, seen : Seens, probed : BOOLEAN,
   reviewed : BOOLEAN, signing : BOOLEAN, wine : BOOLEAN, transfer : BOOLEAN,
   failed : {"none", "auth", "wine"}, stage : Stages, view : Views, open : Stacks,
   message : BOOLEAN, muted : BOOLEAN, damaged : BOOLEAN, repairing : BOOLEAN, box : Boxes,
   pending : BOOLEAN, scheduled : BOOLEAN, posted : Seq(Events), changed : BOOLEAN,
   probe : BOOLEAN]

(***************************************************************************)
(* What has been seen, and what is so                                      *)
(***************************************************************************)
\* A look at the configuration and the disk is due, or there is nothing to look at.
Lag(u) == u.changed \/ u.probe \/ ~u.config.language

\* A factory reset has wiped what was seen last.
Old(u) == u.seen.config.prerequisites /\ ~u.config.prerequisites

\* The prerequisites are behind the user, and it has been seen.
Past(u) == u.config.language /\ u.config.prerequisites /\ u.seen.config.prerequisites /\ u.probed

SigningIn(u) == u.pending \/ u.signing \/ u.scheduled

Installing(u) == u.transfer /\ ~u.repairing

Seen(u) ==
  /\ u.wine \/ u.failed # "none" \/ SigningIn(u) \/ Installing(u) => Past(u)
  /\ SigningIn(u) => u.seen.game
  /\ u.pending => ~u.scheduled
  /\ u.repairing => u.transfer /\ u.config.language
  /\ u.failed # "none" => u.message \/ u.muted
  /\ ~u.probed => ~u.seen.config.prerequisites /\ ~u.seen.config.rules
  /\ u.probed /\ ~Old(u) => u.seen.game = u.disk.game
  /\ u.seen.config.runtime /\ ~Old(u) => u.config.runtime
  /\ ~Lag(u) => u.probed /\ u.seen.config.prerequisites = u.config.prerequisites
  /\ u.config.rules \/ u.config.runtime => u.config.prerequisites
  /\ u.seen.config.runtime => u.seen.config.prerequisites
  /\ Old(u) => /\ u.probed /\ u.seen.config.runtime /\ u.seen.prefix = "ready" /\ u.seen.game
               /\ Lag(u)

\* What was read, as far as it matters.
Honest(u) ==
  /\ u.reviewed \/ u.config.rules => u.read
  /\ u.seen.config.rules /\ ~u.read => Old(u)

\* The countdown of rules that are shown has not run faster than the clock.
Countdown(u) ==
  /\ u.box.scrolled => u.box.elapsed = Cooldown
  /\ Shows(u, "rules") => u.box.left + u.box.elapsed >= Cooldown

(***************************************************************************)
(* The boxes                                                               *)
(***************************************************************************)
Late == {"runtime", "prefix", "game", "rules"}

Stacked(S) ==
  /\ \A T \in SUBSET DOMAIN S : T # {} => \E o \in T : T \ {o} \subseteq S[o]
  /\ \A x \in DOMAIN S : S[x] \subseteq DOMAIN S
  /\ \A x, y \in DOMAIN S : x \in S[y] => y \notin S[x]

\* The dialog of the game is there while the game is not.
GameFits(u) ==
  Shows(u, "game") => /\ ~u.seen.game /\ u.failed = "none" /\ ~u.wine
                      /\ u.seen.config.runtime

Layers(u) ==
  /\ \A x, y \in SetupBoxes : Shows(u, x) /\ Shows(u, y) => x = y
  /\ Shows(u, "language") <=> ~u.config.language
  /\ ~u.config.language => \A o \in Boxed : Shows(u, o) => o = "language"
  /\ Shows(u, "prerequisites") => ~u.config.prerequisites /\ ~Old(u) /\ u.probed
  /\ \A o \in Late : Shows(u, o) => Past(u)
  /\ Installing(u) => Shows(u, "game")

\* In the midst of an event the dialog of the game may be left over.
Nearly(u) ==
  u \in Uis /\ Seen(u) /\ Honest(u) /\ Countdown(u) /\ Stacked(u.open) /\ Layers(u)

Sound(u) == Nearly(u) /\ GameFits(u)

(***************************************************************************)
(* The stage                                                               *)
(***************************************************************************)
Signed == {"NeedsAuth", "Authenticating", "Ready"}

\* What a stage says, which lasts for as long as the stage.
Says(u) ==
  LET s == u.stage
  IN  /\ s = "NeedsLanguage" \/ u.config.language
      /\ s \notin {"NeedsLanguage", "Probing"} => u.probed
      /\ s \notin {"NeedsLanguage", "Probing", "Failed"} => u.failed = "none"
      /\ s = "NeedsPrerequisites" => ~u.seen.config.prerequisites
      /\ s \notin {"NeedsLanguage", "Probing", "Failed", "NeedsPrerequisites"}
           => u.seen.config.prerequisites
      /\ s \notin {"NeedsLanguage", "Probing", "Failed", "NeedsPrerequisites", "NeedsRuntime"}
           => u.seen.config.runtime
      /\ s \in {"Updating", "Downloading"} => u.transfer /\ ~u.wine
      /\ s \in {"NeedsPrefix", "PrefixBroken", "NeedsDownload", "NeedsRules"} \cup Signed
           => ~u.transfer /\ ~u.wine
      /\ s = "NeedsDownload" => ~u.seen.game
      /\ s \in {"NeedsRules"} \cup Signed => u.seen.prefix = "ready" /\ u.seen.game
      /\ s = "NeedsRules" => ~u.reviewed
      /\ s = "Ready" => u.read

\* That the prerequisites are chosen has not been seen yet.
Unseen(u) ==
  u.probed /\ ~u.seen.config.prerequisites /\ u.config.prerequisites
    => u.stage = "NeedsPrerequisites"

\* It is what has been seen, but for the review that a reset has taken back.
Fits(u) ==
  /\ \/ Lag(u)
     \/ u.stage = Compute(u)
     \/ u.stage \in Signed /\ Compute(u) = "NeedsRules"
  /\ Installing(u) => u.stage \in {"Updating", "Downloading"}
  /\ Old(u) => u.stage = "NeedsLanguage" \/ (u.stage = "Updating" /\ u.repairing)
  /\ Unseen(u)
  /\ Shows(u, "prerequisites") => u.stage = "NeedsPrerequisites"

\* The view is that of the stage.
ViewOf(u) ==
  /\ u.repairing <=> Shows(u, "repair")
  /\ ~u.repairing =>
       u.view = View(u.stage) \/ (u.stage = "NeedsLanguage" /\ u.view = "loading")

\* It opens its box; but for a report of changed files, nothing takes the prerequisites or
\* the rules away.
Opened(u) ==
  /\ u.stage = "NeedsPrerequisites" /\ ~u.damaged
       => Shows(u, "prerequisites") \/ u.config.prerequisites
  /\ u.stage = "NeedsRules" /\ ~u.damaged => Shows(u, "rules")

Viewed(u) == ViewOf(u) /\ (u.repairing \/ Opened(u))

Good(u) == Sound(u) /\ Says(u) /\ Fits(u) /\ Viewed(u)

(***************************************************************************)
(* The sign-in                                                             *)
(***************************************************************************)
\* Completions come first in the queue, and one that is scheduled is there.
Queued(u) ==
  /\ \A i \in DOMAIN u.posted : i # 1 => u.posted[i] = Callback
  /\ u.scheduled => u.posted # <<>> /\ u.posted[1] = Due

IInv == Good(ui) /\ Queued(ui)

(***************************************************************************)
(* Types                                                                   *)
(***************************************************************************)
LEMMA StackTypes ==
  ASSUME NEW S
  PROVE  /\ S \in Stacks => DOMAIN S \subseteq Boxed /\ \A x \in DOMAIN S : S[x] \subseteq Boxed
         /\ \A D \in SUBSET Boxed : S \in [D -> SUBSET Boxed] => S \in Stacks
<1>1. ASSUME S \in Stacks
      PROVE  DOMAIN S \subseteq Boxed /\ \A x \in DOMAIN S : S[x] \subseteq Boxed
  <2>1. PICK D \in SUBSET Boxed : S \in [D -> SUBSET Boxed]
    BY <1>1 DEF Stacks
  <2> QED BY <2>1
<1>2. ASSUME NEW D \in SUBSET Boxed, S \in [D -> SUBSET Boxed]
      PROVE  S \in Stacks
  BY <1>2 DEF Stacks
<1> QED BY <1>1, <1>2

LEMMA BoxNames ==
  /\ SetupBoxes = {"language", "prerequisites", "runtime", "prefix", "game", "rules"}
  /\ Boxed = SetupBoxes \cup {"files", "repair"}
  BY DEF SetupBoxes, Boxed

\* All but the boxes.
Beside(u, v) ==
  /\ v.config = u.config /\ v.read = u.read /\ v.disk = u.disk /\ v.seen = u.seen
  /\ v.probed = u.probed /\ v.reviewed = u.reviewed /\ v.signing = u.signing /\ v.wine = u.wine
  /\ v.transfer = u.transfer /\ v.failed = u.failed /\ v.stage = u.stage /\ v.view = u.view
  /\ v.message = u.message /\ v.muted = u.muted /\ v.damaged = u.damaged
  /\ v.repairing = u.repairing /\ v.pending = u.pending /\ v.scheduled = u.scheduled
  /\ v.posted = u.posted /\ v.changed = u.changed /\ v.probe = u.probe

\* All but what a change of the stage sets.
Around(u, v) ==
  /\ v.config = u.config /\ v.read = u.read /\ v.disk = u.disk /\ v.seen = u.seen
  /\ v.probed = u.probed /\ v.reviewed = u.reviewed /\ v.signing = u.signing /\ v.wine = u.wine
  /\ v.transfer = u.transfer /\ v.failed = u.failed
  /\ v.message = u.message /\ v.muted = u.muted /\ v.damaged = u.damaged
  /\ v.repairing = u.repairing /\ v.pending = u.pending /\ v.scheduled = u.scheduled
  /\ v.posted = u.posted /\ v.changed = u.changed /\ v.probe = u.probe

LEMMA AroundKeeps ==
  ASSUME NEW u, NEW v, Around(u, v)
  PROVE  /\ Seen(v) <=> Seen(u)
         /\ Honest(v) <=> Honest(u)
         /\ Lag(v) <=> Lag(u)
         /\ Old(v) <=> Old(u)
         /\ Past(v) <=> Past(u)
         /\ Installing(v) <=> Installing(u)
  BY DEF Around, Seen, Honest, Lag, Old, Past, Installing, SigningIn

LEMMA BesideAround ==
  ASSUME NEW u, NEW v, Beside(u, v)
  PROVE  Around(u, v)
  BY DEF Around, Beside

(***************************************************************************)
(* The boxes that are open                                                 *)
(***************************************************************************)
Without(S, boxes) == [o \in DOMAIN S \ boxes |-> S[o] \ boxes]
With(S, o)        == [x \in DOMAIN S \cup {o} |-> (IF x = o THEN DOMAIN S ELSE S[x]) \ {o}]

LEMMA CloseIs ==
  ASSUME NEW u \in Uis, NEW boxes
  PROVE  /\ Close(u, boxes) \in Uis /\ Beside(u, Close(u, boxes))
         /\ Close(u, boxes).box = u.box
         /\ Close(u, boxes).open = Without(u.open, boxes)
<1>1. u.open \in Stacks
  BY DEF Uis
<1>2. Without(u.open, boxes) \in [DOMAIN u.open \ boxes -> SUBSET Boxed]
  BY <1>1, StackTypes DEF Without
<1>3. Without(u.open, boxes) \in Stacks
  BY <1>1, <1>2, StackTypes
<1>4. Close(u, boxes) = [u EXCEPT !.open = Without(u.open, boxes)]
  BY DEF Close, Without
<1> DEFINE S == Without(u.open, boxes)
<1> HIDE DEF S
<1>5. [u EXCEPT !.open = S] \in Uis /\ Beside(u, [u EXCEPT !.open = S])
      /\ [u EXCEPT !.open = S].open = S /\ [u EXCEPT !.open = S].box = u.box
  BY <1>3 DEF S, Uis, Beside
<1> QED BY <1>4, <1>5 DEF S

LEMMA Closed ==
  ASSUME NEW u \in Uis, NEW boxes, Stacked(u.open)
  PROVE  /\ Stacked(Close(u, boxes).open)
         /\ \A x : Shows(Close(u, boxes), x) <=> Shows(u, x) /\ x \notin boxes
<1> DEFINE v == Close(u, boxes)
           S == u.open
           R == v.open
<1>1. R = Without(S, boxes)
  BY CloseIs
<1> HIDE DEF v, S, R
<1>2. DOMAIN R = DOMAIN S \ boxes /\ \A x \in DOMAIN R : R[x] = S[x] \ boxes
  BY <1>1 DEF Without
<1>3. ASSUME NEW T \in SUBSET DOMAIN R, T # {} PROVE \E o \in T : T \ {o} \subseteq R[o]
  <2>1. PICK o \in T : T \ {o} \subseteq S[o]
    BY <1>2, <1>3 DEF Stacked, S
  <2> QED BY <2>1, <1>2
<1>4. \A x \in DOMAIN R : R[x] \subseteq DOMAIN R
  BY <1>2 DEF Stacked, S
<1>5. \A x, y \in DOMAIN R : x \in R[y] => y \notin R[x]
  BY <1>2 DEF Stacked, S
<1>6. Stacked(R)
  BY <1>3, <1>4, <1>5 DEF Stacked
<1> QED BY <1>2, <1>6 DEF Shows, R, S, v

\* The countdown starts anew in a box that is shown.
LEMMA ShowBoxIs ==
  ASSUME NEW b \in Boxes, NEW cached \in Documents \cup {NoDocument}
  PROVE  LET v == ShowBox(b, cached)
         IN  /\ v \in Boxes
             /\ v.scrolled => v.elapsed = Cooldown
             /\ v.left + v.elapsed >= Cooldown
<1> USE CooldownAssumption
<1> DEFINE shown == [b EXCEPT !.left = Cooldown, !.scrolled = FALSE, !.elapsed = 0]
<1>1. 0 \in 0 .. Cooldown /\ Cooldown \in 0 .. Cooldown
  OBVIOUS
<1>2. shown \in Boxes /\ shown.left = Cooldown /\ ~shown.scrolled /\ shown.elapsed = 0
  BY <1>1 DEF Boxes
<1> HIDE DEF shown
<1>3. ASSUME NEW c \in Boxes
      PROVE  LoadRules(c) \in Boxes /\ LoadRules(c).left = c.left
             /\ LoadRules(c).scrolled = c.scrolled /\ LoadRules(c).elapsed = c.elapsed
  BY DEF LoadRules, Requested, Boxes
<1>4. CASE b.doc = NoDocument /\ cached # NoDocument
  <2> DEFINE d == Display(shown, cached)
  <2>1. /\ d \in Boxes /\ d.left = Cooldown /\ d.elapsed \in Nat
        /\ d.scrolled => d.elapsed = Cooldown
    BY <1>2, <1>4 DEF Display, StartCooldown, Boxes
  <2> HIDE DEF d
  <2>2. ShowBox(b, cached) = LoadRules(d)
    BY <1>4 DEF ShowBox, shown, d
  <2>3. d.left + d.elapsed >= Cooldown
    BY <2>1
  <2> QED BY <2>1, <2>2, <2>3, <1>3
<1>5. CASE ~(b.doc = NoDocument /\ cached # NoDocument)
  <2>1. ShowBox(b, cached) = LoadRules(shown)
    BY <1>5 DEF ShowBox, shown
  <2>2. shown.left + shown.elapsed >= Cooldown
    BY <1>2
  <2> QED BY <1>2, <1>3, <2>1, <2>2
<1> QED BY <1>4, <1>5

LEMMA OpenIs ==
  ASSUME NEW u \in Uis, NEW o \in Boxed
  PROVE  /\ Open(u, o) \in Uis /\ Beside(u, Open(u, o))
         /\ Open(u, o).open = With(u.open, o)
         /\ Open(u, o).box = IF o = "rules" /\ ~Shows(u, o) THEN ShowBox(u.box, u.disk.rules)
                                                            ELSE u.box
<1>1. u.open \in Stacks
  BY DEF Uis
<1>2. With(u.open, o) \in [DOMAIN u.open \cup {o} -> SUBSET Boxed]
  BY <1>1, StackTypes DEF With
<1>3. With(u.open, o) \in Stacks
  BY <1>1, <1>2, StackTypes
<1> DEFINE S == With(u.open, o)
           r == [u EXCEPT !.open = S]
           b == ShowBox(r.box, u.disk.rules)
<1>4. Open(u, o) = IF o = "rules" /\ ~Shows(u, o) THEN [r EXCEPT !.box = b] ELSE r
  BY DEF Open, With
<1> HIDE DEF S
<1>5. r \in Uis /\ Beside(u, r) /\ r.open = S /\ r.box = u.box
  BY <1>3 DEF S, Uis, Beside
<1>6. u.box \in Boxes /\ u.disk.rules \in Documents \cup {NoDocument}
  BY DEF Uis, Disked
<1> HIDE DEF r
<1>7. b \in Boxes
  BY <1>5, <1>6, ShowBoxIs
<1>8. b = ShowBox(u.box, u.disk.rules)
  BY <1>5
<1> HIDE DEF b
<1>9. [r EXCEPT !.box = b] \in Uis /\ Beside(u, [r EXCEPT !.box = b])
      /\ [r EXCEPT !.box = b].open = S /\ [r EXCEPT !.box = b].box = b
  BY <1>5, <1>7 DEF Uis, Beside
<1> QED BY <1>4, <1>5, <1>8, <1>9 DEF S

LEMMA Raised ==
  ASSUME NEW u \in Uis, NEW o \in Boxed, Stacked(u.open), Countdown(u)
  PROVE  /\ Stacked(Open(u, o).open) /\ Countdown(Open(u, o))
         /\ \A x : Shows(Open(u, o), x) <=> Shows(u, x) \/ x = o
<1> DEFINE v == Open(u, o)
           S == u.open
           R == v.open
<1>1. R = With(S, o)
  BY OpenIs
<1> HIDE DEF v, S, R
<1>2. DOMAIN R = DOMAIN S \cup {o} /\ R[o] = DOMAIN S \ {o}
      /\ \A x \in DOMAIN S \ {o} : R[x] = S[x] \ {o}
  BY <1>1 DEF With
<1>3. ASSUME NEW T \in SUBSET DOMAIN R, T # {} PROVE \E x \in T : T \ {x} \subseteq R[x]
  <2>1. CASE o \in T
    BY <2>1, <1>2
  <2>2. CASE o \notin T
    <3>1. PICK x \in T : T \ {x} \subseteq S[x]
      BY <1>2, <1>3, <2>2 DEF Stacked, S
    <3> QED BY <3>1, <2>2, <1>2
  <2> QED BY <2>1, <2>2
<1>4. \A x \in DOMAIN R : R[x] \subseteq DOMAIN R
  BY <1>2 DEF Stacked, S
<1>5. \A x, y \in DOMAIN R : x \in R[y] => y \notin R[x]
  BY <1>2 DEF Stacked, S
<1>6. Stacked(R)
  BY <1>3, <1>4, <1>5 DEF Stacked
<1>7. \A x : Shows(v, x) <=> Shows(u, x) \/ x = o
  BY <1>2 DEF Shows, R, S
<1>8. u.box \in Boxes /\ u.disk.rules \in Documents \cup {NoDocument}
  BY DEF Uis, Disked
<1>9. Countdown(v)
  <2>1. CASE o = "rules" /\ ~Shows(u, o)
    BY <2>1, <1>7, <1>8, OpenIs, ShowBoxIs DEF Countdown, v
  <2>2. CASE ~(o = "rules" /\ ~Shows(u, o))
    BY <2>2, <1>7, OpenIs DEF Countdown, v
  <2> QED BY <2>1, <2>2
<1> QED BY <1>6, <1>7, <1>9 DEF R, v

LEMMA ClosedCountdown ==
  ASSUME NEW u \in Uis, NEW boxes, Stacked(u.open), Countdown(u)
  PROVE  Countdown(Close(u, boxes))
  BY Closed, CloseIs DEF Countdown

\* The box that the user can reach is one that is shown, if there is one.
LEMMA TopIs ==
  ASSUME NEW u \in Uis, Stacked(u.open)
  PROVE  /\ Top(u) = "none" => \A o : ~Shows(u, o)
         /\ Top(u) # "none" => Shows(u, Top(u)) /\ Top(u) \in Boxed
<1> DEFINE S == u.open
           Above(o) == S[o] = DOMAIN S \ {o}
<1>1. S \in Stacks /\ DOMAIN S \subseteq Boxed
  BY StackTypes DEF Uis
<1>2. CASE DOMAIN S = {}
  BY <1>2 DEF Top, Shows
<1>3. CASE DOMAIN S # {}
  <2>1. PICK o \in DOMAIN S : DOMAIN S \ {o} \subseteq S[o]
    BY <1>3 DEF Stacked
  <2>2. Above(o)
    BY <2>1 DEF Stacked
  <2> DEFINE t == CHOOSE x \in DOMAIN S : Above(x)
  <2>3. Top(u) = t
    BY <1>3 DEF Top
  <2>4. t \in DOMAIN S
    <3> HIDE DEF S, Above
    <3> QED BY <2>1, <2>2
  <2> HIDE DEF t
  <2>5. t # "none"
    BY <2>4, <1>1 DEF Boxed, SetupBoxes
  <2> QED BY <2>3, <2>4, <2>5, <1>1 DEF Shows
<1> QED BY <1>2, <1>3

(***************************************************************************)
(* compute()                                                               *)
(***************************************************************************)
LEMMA PairOf ==
  ASSUME NEW a, NEW b, NEW t, t = <<a, b>>
  PROVE  t[1] = a /\ t[2] = b
  OBVIOUS

LEMMA FourteenOf ==
  ASSUME NEW a, NEW b, NEW c, NEW d, NEW e, NEW g, NEW h, NEW j, NEW k, NEW l, NEW m, NEW n,
         NEW o, NEW p, NEW f,
         f = <<a, b, c, d, e, g, h, j, k, l, m, n, o, p>>
  PROVE  /\ DOMAIN f = 1 .. 14
         /\ f[1] = a /\ f[2] = b /\ f[3] = c /\ f[4] = d /\ f[5] = e /\ f[6] = g /\ f[7] = h
         /\ f[8] = j /\ f[9] = k /\ f[10] = l /\ f[11] = m /\ f[12] = n /\ f[13] = o /\ f[14] = p
  OBVIOUS

\* The first of the findings that holds.
LEMMA FirstFinding ==
  ASSUME NEW f, NEW n \in 1 .. 14, DOMAIN f = 1 .. 14,
         f[n][1], \A i \in 1 .. n - 1 : ~f[i][1]
  PROVE  f[CHOOSE i \in DOMAIN f : f[i][1] /\ \A j \in 1 .. i - 1 : ~f[j][1]][2] = f[n][2]
<1> DEFINE First(i) == f[i][1] /\ \A j \in 1 .. i - 1 : ~f[j][1]
<1>1. n \in DOMAIN f /\ First(n)
  OBVIOUS
<1>2. ASSUME NEW i \in DOMAIN f, First(i) PROVE i = n
  <2>1. i \in 1 .. 14
    OBVIOUS
  <2>2. ~(i < n)
    BY <1>2, <2>1
  <2>3. ~(n < i)
    BY <1>2, <2>1
  <2> QED BY <2>1, <2>2, <2>3
<1> HIDE DEF First
<1>3. (CHOOSE i \in DOMAIN f : First(i)) = n
  BY <1>1, <1>2
<1> QED BY <1>3 DEF First

LEMMA ComputeIs ==
  ASSUME NEW u
  PROVE  LET Is(s) == Compute(u) = s
             c     == u.seen.config
         IN  /\ ~u.probed => Is("Probing")
             /\ u.probed /\ u.failed # "none" => Is("Failed")
             /\ u.probed /\ u.failed = "none" =>
                  /\ ~c.prerequisites => Is("NeedsPrerequisites")
                  /\ c.prerequisites /\ ~c.runtime => Is("NeedsRuntime")
                  /\ c.prerequisites /\ c.runtime /\ u.wine => Is("SettingUpPrefix")
                  /\ c.prerequisites /\ c.runtime /\ ~u.wine =>
                       /\ u.transfer /\ u.seen.game => Is("Updating")
                       /\ u.transfer /\ ~u.seen.game => Is("Downloading")
                       /\ ~u.transfer =>
                            /\ u.seen.prefix = "none" => Is("NeedsPrefix")
                            /\ u.seen.prefix = "incomplete" => Is("PrefixBroken")
                            /\ u.seen.prefix \notin {"none", "incomplete"} =>
                                 /\ ~u.seen.game => Is("NeedsDownload")
                                 /\ u.seen.game =>
                                      /\ ~c.rules /\ ~u.reviewed => Is("NeedsRules")
                                      /\ c.rules \/ u.reviewed =>
                                           /\ u.signing => Is("Authenticating")
                                           /\ ~u.signing /\ ~c.account => Is("NeedsAuth")
                                           /\ ~u.signing /\ c.account => Is("Ready")
<1> DEFINE
     a == <<~u.probed, "Probing">>
     b == <<u.failed # "none", "Failed">>
     c == <<~u.seen.config.prerequisites, "NeedsPrerequisites">>
     d == <<~u.seen.config.runtime, "NeedsRuntime">>
     e == <<u.wine, "SettingUpPrefix">>
     g == <<u.transfer /\ u.seen.game, "Updating">>
     h == <<u.transfer, "Downloading">>
     j == <<u.seen.prefix = "none", "NeedsPrefix">>
     k == <<u.seen.prefix = "incomplete", "PrefixBroken">>
     l == <<~u.seen.game, "NeedsDownload">>
     m == <<~u.seen.config.rules /\ ~u.reviewed, "NeedsRules">>
     n == <<u.signing, "Authenticating">>
     o == <<~u.seen.config.account, "NeedsAuth">>
     p == <<TRUE, "Ready">>
     f == Findings(u)
<1>1. f = <<a, b, c, d, e, g, h, j, k, l, m, n, o, p>>
  BY Zenon DEF Findings
<1>2. Compute(u) = f[CHOOSE i \in DOMAIN f : f[i][1] /\ \A q \in 1 .. i - 1 : ~f[q][1]][2]
  BY Zenon DEF Compute
<1>3. /\ a[1] = (~u.probed) /\ b[1] = (u.failed # "none") /\ c[1] = (~u.seen.config.prerequisites)
      /\ d[1] = (~u.seen.config.runtime) /\ e[1] = u.wine /\ g[1] = (u.transfer /\ u.seen.game)
      /\ h[1] = u.transfer /\ j[1] = (u.seen.prefix = "none")
      /\ k[1] = (u.seen.prefix = "incomplete")
      /\ l[1] = (~u.seen.game) /\ m[1] = (~u.seen.config.rules /\ ~u.reviewed) /\ n[1] = u.signing
      /\ o[1] = (~u.seen.config.account) /\ p[1] = TRUE
  BY Zenon, PairOf
<1>4. /\ a[2] = "Probing" /\ b[2] = "Failed" /\ c[2] = "NeedsPrerequisites"
      /\ d[2] = "NeedsRuntime" /\ e[2] = "SettingUpPrefix" /\ g[2] = "Updating"
      /\ h[2] = "Downloading" /\ j[2] = "NeedsPrefix" /\ k[2] = "PrefixBroken"
      /\ l[2] = "NeedsDownload" /\ m[2] = "NeedsRules" /\ n[2] = "Authenticating"
      /\ o[2] = "NeedsAuth" /\ p[2] = "Ready"
  BY Zenon, PairOf
<1> HIDE DEF a, b, c, d, e, g, h, j, k, l, m, n, o, p, f
<1>5. /\ DOMAIN f = 1 .. 14
      /\ f[1] = a /\ f[2] = b /\ f[3] = c /\ f[4] = d /\ f[5] = e /\ f[6] = g /\ f[7] = h
      /\ f[8] = j /\ f[9] = k /\ f[10] = l /\ f[11] = m /\ f[12] = n /\ f[13] = o /\ f[14] = p
  BY <1>1, FourteenOf
<1> DEFINE First(i) == f[i][1] /\ \A q \in 1 .. i - 1 : ~f[q][1]
<1>6. ASSUME NEW i \in 1 .. 14, First(i) PROVE Compute(u) = f[i][2]
  BY <1>2, <1>5, <1>6, FirstFinding
<1>7. /\ 1 .. 14 = {1, 2, 3, 4, 5, 6, 7, 8, 9, 10, 11, 12, 13, 14}
      /\ 1 .. 1 - 1 = {}
      /\ 1 .. 2 - 1 = {1}
      /\ 1 .. 3 - 1 = {1, 2}
      /\ 1 .. 4 - 1 = {1, 2, 3}
      /\ 1 .. 5 - 1 = {1, 2, 3, 4}
      /\ 1 .. 6 - 1 = {1, 2, 3, 4, 5}
      /\ 1 .. 7 - 1 = {1, 2, 3, 4, 5, 6}
      /\ 1 .. 8 - 1 = {1, 2, 3, 4, 5, 6, 7}
      /\ 1 .. 9 - 1 = {1, 2, 3, 4, 5, 6, 7, 8}
      /\ 1 .. 10 - 1 = {1, 2, 3, 4, 5, 6, 7, 8, 9}
      /\ 1 .. 11 - 1 = {1, 2, 3, 4, 5, 6, 7, 8, 9, 10}
      /\ 1 .. 12 - 1 = {1, 2, 3, 4, 5, 6, 7, 8, 9, 10, 11}
      /\ 1 .. 13 - 1 = {1, 2, 3, 4, 5, 6, 7, 8, 9, 10, 11, 12}
      /\ 1 .. 14 - 1 = {1, 2, 3, 4, 5, 6, 7, 8, 9, 10, 11, 12, 13}
  OBVIOUS
<1>8. /\ a[1] => First(1)
      /\ ~a[1] /\ b[1] => First(2)
      /\ ~a[1] /\ ~b[1] /\ c[1] => First(3)
      /\ ~a[1] /\ ~b[1] /\ ~c[1] /\ d[1] => First(4)
      /\ ~a[1] /\ ~b[1] /\ ~c[1] /\ ~d[1] /\ e[1] => First(5)
      /\ ~a[1] /\ ~b[1] /\ ~c[1] /\ ~d[1] /\ ~e[1] /\ g[1] => First(6)
      /\ ~a[1] /\ ~b[1] /\ ~c[1] /\ ~d[1] /\ ~e[1] /\ ~g[1] /\ h[1] => First(7)
      /\ ~a[1] /\ ~b[1] /\ ~c[1] /\ ~d[1] /\ ~e[1] /\ ~g[1] /\ ~h[1] /\ j[1] => First(8)
      /\ ~a[1] /\ ~b[1] /\ ~c[1] /\ ~d[1] /\ ~e[1] /\ ~g[1] /\ ~h[1] /\ ~j[1]
           /\ k[1] => First(9)
      /\ ~a[1] /\ ~b[1] /\ ~c[1] /\ ~d[1] /\ ~e[1] /\ ~g[1] /\ ~h[1] /\ ~j[1]
           /\ ~k[1] /\ l[1] => First(10)
      /\ ~a[1] /\ ~b[1] /\ ~c[1] /\ ~d[1] /\ ~e[1] /\ ~g[1] /\ ~h[1] /\ ~j[1]
           /\ ~k[1] /\ ~l[1] /\ m[1] => First(11)
      /\ ~a[1] /\ ~b[1] /\ ~c[1] /\ ~d[1] /\ ~e[1] /\ ~g[1] /\ ~h[1] /\ ~j[1]
           /\ ~k[1] /\ ~l[1] /\ ~m[1] /\ n[1] => First(12)
      /\ ~a[1] /\ ~b[1] /\ ~c[1] /\ ~d[1] /\ ~e[1] /\ ~g[1] /\ ~h[1] /\ ~j[1]
           /\ ~k[1] /\ ~l[1] /\ ~m[1] /\ ~n[1] /\ o[1] => First(13)
      /\ ~a[1] /\ ~b[1] /\ ~c[1] /\ ~d[1] /\ ~e[1] /\ ~g[1] /\ ~h[1] /\ ~j[1]
           /\ ~k[1] /\ ~l[1] /\ ~m[1] /\ ~n[1] /\ ~o[1] /\ p[1] => First(14)
  BY <1>5, <1>7
<1> HIDE DEF First
<1>9. /\ First(1) => Compute(u) = "Probing"
      /\ First(2) => Compute(u) = "Failed"
      /\ First(3) => Compute(u) = "NeedsPrerequisites"
      /\ First(4) => Compute(u) = "NeedsRuntime"
      /\ First(5) => Compute(u) = "SettingUpPrefix"
      /\ First(6) => Compute(u) = "Updating"
      /\ First(7) => Compute(u) = "Downloading"
      /\ First(8) => Compute(u) = "NeedsPrefix"
      /\ First(9) => Compute(u) = "PrefixBroken"
      /\ First(10) => Compute(u) = "NeedsDownload"
      /\ First(11) => Compute(u) = "NeedsRules"
      /\ First(12) => Compute(u) = "Authenticating"
      /\ First(13) => Compute(u) = "NeedsAuth"
      /\ First(14) => Compute(u) = "Ready"
  BY <1>4, <1>5, <1>6
<1> QED BY <1>3, <1>8, <1>9

LEMMA ComputeSame ==
  ASSUME NEW u, NEW v, v.probed = u.probed, v.failed = u.failed, v.seen = u.seen, v.wine = u.wine,
         v.transfer = u.transfer, v.reviewed = u.reviewed, v.signing = u.signing
  PROVE  Compute(v) = Compute(u)
<1>1. Findings(v) = Findings(u)
  BY DEF Findings
<1> QED BY <1>1, Zenon DEF Compute

LEMMA AroundCompute ==
  ASSUME NEW u, NEW v, Around(u, v)
  PROVE  Compute(v) = Compute(u)
  BY ComputeSame DEF Around

\* What Compute finds is a stage, and not that of the language.
LEMMA ComputeStage ==
  ASSUME NEW u \in Uis
  PROVE  Compute(u) \in Stages \ {"NeedsLanguage"}
<1>1. /\ u.probed \in BOOLEAN /\ u.wine \in BOOLEAN /\ u.transfer \in BOOLEAN
      /\ u.signing \in BOOLEAN /\ u.reviewed \in BOOLEAN /\ u.seen.game \in BOOLEAN
      /\ \A f \in DOMAIN Empty : u.seen.config[f] \in BOOLEAN
      /\ u.seen.prefix \in Prefixes
  BY DEF Uis, Seens, Configs
<1> QED BY <1>1, ComputeIs DEF Stages, Prefixes, Empty

LEMMA ViewIs ==
  /\ View("NeedsLanguage") = "language" /\ View("NeedsPrerequisites") = "prerequisites"
  /\ View("NeedsRuntime") = "runtime" /\ View("NeedsPrefix") = "prefix"
  /\ View("PrefixBroken") = "prefix" /\ View("SettingUpPrefix") = "prefix"
  /\ View("NeedsDownload") = "game" /\ View("NeedsRules") = "rules"
  /\ View("Probing") = "loading" /\ View("Downloading") = "loading"
  /\ View("Updating") = "loading" /\ View("Failed") = "error"
  /\ View("NeedsAuth") = "chooser" /\ View("Authenticating") = "chooser"
  /\ View("Ready") = "chooser"
  BY DEF View

LEMMA ViewTypes ==
  ASSUME NEW s \in Stages
  PROVE  /\ View(s) \in Views /\ (View(s) \in SetupBoxes => View(s) \in Boxed)
         /\ View(s) = "language" <=> s = "NeedsLanguage"
         /\ View(s) = "prerequisites" <=> s = "NeedsPrerequisites"
         /\ View(s) = "runtime" <=> s = "NeedsRuntime"
         /\ View(s) = "prefix" <=> s \in {"NeedsPrefix", "PrefixBroken", "SettingUpPrefix"}
         /\ View(s) = "game" <=> s = "NeedsDownload"
         /\ View(s) = "rules" <=> s = "NeedsRules"
         /\ View(s) = "loading" <=> s \in {"Probing", "Downloading", "Updating"}
         /\ View(s) = "error" <=> s = "Failed"
         /\ View(s) = "chooser" <=> s \in {"NeedsAuth", "Authenticating", "Ready"}
  BY ViewIs DEF Stages, Views, SetupBoxes, Boxed

(***************************************************************************)
(* A change of the stage                                                   *)
(***************************************************************************)
\* The stages whose box is opened as they begin.
Opening == {"NeedsLanguage", "NeedsPrerequisites", "PrefixBroken", "SettingUpPrefix",
            "NeedsDownload", "NeedsRules"}

\* What follows the stage of v in the boxes, as they were in u.
Follows(u, v) ==
  LET view == View(v.stage)
  IN  /\ v.view = view
      /\ view \in {"loading", "error"} =>
           \A o : Shows(v, o) <=> Shows(u, o) /\ o # "language"
      /\ view \notin {"loading", "error"} =>
           \A o : Shows(v, o) <=> \/ Shows(u, o) /\ o \notin SetupBoxes \ {view}
                                  \/ v.stage \in Opening /\ o = view

\* The view does not follow the stage where that is the old one, where a repair is shown,
\* or where the view is there already.
Stays(u, v) ==
  \/ v.stage = u.stage
  \/ u.repairing /\ Shows(u, "repair")
  \/ View(v.stage) = u.view

Unmoved(u, v) == v.view = u.view /\ \A o : Shows(v, o) <=> Shows(u, o)

Turned(u, v) ==
  /\ v \in Uis /\ Stacked(v.open) /\ Countdown(v) /\ Around(u, v)
  /\ Stays(u, v) => Unmoved(u, v)
  /\ ~Stays(u, v) => Follows(u, v)

LEMMA OpensItselfIs ==
  ASSUME NEW u \in Uis
  PROVE  OpensItself(u) <=> u.stage \in Opening
<1>1. u.stage \in Stages
  BY DEF Uis
<1> QED BY <1>1, ViewIs DEF OpensItself, Opening, Stages, SetupBoxes

LEMMA ShowViewIs ==
  ASSUME NEW u \in Uis, Stacked(u.open), Countdown(u)
  PROVE  LET v == ShowView(u)
         IN  /\ v \in Uis /\ Stacked(v.open) /\ Countdown(v) /\ Around(u, v)
             /\ v.stage = u.stage
             /\ View(u.stage) = u.view => v = u
             /\ View(u.stage) # u.view => Follows(u, v)
<1> DEFINE view   == View(u.stage)
           closed == IF view \in {"loading", "error"} THEN {"language"} ELSE SetupBoxes \ {view}
           w      == [u EXCEPT !.view = view]
           v      == Close(w, closed)
<1>1. u.stage \in Stages
  BY DEF Uis
<1>2. view \in Views
  BY <1>1, ViewTypes
<1>3. ShowView(u) = IF view = u.view THEN u ELSE IF OpensItself(u) THEN Open(v, view) ELSE v
  BY DEF ShowView
<1>4. CASE view = u.view
  BY <1>3, <1>4 DEF Around
<1>5. CASE view # u.view
  <2>1. w \in Uis /\ w.view = view /\ w.stage = u.stage /\ w.open = u.open /\ w.box = u.box
        /\ Around(u, w)
    <3> HIDE DEF view
    <3> QED BY <1>2 DEF Uis, Around
  <2>2. Countdown(w) /\ \A o : Shows(w, o) <=> Shows(u, o)
    BY <2>1 DEF Countdown, Shows
  <2> HIDE DEF w, closed
  <2>3. /\ v \in Uis /\ Stacked(v.open) /\ Countdown(v) /\ Beside(w, v)
        /\ \A o : Shows(v, o) <=> Shows(u, o) /\ o \notin closed
    BY <2>1, <2>2, CloseIs, Closed, ClosedCountdown
  <2> HIDE DEF v
  <2>4. v.view = view /\ v.stage = u.stage /\ Around(u, v)
    BY <2>1, <2>3 DEF Beside, Around
  <2>5. OpensItself(u) <=> u.stage \in Opening
    BY OpensItselfIs
  <2>6. CASE OpensItself(u)
    <3>1. view \in SetupBoxes /\ view \in Boxed /\ view \notin {"loading", "error"}
      BY <2>6, <1>1, ViewTypes DEF OpensItself, SetupBoxes
    <3> DEFINE r == Open(v, view)
    <3> HIDE DEF view
    <3>2. /\ r \in Uis /\ Stacked(r.open) /\ Countdown(r) /\ Beside(v, r)
          /\ \A o : Shows(r, o) <=> Shows(v, o) \/ o = view
      BY <2>3, <3>1, OpenIs, Raised
    <3> HIDE DEF r
    <3>3. r.view = view /\ r.stage = u.stage /\ Around(u, r)
      BY <3>2, <2>4 DEF Beside, Around
    <3>4. closed = SetupBoxes \ {view}
      BY <3>1 DEF closed, view
    <3>5. Follows(u, r)
      BY <2>3, <2>5, <2>6, <3>1, <3>2, <3>3, <3>4 DEF Follows, view
    <3>6. ShowView(u) = r
      BY <1>3, <1>5, <2>6 DEF r
    <3> QED BY <3>2, <3>3, <3>5, <3>6, <1>5 DEF view
  <2>7. CASE ~OpensItself(u)
    <3>1. Follows(u, v)
      <4>1. CASE view \in {"loading", "error"}
        BY <4>1, <2>3, <2>4 DEF Follows, closed
      <4>2. CASE view \notin {"loading", "error"}
        BY <4>2, <2>3, <2>4, <2>5, <2>7 DEF Follows, closed
      <4> QED BY <4>1, <4>2
    <3>2. ShowView(u) = v
      BY <1>3, <1>5, <2>7
    <3> QED BY <2>3, <2>4, <3>1, <3>2, <1>5
  <2> QED BY <2>6, <2>7
<1> QED BY <1>4, <1>5

LEMMA BecomeIs ==
  ASSUME NEW u \in Uis, Stacked(u.open), Countdown(u), NEW s \in Stages
  PROVE  Turned(u, Become(u, s)) /\ Become(u, s).stage = s
<1> DEFINE w == [u EXCEPT !.stage = s]
           v == Become(u, s)
<1>1. v = IF s = u.stage THEN u ELSE IF w.repairing /\ Shows(w, "repair") THEN w ELSE ShowView(w)
  BY DEF Become, StageChanged
<1>2. CASE s = u.stage
  BY <1>1, <1>2 DEF Turned, Stays, Unmoved, Around
<1>3. CASE s # u.stage
  <2>1. w \in Uis /\ Around(u, w) /\ w.stage = s /\ w.open = u.open /\ w.box = u.box
        /\ w.view = u.view
    BY DEF Uis, Around
  <2>2. Countdown(w) /\ \A o : Shows(w, o) <=> Shows(u, o)
    BY <2>1 DEF Countdown, Shows
  <2>3. w.repairing = u.repairing
    BY <2>1 DEF Around
  <2> HIDE DEF w, v
  <2>4. CASE u.repairing /\ Shows(u, "repair")
    <3>1. v = w
      BY <1>1, <1>3, <2>2, <2>3, <2>4
    <3> QED BY <2>1, <2>2, <2>4, <3>1 DEF Turned, Stays, Unmoved, v
  <2>5. CASE ~(u.repairing /\ Shows(u, "repair"))
    <3>1. v = ShowView(w)
      BY <1>1, <1>3, <2>2, <2>3, <2>5
    <3>2. /\ v \in Uis /\ Stacked(v.open) /\ Countdown(v) /\ Around(w, v) /\ v.stage = s
          /\ View(s) = u.view => v = w
          /\ View(s) # u.view => Follows(w, v)
      BY <3>1, <2>1, <2>2, ShowViewIs
    <3>3. Around(u, v)
      BY <3>2, <2>1 DEF Around
    <3>4. Stays(u, v) => Unmoved(u, v)
      BY <3>2, <2>1, <2>2, <2>5, <1>3 DEF Stays, Unmoved
    <3>5. ~Stays(u, v) => Follows(u, v)
      BY <3>2, <2>2 DEF Stays, Follows
    <3> QED BY <3>2, <3>3, <3>4, <3>5 DEF Turned, v
  <2> QED BY <2>4, <2>5
<1> QED BY <1>2, <1>3

LEMMA RecomputeIs ==
  ASSUME NEW u \in Uis, Stacked(u.open), Countdown(u)
  PROVE  Turned(u, Recompute(u)) /\ Recompute(u).stage = Compute(u)
BY BecomeIs, ComputeStage DEF Recompute

(***************************************************************************)
(* Recompute makes the stage fit                                           *)
(***************************************************************************)
\* The fields, for who needs no more of a record than their types.
Typed(u) ==
  /\ u.config.language \in BOOLEAN /\ u.config.prerequisites \in BOOLEAN
  /\ u.config.runtime \in BOOLEAN /\ u.config.rules \in BOOLEAN /\ u.config.account \in BOOLEAN
  /\ u.seen.config.prerequisites \in BOOLEAN /\ u.seen.config.runtime \in BOOLEAN
  /\ u.seen.config.rules \in BOOLEAN /\ u.seen.config.account \in BOOLEAN
  /\ u.seen.prefix \in Prefixes /\ u.seen.game \in BOOLEAN /\ u.disk.game \in BOOLEAN
  /\ u.probed \in BOOLEAN /\ u.reviewed \in BOOLEAN /\ u.signing \in BOOLEAN
  /\ u.wine \in BOOLEAN /\ u.transfer \in BOOLEAN /\ u.repairing \in BOOLEAN
  /\ u.failed \in {"none", "auth", "wine"} /\ u.pending \in BOOLEAN /\ u.scheduled \in BOOLEAN
  /\ u.changed \in BOOLEAN /\ u.probe \in BOOLEAN /\ u.damaged \in BOOLEAN
  /\ u.read \in BOOLEAN /\ u.message \in BOOLEAN /\ u.muted \in BOOLEAN
  /\ u.stage \in Stages /\ u.view \in Views

LEMMA UiTyped ==
  ASSUME NEW u \in Uis
  PROVE  Typed(u)
<1>1. u.config \in Configs /\ u.seen \in Seens /\ u.disk \in Disked
  BY DEF Uis
<1>2. /\ \A f \in {"language", "prerequisites", "runtime", "rules", "account"} :
            u.config[f] \in BOOLEAN /\ u.seen.config[f] \in BOOLEAN
      /\ u.seen.prefix \in Prefixes /\ u.seen.game \in BOOLEAN /\ u.disk.game \in BOOLEAN
  BY <1>1 DEF Configs, Seens, Disked, Empty
<1>3. /\ u.probed \in BOOLEAN /\ u.reviewed \in BOOLEAN /\ u.signing \in BOOLEAN
      /\ u.wine \in BOOLEAN /\ u.transfer \in BOOLEAN /\ u.repairing \in BOOLEAN
      /\ u.failed \in {"none", "auth", "wine"} /\ u.pending \in BOOLEAN
      /\ u.scheduled \in BOOLEAN
      /\ u.changed \in BOOLEAN /\ u.probe \in BOOLEAN /\ u.damaged \in BOOLEAN
      /\ u.read \in BOOLEAN /\ u.message \in BOOLEAN /\ u.muted \in BOOLEAN
      /\ u.stage \in Stages /\ u.view \in Views
  BY DEF Uis
<1> QED BY <1>2, <1>3 DEF Typed

LEMMA ComputeSays ==
  ASSUME NEW u \in Uis, Seen(u), Honest(u), u.config.language, u.stage = Compute(u),
         Old(u) => u.repairing
  PROVE  Says(u)
<1>1. Typed(u)
  BY UiTyped
<1>2. Old(u) => u.stage = "Updating"
  BY <1>1, ComputeIs DEF Typed, Old, Seen, Past
<1>3. u.stage = "Ready" => u.read
  BY <1>1, <1>2, ComputeIs DEF Typed, Honest
<1>4. u.stage \notin {"NeedsLanguage", "Probing", "Failed"} => u.failed = "none"
  BY <1>1, ComputeIs DEF Typed
<1>5. /\ u.stage = "NeedsPrerequisites" => ~u.seen.config.prerequisites
      /\ u.stage \notin {"NeedsLanguage", "Probing", "Failed", "NeedsPrerequisites"}
           => u.seen.config.prerequisites
      /\ u.stage \notin {"NeedsLanguage", "Probing", "Failed", "NeedsPrerequisites", "NeedsRuntime"}
           => u.seen.config.runtime
      /\ u.stage \notin {"NeedsLanguage", "Probing"} => u.probed
  BY <1>1, ComputeIs DEF Typed
<1>6. /\ u.stage \in {"Updating", "Downloading"} => u.transfer /\ ~u.wine
      /\ u.stage \in {"NeedsPrefix", "PrefixBroken", "NeedsDownload", "NeedsRules"} \cup Signed
           => ~u.transfer /\ ~u.wine
      /\ u.stage = "NeedsDownload" => ~u.seen.game
  BY <1>1, ComputeIs DEF Typed, Signed
<1>7. /\ u.stage \in {"NeedsRules"} \cup Signed => u.seen.prefix = "ready" /\ u.seen.game
      /\ u.stage = "NeedsRules" => ~u.reviewed
  BY <1>1, ComputeIs DEF Typed, Signed, Prefixes
<1> QED BY <1>3, <1>4, <1>5, <1>6, <1>7 DEF Says

LEMMA ComputeFits ==
  ASSUME NEW u \in Uis, Seen(u), Layers(u), GameFits(u), u.config.language, u.stage = Compute(u),
         Old(u) => u.repairing
  PROVE  Fits(u)
<1>1. Typed(u)
  BY UiTyped
<1>2. Old(u) => u.stage = "Updating" /\ u.repairing
  BY <1>1, ComputeIs DEF Typed, Old, Seen, Past
<1>3. Installing(u) => u.stage \in {"Updating", "Downloading"}
  BY <1>1, ComputeIs DEF Typed, Installing, Layers, GameFits, Seen, Past
<1>4. ASSUME u.probed, ~u.seen.config.prerequisites PROVE u.stage = "NeedsPrerequisites"
  BY <1>1, <1>4, ComputeIs DEF Typed, Seen, Past
<1>5. Shows(u, "prerequisites") => u.stage = "NeedsPrerequisites"
  BY <1>4 DEF Layers, Old
<1> QED BY <1>2, <1>3, <1>4, <1>5 DEF Fits, Unseen

\* A view that closes the dialog of the game.
Elsewhere(u, v) == /\ Follows(u, v) /\ ~Installing(u)
                   /\ View(v.stage) \notin {"loading", "error", "game"}

\* The boxes that a change of the stage opens belong there.
LEMMA FollowedLayers ==
  ASSUME NEW u \in Uis, NEW v \in Uis, Around(u, v), Unmoved(u, v) \/ Follows(u, v),
         Layers(u), GameFits(u) \/ Elsewhere(u, v), Says(v), Seen(u), u.config.language,
         v.stage = Compute(u), Old(u) => u.repairing,
         Follows(u, v) /\ v.stage = "NeedsPrerequisites"
           => Shows(u, "prerequisites") \/ ~u.config.prerequisites
  PROVE  Layers(v) /\ GameFits(v)
<1>1. Typed(u) /\ Typed(v)
  BY UiTyped
<1>2. v.config = u.config
  BY DEF Around
<1>3. /\ Old(v) <=> Old(u)
      /\ Past(v) <=> Past(u)
      /\ Installing(v) <=> Installing(u)
  BY AroundKeeps
<1> DEFINE view == View(v.stage)
<1>4. v.stage \in Stages /\ v.stage # "NeedsLanguage"
  BY ComputeStage
<1>5. /\ view = "prerequisites" <=> v.stage = "NeedsPrerequisites"
      /\ view = "runtime" <=> v.stage = "NeedsRuntime"
      /\ view = "prefix" <=> v.stage \in {"NeedsPrefix", "PrefixBroken", "SettingUpPrefix"}
      /\ view = "game" <=> v.stage = "NeedsDownload"
      /\ view = "rules" <=> v.stage = "NeedsRules"
      /\ view \in {"loading", "error"}
           <=> v.stage \in {"Probing", "Downloading", "Updating", "Failed"}
      /\ view # "language"
  BY <1>4, ViewTypes
<1> HIDE DEF view
<1>6. ~Shows(u, "language")
  BY DEF Layers
<1>7. CASE \A o : Shows(v, o) <=> Shows(u, o)
  <2>1. GameFits(u)
    BY <1>7 DEF Elsewhere, Follows, SetupBoxes, GameFits
  <2> QED BY <1>2, <1>3, <1>7, <2>1 DEF Layers, GameFits, Around
<1>8. CASE Follows(u, v) /\ view \notin {"loading", "error"}
  <2>1. ~Old(u) /\ ~Installing(u)
    <3>1. Old(u) => v.stage = "Updating"
      BY <1>1, ComputeIs DEF Typed, Old, Seen, Past
    <3>2. Installing(u) => v.stage \in {"Downloading", "Updating"}
      BY <1>1, ComputeIs DEF Typed, Installing, Layers, GameFits, Elsewhere, Seen, Past
    <3> QED BY <3>1, <3>2, <1>5, <1>8
  <2>2. \A o : Shows(v, o) <=> \/ Shows(u, o) /\ o \notin SetupBoxes \ {view}
                               \/ v.stage \in Opening /\ o = view
    BY <1>8 DEF Follows, view
  <2>3. \A x \in SetupBoxes : Shows(v, x) => x = view
    BY <2>2
  <2>4. v.stage \in Opening /\ view \in Late => Past(v)
    <3>1. view \in Late =>
            v.stage \notin {"NeedsLanguage", "Probing", "Failed", "NeedsPrerequisites"}
      BY <1>4, <1>5 DEF Late
    <3>2. view \in Late => v.seen.config.prerequisites /\ v.probed
      BY <3>1 DEF Says
    <3> QED BY <3>2, <1>2, <1>3, <2>1 DEF Past, Old
  <2>5. \A o \in Late : Shows(v, o) => Past(v)
    BY <2>2, <2>4, <1>3 DEF Layers
  <2>6. Shows(v, "prerequisites") => ~v.config.prerequisites /\ ~Old(v) /\ v.probed
    <3>1. CASE Shows(u, "prerequisites")
      BY <3>1, <1>2, <1>3 DEF Layers, Around
    <3>2. CASE ~Shows(u, "prerequisites") /\ Shows(v, "prerequisites")
      <4>1. v.stage = "NeedsPrerequisites"
        BY <3>2, <2>2, <1>5
      <4>2. v.probed
        BY <4>1 DEF Says
      <4> QED BY <1>2, <1>3, <1>8, <2>1, <3>2, <4>1, <4>2
    <3> QED BY <3>1, <3>2
  <2>7. GameFits(v)
    <3>1. CASE view = "game"
      <4>1. v.stage = "NeedsDownload"
        BY <3>1, <1>5
      <4> QED BY <4>1 DEF Says, Signed, GameFits
    <3>2. CASE view # "game"
      <4>1. "game" \in SetupBoxes
        BY DEF SetupBoxes
      <4> QED BY <2>3, <3>2, <4>1 DEF GameFits
    <3> QED BY <3>1, <3>2
  <2>8. ~Shows(v, "language")
    BY <1>6, <2>2, <1>5
  <2> QED BY <1>2, <1>3, <2>1, <2>3, <2>5, <2>6, <2>7, <2>8 DEF Layers
<1>9. CASE Follows(u, v) /\ view \in {"loading", "error"}
  BY <1>6, <1>7, <1>9 DEF Follows, view
<1> QED BY <1>7, <1>8, <1>9 DEF Unmoved

\* The new stage takes the dialog of the game away.
Leaves(u) ==
  /\ ~Installing(u) /\ Compute(u) # u.stage /\ ~(u.repairing /\ Shows(u, "repair"))
  /\ View(Compute(u)) \notin {u.view, "loading", "error", "game"}

LEMMA RecomputeSound ==
  ASSUME NEW u, Nearly(u), GameFits(u) \/ Leaves(u), u.config.language,
         Old(u) => u.repairing, Unseen(u)
  PROVE  LET v == Recompute(u)
         IN  Sound(v) /\ Says(v) /\ Fits(v) /\ Turned(u, v) /\ v.stage = Compute(u)
<1> DEFINE v == Recompute(u)
<1>1. Turned(u, v) /\ v.stage = Compute(u)
  BY RecomputeIs DEF Nearly
<1> HIDE DEF v
<1>2. v \in Uis /\ Around(u, v) /\ Countdown(v) /\ Stacked(v.open)
  BY <1>1 DEF Turned
<1>3. Seen(v) /\ Honest(v) /\ (Old(v) <=> Old(u))
  BY <1>2, AroundKeeps DEF Nearly
<1>4. /\ Compute(v) = Compute(u) /\ v.config = u.config /\ v.repairing = u.repairing
      /\ v.seen = u.seen /\ v.probed = u.probed
  BY <1>2, AroundCompute DEF Around
<1>5. Says(v)
  BY <1>1, <1>2, <1>3, <1>4, ComputeSays
<1>6. Unmoved(u, v) \/ (Follows(u, v) /\ ~Stays(u, v))
  BY <1>1 DEF Turned
<1>7. Leaves(u) => Elsewhere(u, v)
  BY <1>1 DEF Leaves, Elsewhere, Turned, Stays
<1>8. ~Stays(u, v) /\ v.stage = "NeedsPrerequisites" => ~u.config.prerequisites
  BY <1>4, <1>5 DEF Stays, Unseen, Says
<1>9. Layers(v) /\ GameFits(v)
  <2>1. CASE Follows(u, v) /\ ~Stays(u, v)
    BY <1>1, <1>2, <1>5, <1>7, <1>8, <2>1, FollowedLayers DEF Nearly
  <2>2. CASE Unmoved(u, v)
    <3>1. CASE ~Follows(u, v)
      BY <1>1, <1>2, <1>5, <1>7, <2>2, <3>1, FollowedLayers DEF Nearly
    <3>2. CASE Follows(u, v) /\ Stays(u, v)
      <4>1. GameFits(u)
        BY <1>1, <3>2 DEF Leaves, Stays
      <4>2. Around(u, v) /\ \A o : Shows(v, o) <=> Shows(u, o)
        BY <1>2, <2>2 DEF Unmoved
      <4>3. /\ Old(v) <=> Old(u)
            /\ Past(v) <=> Past(u)
            /\ Installing(v) <=> Installing(u)
        BY <1>2, AroundKeeps
      <4> QED BY <4>1, <4>2, <4>3 DEF Nearly, Layers, GameFits, Around
    <3>3. CASE Follows(u, v) /\ ~Stays(u, v)
      BY <2>1, <3>3
    <3> QED BY <3>1, <3>2, <3>3
  <2> QED BY <1>6, <2>1, <2>2
<1>10. Fits(v)
  BY <1>1, <1>2, <1>3, <1>4, <1>9, ComputeFits
<1> QED BY <1>1, <1>2, <1>3, <1>5, <1>9, <1>10 DEF Sound, Nearly, v

\* A change of the view opens the boxes of the prerequisites and of the rules.
Brings(u) == u.stage \in {"NeedsPrerequisites", "NeedsRules"} => Shows(u, View(u.stage))

LEMMA BringsOpened ==
  ASSUME NEW u, Brings(u)
  PROVE  Opened(u)
BY ViewIs DEF Brings, Opened

LEMMA TurnedViewed ==
  ASSUME NEW u \in Uis, NEW v, Turned(u, v), ViewOf(u), v.stage # "NeedsLanguage"
  PROVE  /\ ViewOf(v)
         /\ ~u.repairing /\ v.stage # u.stage => Brings(v)
<1>1. Typed(u) /\ Typed(v) /\ v.repairing = u.repairing
  BY UiTyped DEF Turned, Around
<1> DEFINE view == View(v.stage)
           old  == View(u.stage)
<1>2. /\ view = "prerequisites" <=> v.stage = "NeedsPrerequisites"
      /\ view = "rules" <=> v.stage = "NeedsRules"
      /\ view = "language" <=> v.stage = "NeedsLanguage"
      /\ old = "prerequisites" <=> u.stage = "NeedsPrerequisites"
      /\ old = "rules" <=> u.stage = "NeedsRules"
      /\ old = "language" <=> u.stage = "NeedsLanguage"
  BY <1>1, ViewTypes DEF Typed
<1>3. SetupBoxes = {"language", "prerequisites", "runtime", "prefix", "game", "rules"}
  BY DEF SetupBoxes
<1> HIDE DEF view, old
<1>4. Shows(v, "repair") <=> Shows(u, "repair")
  <2>1. CASE Stays(u, v)
    BY <2>1 DEF Turned, Unmoved
  <2>2. CASE ~Stays(u, v)
    <3>1. view # "repair"
      BY <1>1, ViewTypes DEF view, Views, SetupBoxes, Typed
    <3> QED BY <1>3, <2>2, <3>1 DEF Turned, Follows, view
  <2> QED BY <2>1, <2>2
<1>5. ~u.repairing => v.view = view
  <2>1. CASE v.stage = u.stage
    BY <2>1 DEF Turned, Stays, Unmoved, ViewOf, view
  <2>2. CASE v.stage # u.stage /\ view = u.view
    BY <2>2 DEF Turned, Stays, Unmoved, view
  <2>3. CASE v.stage # u.stage /\ view # u.view
    BY <2>3 DEF Turned, Stays, Follows, ViewOf, view
  <2> QED BY <2>1, <2>2, <2>3
<1>6. ViewOf(v)
  BY <1>1, <1>4, <1>5 DEF ViewOf, view
<1>7. ASSUME ~u.repairing, v.stage # u.stage PROVE Brings(v)
  <2>1. CASE v.stage \in {"NeedsPrerequisites", "NeedsRules"}
    <3>1. view # u.view
      BY <1>2, <1>7, <2>1 DEF ViewOf, view, old
    <3>2. Follows(u, v)
      BY <1>7, <3>1 DEF Turned, Stays, ViewOf, view
    <3>3. v.stage \in Opening /\ view \notin {"loading", "error"}
      BY <1>2, <2>1 DEF Opening
    <3>4. Shows(v, view)
      BY <3>2, <3>3 DEF Follows, view
    <3> QED BY <3>4 DEF Brings, view
  <2>2. CASE v.stage \notin {"NeedsPrerequisites", "NeedsRules"}
    BY <2>2 DEF Brings
  <2> QED BY <2>1, <2>2
<1> QED BY <1>6, <1>7

LEMMA RecomputeGood ==
  ASSUME NEW u, Nearly(u), GameFits(u) \/ Leaves(u), u.config.language,
         Old(u) => u.repairing, Unseen(u), ViewOf(u),
         Compute(u) = u.stage => u.repairing \/ Opened(u)
  PROVE  LET v == Recompute(u)
         IN  /\ Good(v) /\ Turned(u, v) /\ v.stage = Compute(u)
             /\ ~u.repairing /\ v.stage # u.stage => Brings(v)
<1> DEFINE v == Recompute(u)
<1>1. Sound(v) /\ Says(v) /\ Fits(v) /\ Turned(u, v) /\ v.stage = Compute(u)
  BY RecomputeSound
<1> HIDE DEF v
<1>2. u \in Uis
  BY DEF Nearly
<1>3. v.stage # "NeedsLanguage"
  BY <1>1, <1>2, ComputeStage
<1>4. ViewOf(v) /\ (~u.repairing /\ v.stage # u.stage => Brings(v))
  BY <1>1, <1>2, <1>3, TurnedViewed
<1>5. v.stage = u.stage => Unmoved(u, v) /\ v.config = u.config /\ v.damaged = u.damaged
  BY <1>1 DEF Turned, Stays, Around
<1>6. v.stage = u.stage /\ Opened(u) => Opened(v)
  BY <1>5 DEF Opened, Unmoved
<1>7. v.repairing = u.repairing
  BY <1>1 DEF Turned, Around
<1>8. ~u.repairing => Opened(v)
  BY <1>1, <1>4, <1>6, BringsOpened
<1> QED BY <1>1, <1>4, <1>7, <1>8 DEF Good, Viewed, v

(***************************************************************************)
(* A look at the configuration and the disk                                *)
(***************************************************************************)
\* The sign-in is as it was.
Aside(u, v) ==
  /\ v.config = u.config /\ v.posted = u.posted
  /\ v.pending = u.pending /\ v.scheduled = u.scheduled

LEMMA TurnedAside ==
  ASSUME NEW u, NEW v, Turned(u, v)
  PROVE  Aside(u, v)
  BY DEF Turned, Around, Aside

LEMMA TurnedShows ==
  ASSUME NEW u, NEW v, Turned(u, v), NEW o, Shows(v, o)
  PROVE  Shows(u, o) \/ o = View(v.stage)
  BY DEF Turned, Stays, Unmoved, Follows

LEMMA ProbeGood ==
  ASSUME NEW u, Sound(u), Viewed(u), u.config.language
  PROVE  LET v == Probe(u)
         IN  /\ Good(v) /\ Aside(u, v) /\ v.probed /\ v.seen.config = u.config
             /\ v.failed = u.failed /\ v.repairing = u.repairing
             /\ v.stage # "NeedsLanguage"
             /\ \A o : Shows(v, o) => Shows(u, o) \/ o = View(v.stage)
<1> DEFINE s == [config |-> u.config, prefix |-> u.disk.prefix, game |-> u.disk.game]
           p == [u EXCEPT !.probe = FALSE, !.probed = TRUE, !.seen = s]
           v == Recompute(p)
<1>1. Probe(u) = v
  BY DEF Probe
<1>2. u \in Uis /\ u.disk \in Disked /\ u.config \in Configs
  BY DEF Sound, Nearly, Uis
<1>3. s \in Seens /\ s.config = u.config /\ s.game = u.disk.game
  BY <1>2 DEF Seens, Disked
<1> HIDE DEF s
<1>4. /\ p \in Uis /\ p.config = u.config /\ p.read = u.read /\ p.disk = u.disk /\ p.seen = s
      /\ p.probed = TRUE /\ p.reviewed = u.reviewed /\ p.signing = u.signing /\ p.wine = u.wine
      /\ p.transfer = u.transfer /\ p.failed = u.failed /\ p.stage = u.stage /\ p.view = u.view
      /\ p.message = u.message /\ p.muted = u.muted /\ p.damaged = u.damaged
      /\ p.repairing = u.repairing /\ p.pending = u.pending /\ p.scheduled = u.scheduled
      /\ p.posted = u.posted /\ p.changed = u.changed /\ p.probe = FALSE
      /\ p.open = u.open /\ p.box = u.box
  BY <1>2, <1>3 DEF Uis
<1> HIDE DEF p
<1>5. Typed(u) /\ Typed(p)
  BY <1>2, <1>4, UiTyped
<1>6. ~Old(p) /\ Unseen(p) /\ (Past(u) => Past(p) /\ ~Old(u))
  BY <1>3, <1>4 DEF Old, Unseen, Past
<1>7. Seen(p)
  <2>1. Seen(u) /\ (SigningIn(p) <=> SigningIn(u)) /\ (Installing(p) <=> Installing(u))
    BY <1>4 DEF Sound, Nearly, SigningIn, Installing
  <2>2. Past(u) => u.disk.game = u.seen.game
    BY <1>6, <2>1 DEF Seen, Past
  <2>3. /\ p.wine \/ p.failed # "none" \/ SigningIn(p) \/ Installing(p) => Past(p)
        /\ SigningIn(p) => p.seen.game
    BY <1>3, <1>4, <1>6, <2>1, <2>2 DEF Seen
  <2>4. /\ p.pending => ~p.scheduled
        /\ p.repairing => p.transfer /\ p.config.language
        /\ p.failed # "none" => p.message \/ p.muted
        /\ p.config.rules \/ p.config.runtime => p.config.prerequisites
    BY <1>4, <2>1 DEF Seen
  <2> QED BY <1>3, <1>4, <1>6, <2>3, <2>4 DEF Seen
<1>8. Honest(p)
  BY <1>3, <1>4, <1>5 DEF Honest, Sound, Nearly
<1>9. \A o : Shows(p, o) <=> Shows(u, o)
  BY <1>4 DEF Shows
<1>10. Countdown(p) /\ Stacked(p.open)
  BY <1>4, <1>9 DEF Countdown, Sound, Nearly
<1>11. Layers(p) /\ GameFits(p)
  <2>1. Shows(u, "game") => ~s.game /\ s.config.runtime
    <3>1. Shows(u, "game") => Past(u) /\ ~u.seen.game /\ u.seen.config.runtime
      BY DEF Sound, Nearly, Layers, GameFits, Late
    <3> QED BY <3>1, <1>3, <1>5, <1>6 DEF Sound, Nearly, Seen, Past
  <2>2. Installing(p) <=> Installing(u)
    BY <1>4 DEF Installing
  <2> QED BY <1>3, <1>4, <1>6, <1>9, <2>1, <2>2 DEF Layers, GameFits, Sound, Nearly
<1>12. Sound(p)
  BY <1>4, <1>7, <1>8, <1>10, <1>11 DEF Sound, Nearly
<1>13. ViewOf(p) /\ (p.repairing \/ Opened(p))
  BY <1>4, <1>9 DEF Viewed, ViewOf, Opened
<1>14. Good(v) /\ Turned(p, v) /\ v.stage = Compute(p)
  BY <1>4, <1>6, <1>12, <1>13, RecomputeGood DEF Sound
<1>15. v.stage # "NeedsLanguage"
  BY <1>4, <1>14, ComputeStage
<1> HIDE DEF v
<1>16. /\ Aside(p, v) /\ v.seen = p.seen /\ v.probed = p.probed /\ v.failed = p.failed
       /\ v.repairing = p.repairing
  BY <1>14, TurnedAside DEF Turned, Around
<1>17. \A o : Shows(v, o) => Shows(p, o) \/ o = View(v.stage)
  BY <1>14, TurnedShows
<1> QED BY <1>1, <1>3, <1>4, <1>9, <1>14, <1>15, <1>16, <1>17 DEF Aside

LEMMA NothingToProbe ==
  ASSUME NEW u, Says(u), ~u.config.language
  PROVE  Probe(u) = u /\ ScheduleProbe(u) = u
  BY DEF Says, Probe, ScheduleProbe, Become

LEMMA ProbeKeeps ==
  ASSUME NEW u, Good(u)
  PROVE  Good(Probe(u)) /\ Aside(u, Probe(u))
<1>1. CASE u.config.language
  BY <1>1, ProbeGood DEF Good
<1>2. CASE ~u.config.language
  BY <1>2, NothingToProbe DEF Good, Aside
<1> QED BY <1>1, <1>2

(***************************************************************************)
(* Changes that a look at them will follow                                 *)
(***************************************************************************)
\* v has less under way than u, and a look at it is due.
Eases(u, v) ==
  /\ v \in Uis /\ v.open = u.open /\ v.box = u.box /\ v.stage = u.stage /\ v.view = u.view
  /\ v.seen = u.seen /\ v.probed = u.probed /\ v.reviewed = u.reviewed /\ v.read = u.read
  /\ v.transfer = u.transfer /\ v.repairing = u.repairing /\ v.damaged = u.damaged
  /\ v.disk.game = u.disk.game
  /\ \A f \in {"language", "prerequisites", "runtime"} : v.config[f] = u.config[f]
  /\ v.config.rules => u.config.rules \/ (u.read /\ u.config.prerequisites)
  /\ v.failed # "none" => v.failed = u.failed /\ (v.message \/ v.muted)
  /\ v.wine => u.wine
  /\ SigningIn(v) => SigningIn(u)
  /\ v.pending => ~v.scheduled
  /\ Lag(v)

LEMMA EasedGood ==
  ASSUME NEW u, NEW v, Good(u), Eases(u, v)
  PROVE  Good(v)
<1>1. u \in Uis /\ v \in Uis
  BY DEF Good, Sound, Nearly, Eases
<1>2. Typed(u) /\ Typed(v)
  BY <1>1, UiTyped
<1>3. \A o : Shows(v, o) <=> Shows(u, o)
  BY DEF Shows, Eases
<1>4. /\ v.config.language = u.config.language
      /\ v.config.prerequisites = u.config.prerequisites
      /\ v.config.runtime = u.config.runtime
  BY DEF Eases
<1>5. /\ Old(v) <=> Old(u)
      /\ Past(v) <=> Past(u)
      /\ Installing(v) <=> Installing(u)
      /\ Unseen(v) <=> Unseen(u)
  BY <1>4 DEF Eases, Old, Past, Installing, Unseen
<1>6. Seen(v)
  BY <1>2, <1>4, <1>5 DEF Eases, Good, Sound, Nearly, Seen
<1>7. Honest(v) /\ Countdown(v) /\ Stacked(v.open)
  BY <1>3, <1>4, <1>5 DEF Eases, Good, Sound, Nearly, Honest, Countdown
<1>8. Layers(v) /\ GameFits(v)
  BY <1>2, <1>3, <1>4, <1>5 DEF Eases, Good, Sound, Nearly, Layers, GameFits
<1>9. Says(v)
  BY <1>2, <1>4 DEF Eases, Good, Says
<1>10. Fits(v)
  BY <1>3, <1>5 DEF Eases, Good, Fits
<1>11. Viewed(v)
  BY <1>3, <1>4 DEF Eases, Good, Viewed, ViewOf, Opened
<1> QED BY <1>1, <1>6, <1>7, <1>8, <1>9, <1>10, <1>11 DEF Good, Sound, Nearly

LEMMA ScheduleKeeps ==
  ASSUME NEW u, Good(u)
  PROVE  /\ Good(ScheduleProbe(u)) /\ Aside(u, ScheduleProbe(u))
         /\ u.config.language => Lag(ScheduleProbe(u))
<1>1. CASE u.config.language
  <2> DEFINE v == [u EXCEPT !.probe = TRUE]
  <2>1. u \in Uis
    BY DEF Good, Sound, Nearly
  <2>2. Eases(u, v) /\ Aside(u, v) /\ Lag(v)
    BY ZenonT(60), <2>1 DEF Good, Sound, Nearly, Seen, Uis, Eases, Aside, SigningIn, Lag
  <2>3. ScheduleProbe(u) = v
    BY <1>1 DEF ScheduleProbe
  <2> QED BY <2>2, <2>3, EasedGood
<1>2. CASE ~u.config.language
  BY <1>2, NothingToProbe DEF Good, Aside
<1> QED BY <1>1, <1>2

LEMMA FieldNames ==
  DOMAIN Empty = {"language", "prerequisites", "runtime", "rules", "account"}
  BY DEF Empty

\* Config::set_...(): all but the configuration is as it was.
Changed(u, v) ==
  /\ v \in Uis /\ v.changed
  /\ v.read = u.read /\ v.disk = u.disk /\ v.seen = u.seen /\ v.probed = u.probed
  /\ v.reviewed = u.reviewed /\ v.signing = u.signing /\ v.wine = u.wine
  /\ v.transfer = u.transfer /\ v.failed = u.failed /\ v.stage = u.stage
  /\ v.view = u.view /\ v.message = u.message /\ v.muted = u.muted
  /\ v.damaged = u.damaged /\ v.repairing = u.repairing /\ v.pending = u.pending
  /\ v.scheduled = u.scheduled /\ v.posted = u.posted /\ v.probe = u.probe
  /\ v.open = u.open /\ v.box = u.box

LEMMA SetIs ==
  ASSUME NEW u \in Uis, NEW fields, DOMAIN fields \subseteq DOMAIN Empty,
         \A f \in DOMAIN fields : fields[f] \in BOOLEAN
  PROVE  LET v == Set(u, fields)
         IN  /\ Changed(u, v)
             /\ \A f \in DOMAIN Empty :
                  v.config[f] = IF f \in DOMAIN fields THEN fields[f] ELSE u.config[f]
<1> DEFINE c == [f \in DOMAIN u.config |-> IF f \in DOMAIN fields THEN fields[f] ELSE u.config[f]]
           v == [u EXCEPT !.config = c, !.changed = TRUE]
<1>1. u.config \in Configs
  BY DEF Uis
<1>2. c \in Configs
      /\ \A f \in DOMAIN Empty : c[f] = IF f \in DOMAIN fields THEN fields[f] ELSE u.config[f]
  BY <1>1 DEF Configs
<1>3. Set(u, fields) = v
  BY DEF Set
<1> HIDE DEF c
<1>4. Changed(u, v) /\ v.config = c
  BY <1>2 DEF Uis, Changed
<1> QED BY <1>2, <1>3, <1>4

LEMMA SetLanguage ==
  ASSUME NEW u \in Uis
  PROVE  LET v == Set(u, [language |-> TRUE])
         IN  /\ Changed(u, v)
             /\ v.config.language = TRUE
             /\ v.config.prerequisites = u.config.prerequisites
             /\ v.config.runtime = u.config.runtime
             /\ v.config.rules = u.config.rules
             /\ v.config.account = u.config.account
<1> DEFINE fields == [language |-> TRUE]
<1>1. /\ DOMAIN fields = {"language"}
      /\ fields["language"] = TRUE
  OBVIOUS
<1> HIDE DEF fields
<1>2. Changed(u, Set(u, fields)) /\ \A f \in DOMAIN Empty :
        Set(u, fields).config[f] = IF f \in DOMAIN fields THEN fields[f] ELSE u.config[f]
  BY <1>1, FieldNames, SetIs
<1> QED BY <1>1, <1>2, FieldNames DEF fields

LEMMA SetRuntime ==
  ASSUME NEW u \in Uis
  PROVE  LET v == Set(u, [runtime |-> TRUE])
         IN  /\ Changed(u, v)
             /\ v.config.language = u.config.language
             /\ v.config.prerequisites = u.config.prerequisites
             /\ v.config.runtime = TRUE
             /\ v.config.rules = u.config.rules
             /\ v.config.account = u.config.account
<1> DEFINE fields == [runtime |-> TRUE]
<1>1. /\ DOMAIN fields = {"runtime"}
      /\ fields["runtime"] = TRUE
  OBVIOUS
<1> HIDE DEF fields
<1>2. Changed(u, Set(u, fields)) /\ \A f \in DOMAIN Empty :
        Set(u, fields).config[f] = IF f \in DOMAIN fields THEN fields[f] ELSE u.config[f]
  BY <1>1, FieldNames, SetIs
<1> QED BY <1>1, <1>2, FieldNames DEF fields

LEMMA SetPrerequisites ==
  ASSUME NEW u \in Uis
  PROVE  LET v == Set(u, [prerequisites |-> TRUE])
         IN  /\ Changed(u, v)
             /\ v.config.language = u.config.language
             /\ v.config.prerequisites = TRUE
             /\ v.config.runtime = u.config.runtime
             /\ v.config.rules = u.config.rules
             /\ v.config.account = u.config.account
<1> DEFINE fields == [prerequisites |-> TRUE]
<1>1. /\ DOMAIN fields = {"prerequisites"}
      /\ fields["prerequisites"] = TRUE
  OBVIOUS
<1> HIDE DEF fields
<1>2. Changed(u, Set(u, fields)) /\ \A f \in DOMAIN Empty :
        Set(u, fields).config[f] = IF f \in DOMAIN fields THEN fields[f] ELSE u.config[f]
  BY <1>1, FieldNames, SetIs
<1> QED BY <1>1, <1>2, FieldNames DEF fields

LEMMA SetOwnRuntime ==
  ASSUME NEW u \in Uis
  PROVE  LET v == Set(u, [prerequisites |-> TRUE, runtime |-> FALSE])
         IN  /\ Changed(u, v)
             /\ v.config.language = u.config.language
             /\ v.config.prerequisites = TRUE
             /\ v.config.runtime = FALSE
             /\ v.config.rules = u.config.rules
             /\ v.config.account = u.config.account
<1> DEFINE fields == [prerequisites |-> TRUE, runtime |-> FALSE]
<1>1. /\ DOMAIN fields = {"prerequisites", "runtime"}
      /\ fields["prerequisites"] = TRUE /\ fields["runtime"] = FALSE
  OBVIOUS
<1> HIDE DEF fields
<1>2. Changed(u, Set(u, fields)) /\ \A f \in DOMAIN Empty :
        Set(u, fields).config[f] = IF f \in DOMAIN fields THEN fields[f] ELSE u.config[f]
  BY ZenonT(60), <1>1, FieldNames, SetIs
<1> QED BY <1>1, <1>2, FieldNames DEF fields

LEMMA SetRules ==
  ASSUME NEW u \in Uis
  PROVE  LET v == Set(u, [rules |-> TRUE])
         IN  /\ Changed(u, v)
             /\ v.config.language = u.config.language
             /\ v.config.prerequisites = u.config.prerequisites
             /\ v.config.runtime = u.config.runtime
             /\ v.config.rules = TRUE
             /\ v.config.account = u.config.account
<1> DEFINE fields == [rules |-> TRUE]
<1>1. /\ DOMAIN fields = {"rules"}
      /\ fields["rules"] = TRUE
  OBVIOUS
<1> HIDE DEF fields
<1>2. Changed(u, Set(u, fields)) /\ \A f \in DOMAIN Empty :
        Set(u, fields).config[f] = IF f \in DOMAIN fields THEN fields[f] ELSE u.config[f]
  BY <1>1, FieldNames, SetIs
<1> QED BY <1>1, <1>2, FieldNames DEF fields

LEMMA SetAccount ==
  ASSUME NEW u \in Uis
  PROVE  LET v == Set(u, [account |-> TRUE])
         IN  /\ Changed(u, v)
             /\ v.config.language = u.config.language
             /\ v.config.prerequisites = u.config.prerequisites
             /\ v.config.runtime = u.config.runtime
             /\ v.config.rules = u.config.rules
             /\ v.config.account = TRUE
<1> DEFINE fields == [account |-> TRUE]
<1>1. /\ DOMAIN fields = {"account"}
      /\ fields["account"] = TRUE
  OBVIOUS
<1> HIDE DEF fields
<1>2. Changed(u, Set(u, fields)) /\ \A f \in DOMAIN Empty :
        Set(u, fields).config[f] = IF f \in DOMAIN fields THEN fields[f] ELSE u.config[f]
  BY ZenonT(60), <1>1, FieldNames, SetIs
<1> QED BY <1>1, <1>2, FieldNames DEF fields

LEMMA ClearAccount ==
  ASSUME NEW u \in Uis
  PROVE  LET v == Set(u, [account |-> FALSE])
         IN  /\ Changed(u, v)
             /\ v.config.language = u.config.language
             /\ v.config.prerequisites = u.config.prerequisites
             /\ v.config.runtime = u.config.runtime
             /\ v.config.rules = u.config.rules
             /\ v.config.account = FALSE
<1> DEFINE fields == [account |-> FALSE]
<1>1. /\ DOMAIN fields = {"account"}
      /\ fields["account"] = FALSE
  OBVIOUS
<1> HIDE DEF fields
<1>2. Changed(u, Set(u, fields)) /\ \A f \in DOMAIN Empty :
        Set(u, fields).config[f] = IF f \in DOMAIN fields THEN fields[f] ELSE u.config[f]
  BY ZenonT(60), <1>1, FieldNames, SetIs
<1> QED BY <1>1, <1>2, FieldNames DEF fields

\* The error is shown, or kept from the user.
LEMMA SetErrorIs ==
  ASSUME NEW u \in Uis, NEW who \in {"auth", "wine"}, u.failed # "none" => u.message \/ u.muted
  PROVE  LET v == SetError(u, who)
         IN  /\ v \in Uis /\ v.failed = who /\ (v.message \/ v.muted)
             /\ v.config = u.config /\ v.read = u.read /\ v.disk = u.disk /\ v.seen = u.seen
             /\ v.probed = u.probed /\ v.reviewed = u.reviewed /\ v.signing = u.signing
             /\ v.wine = u.wine /\ v.transfer = u.transfer /\ v.stage = u.stage
             /\ v.view = u.view /\ v.damaged = u.damaged /\ v.repairing = u.repairing
             /\ v.pending = u.pending /\ v.scheduled = u.scheduled /\ v.posted = u.posted
             /\ v.changed = u.changed /\ v.probe = u.probe /\ v.open = u.open /\ v.box = u.box
<1> DEFINE covered == Shows(u, "game") \/ Shows(u, "repair")
           m == u.message \/ ~covered
           w == [u EXCEPT !.failed = who, !.message = m, !.muted = covered]
<1>1. SetError(u, who) = IF u.failed = who THEN u ELSE w
  BY DEF SetError
<1>2. covered \in BOOLEAN /\ m \in BOOLEAN /\ (m \/ covered)
  OBVIOUS
<1>3. CASE u.failed = who
  BY <1>1, <1>3
<1>4. CASE u.failed # who
  <2> HIDE DEF m, covered
  <2>1. /\ w \in Uis /\ w.failed = who /\ w.message = m /\ w.muted = covered
        /\ w.config = u.config /\ w.read = u.read /\ w.disk = u.disk /\ w.seen = u.seen
        /\ w.probed = u.probed /\ w.reviewed = u.reviewed /\ w.signing = u.signing
        /\ w.wine = u.wine /\ w.transfer = u.transfer /\ w.stage = u.stage
        /\ w.view = u.view /\ w.damaged = u.damaged /\ w.repairing = u.repairing
        /\ w.pending = u.pending /\ w.scheduled = u.scheduled /\ w.posted = u.posted
        /\ w.changed = u.changed /\ w.probe = u.probe /\ w.open = u.open /\ w.box = u.box
    BY ZenonT(60), <1>2 DEF Uis
  <2> QED BY <1>1, <1>2, <1>4, <2>1
<1> QED BY <1>3, <1>4

(***************************************************************************)
(* What ends, and what fails                                               *)
(***************************************************************************)
\* v has less under way than u, or has failed; the stage is still that of u.
Lessens(u, v) ==
  /\ v \in Uis /\ v.open = u.open /\ v.box = u.box /\ v.stage = u.stage /\ v.view = u.view
  /\ v.config = u.config /\ v.seen = u.seen /\ v.probed = u.probed
  /\ v.reviewed = u.reviewed /\ v.read = u.read /\ v.repairing = u.repairing
  /\ v.damaged = u.damaged /\ v.changed = u.changed /\ v.probe = u.probe
  /\ v.disk.game = u.disk.game
  /\ v.transfer # u.transfer => ~v.transfer /\ ~u.repairing
  /\ v.wine => u.wine
  /\ SigningIn(v) => SigningIn(u)
  /\ v.pending => ~v.scheduled
  /\ v.failed # "none" => Past(u) /\ (v.message \/ v.muted)
  /\ v.failed # u.failed => ~Shows(u, "game")

LEMMA LessSound ==
  ASSUME NEW u, NEW v, Good(u), Lessens(u, v)
  PROVE  Sound(v) /\ Viewed(v) /\ Unseen(v) /\ (Old(v) <=> Old(u))
<1>1. Typed(u) /\ Typed(v)
  BY UiTyped DEF Good, Sound, Nearly, Lessens
<1>2. \A o : Shows(v, o) <=> Shows(u, o)
  BY DEF Shows, Lessens
<1>3. /\ Old(v) <=> Old(u)
      /\ Past(v) <=> Past(u)
      /\ Lag(v) <=> Lag(u)
      /\ Unseen(v) <=> Unseen(u)
      /\ Installing(v) => Installing(u)
  BY <1>1 DEF Lessens, Old, Past, Lag, Unseen, Installing, Typed
<1>4. Seen(v)
  <2>1. Seen(u)
    BY DEF Good, Sound, Nearly
  <2>2. v.repairing => v.transfer /\ v.config.language
    BY <1>1, <2>1 DEF Lessens, Seen
  <2> QED BY <1>3, <2>1, <2>2 DEF Lessens, Seen
<1>5. Honest(v) /\ Countdown(v) /\ Stacked(v.open)
  BY <1>2, <1>3 DEF Lessens, Good, Sound, Nearly, Honest, Countdown
<1>6. Layers(v) /\ GameFits(v)
  BY <1>2, <1>3 DEF Lessens, Good, Sound, Nearly, Layers, GameFits
<1>7. Nearly(v)
  BY <1>4, <1>5, <1>6 DEF Nearly, Lessens
<1>8. ViewOf(v) /\ (v.repairing \/ Opened(v))
  BY <1>2 DEF Lessens, Good, Viewed, ViewOf, Opened
<1>9. Unseen(v)
  BY <1>3 DEF Good, Fits
<1> QED BY <1>3, <1>6, <1>7, <1>8, <1>9 DEF Sound, Viewed

LEMMA LessGood ==
  ASSUME NEW u, NEW v, Good(u), Lessens(u, v), u.config.language, Old(u) => u.repairing
  PROVE  Good(Recompute(v)) /\ Turned(v, Recompute(v)) /\ Recompute(v).stage = Compute(v)
         /\ (~v.repairing /\ Recompute(v).stage # v.stage => Brings(Recompute(v)))
<1>1. Sound(v) /\ Viewed(v) /\ Unseen(v) /\ (Old(v) <=> Old(u))
  BY LessSound
<1>2. v.config.language /\ (Old(v) => v.repairing)
  BY <1>1 DEF Lessens
<1> QED BY <1>1, <1>2, RecomputeGood DEF Sound, Viewed

\* Where something is under way that a look at the prerequisites went before.
LEMMA PastIs ==
  ASSUME NEW u, Past(u)
  PROVE  u.config.language /\ ~Old(u)
  BY DEF Past, Old

LEMMA FailureGood ==
  ASSUME NEW u, NEW v, NEW who \in {"auth", "wine"}, Good(u), Lessens(u, v), Past(u),
         ~Shows(u, "game")
  PROVE  Good(Failure(v, who)) /\ Aside(v, Failure(v, who))
<1> DEFINE w == SetError(v, who)
<1>1. v \in Uis /\ (v.failed # "none" => v.message \/ v.muted)
  BY DEF Lessens
<1>2. /\ w \in Uis /\ w.failed = who /\ (w.message \/ w.muted)
      /\ w.config = v.config /\ w.read = v.read /\ w.disk = v.disk /\ w.seen = v.seen
      /\ w.probed = v.probed /\ w.reviewed = v.reviewed /\ w.signing = v.signing
      /\ w.wine = v.wine /\ w.transfer = v.transfer /\ w.stage = v.stage
      /\ w.view = v.view /\ w.damaged = v.damaged /\ w.repairing = v.repairing
      /\ w.pending = v.pending /\ w.scheduled = v.scheduled /\ w.posted = v.posted
      /\ w.changed = v.changed /\ w.probe = v.probe /\ w.open = v.open /\ w.box = v.box
  BY <1>1, SetErrorIs
<1> HIDE DEF w
<1>3. Lessens(u, w)
  BY <1>2 DEF Lessens, SigningIn
<1>4. Good(Recompute(w)) /\ Turned(w, Recompute(w))
  BY <1>3, PastIs, LessGood
<1>5. Aside(w, Recompute(w))
  BY <1>4, TurnedAside
<1>6. Failure(v, who) = Recompute(w)
  BY DEF Failure, w
<1> QED BY <1>2, <1>4, <1>5, <1>6 DEF Aside

(***************************************************************************)
(* The sign-in                                                             *)
(***************************************************************************)
LEMMA EventsAre ==
  /\ Callback \in Events /\ Due \in Events /\ Overdue \in Events
  /\ Callback.event # "complete" /\ Due.event = "complete" /\ Overdue.event = "complete"
  /\ Due # Callback /\ Due # Overdue /\ <<>> \in Seq(Events)
  BY DEF Callback, Due, Overdue, Events

LEMMA NoSignIn ==
  ASSUME NEW u, Good(u), SigningIn(u)
  PROVE  Past(u) /\ ~Shows(u, "game")
  BY DEF Good, Sound, Nearly, Seen, GameFits

OverOf(q) == [i \in DOMAIN q |-> IF q[i].event = "complete" THEN Overdue ELSE q[i]]

LEMMA OverQueue ==
  ASSUME NEW q \in Seq(Events)
  PROVE  /\ OverOf(q) \in Seq(Events) /\ DOMAIN OverOf(q) = DOMAIN q
         /\ (OverOf(q) = <<>> <=> q = <<>>)
         /\ \A i \in DOMAIN q : q[i] = Callback => OverOf(q)[i] = Callback
<1>1. Len(q) \in Nat /\ DOMAIN q = 1 .. Len(q) /\ \A i \in 1 .. Len(q) : q[i] \in Events
  OBVIOUS
<1>2. OverOf(q) \in [1 .. Len(q) -> Events]
  BY <1>1, EventsAre DEF OverOf
<1>3. OverOf(q) \in Seq(Events) /\ Len(OverOf(q)) = Len(q)
  BY <1>1, <1>2
<1>4. OverOf(q) = <<>> <=> q = <<>>
  BY <1>3
<1> QED BY <1>1, <1>3, <1>4, EventsAre DEF OverOf

\* An attempt that is over, however it ends.
Ended(u) == [Over(ResetPendingLogin(u)) EXCEPT !.scheduled = FALSE, !.signing = FALSE]

LEMMA EndedIs ==
  ASSUME NEW u, Good(u)
  PROVE  LET v == Ended(u)
         IN  /\ Lessens(u, v) /\ v.failed = u.failed /\ ~v.pending /\ ~v.scheduled
             /\ v.config = u.config /\ v.posted = OverOf(u.posted) /\ ~v.signing
             /\ v.reviewed = u.reviewed /\ v.message = u.message /\ v.disk = u.disk
             /\ v.wine = u.wine /\ v.transfer = u.transfer
<1>1. u \in Uis /\ u.posted \in Seq(Events)
  BY DEF Good, Sound, Nearly, Uis
<1> DEFINE q == OverOf(u.posted)
           v == [u EXCEPT !.pending = FALSE, !.posted = q, !.scheduled = FALSE, !.signing = FALSE]
<1>2. q \in Seq(Events)
  BY <1>1, OverQueue
<1>3. Ended(u) = v
  <2>1. ResetPendingLogin(u) = [u EXCEPT !.pending = FALSE]
    BY DEF ResetPendingLogin
  <2> DEFINE r == [u EXCEPT !.pending = FALSE]
  <2>2. r.posted = u.posted
    BY <1>1 DEF Uis
  <2>3. Over(r) = [r EXCEPT !.posted = q]
    BY <2>2 DEF Over, OverOf
  <2> HIDE DEF q
  <2>4. [[r EXCEPT !.posted = q] EXCEPT !.scheduled = FALSE, !.signing = FALSE] = v
    BY <1>1 DEF Uis
  <2> QED BY <2>1, <2>3, <2>4 DEF Ended
<1> HIDE DEF q
<1>4. /\ v \in Uis /\ v.open = u.open /\ v.box = u.box /\ v.stage = u.stage /\ v.view = u.view
      /\ v.config = u.config /\ v.seen = u.seen /\ v.probed = u.probed
      /\ v.reviewed = u.reviewed /\ v.read = u.read /\ v.repairing = u.repairing
      /\ v.damaged = u.damaged /\ v.changed = u.changed /\ v.probe = u.probe
      /\ v.disk = u.disk /\ v.transfer = u.transfer /\ v.wine = u.wine
      /\ v.failed = u.failed /\ v.message = u.message /\ v.muted = u.muted
      /\ ~v.pending /\ ~v.signing /\ ~v.scheduled /\ v.posted = q
  BY <1>1, <1>2 DEF Uis
<1> HIDE DEF v
<1>5. Lessens(u, v)
  BY <1>4 DEF Lessens, SigningIn, Good, Sound, Nearly, Seen
<1> QED BY <1>3, <1>4, <1>5 DEF q

LEMMA OverQueued ==
  ASSUME NEW u, NEW v, u.posted \in Seq(Events), Queued(u), v.posted = OverOf(u.posted),
         ~v.scheduled
  PROVE  Queued(v)
  BY OverQueue DEF Queued

LEMMA CancelLoginKeeps ==
  ASSUME NEW u, Good(u)
  PROVE  LET v == CancelLogin(u)
         IN  /\ Good(v) /\ v.config = u.config /\ (Queued(u) => Queued(v))
             /\ ~v.pending /\ ~v.scheduled /\ ~v.signing
             /\ v.disk = u.disk /\ v.read = u.read /\ v.wine = u.wine /\ v.seen = u.seen
             /\ v.transfer = u.transfer /\ v.failed = u.failed /\ v.probed = u.probed
             /\ v.repairing = u.repairing
             /\ v.stage = u.stage \/ (v.stage = Compute(v) /\ (v.repairing \/ Brings(v)))
             /\ u.open = v.open \/ \A o : Shows(v, o) => Shows(u, o) \/ o = View(v.stage)
<1>1. u \in Uis /\ u.posted \in Seq(Events) /\ Typed(u)
  BY UiTyped DEF Good, Sound, Nearly, Uis
<1>2. CASE ~u.pending /\ ~u.scheduled /\ ~u.signing
  BY <1>2 DEF CancelLogin
<1>3. CASE SigningIn(u)
  <2> DEFINE w == Ended(u)
             v == Recompute(w)
  <2>1. CancelLogin(u) = v
    BY <1>3 DEF CancelLogin, Ended, SigningIn
  <2>2. Past(u)
    BY <1>3, NoSignIn
  <2>3. /\ Lessens(u, w) /\ w.config = u.config /\ w.posted = OverOf(u.posted)
        /\ ~w.pending /\ ~w.scheduled /\ ~w.signing /\ w.disk = u.disk
        /\ w.wine = u.wine /\ w.transfer = u.transfer /\ w.failed = u.failed
        /\ w.repairing = u.repairing /\ w.seen = u.seen /\ w.probed = u.probed
    BY EndedIs DEF Lessens
  <2> HIDE DEF w
  <2>4. /\ Good(v) /\ Turned(w, v) /\ v.stage = Compute(w)
        /\ ~w.repairing /\ v.stage # w.stage => Brings(v)
    BY <2>2, <2>3, PastIs, LessGood
  <2> HIDE DEF v
  <2>5. Around(w, v) /\ Aside(w, v)
    BY <2>4, TurnedAside DEF Turned
  <2>6. Compute(v) = Compute(w)
    BY <2>5, AroundCompute
  <2>7. Queued(u) => Queued(v)
    BY <1>1, <2>3, <2>5, OverQueued DEF Aside
  <2>8. w.stage = u.stage /\ w.read = u.read /\ \A o : Shows(w, o) <=> Shows(u, o)
    BY <2>3 DEF Lessens, Shows
  <2>9. \A o : Shows(v, o) => Shows(u, o) \/ o = View(v.stage)
    BY <2>4, <2>8, TurnedShows
  <2> QED BY <2>1, <2>3, <2>4, <2>5, <2>6, <2>7, <2>8, <2>9 DEF Around, Aside
<1> QED BY <1>1, <1>2, <1>3 DEF SigningIn, Typed

LEMMA FailLoginKeeps ==
  ASSUME NEW u, Good(u), u.pending
  PROVE  LET v == FailLogin(u)
         IN  /\ Good(v) /\ v.config = u.config /\ (Queued(u) => Queued(v))
             /\ v.posted = OverOf(u.posted) /\ ~v.pending /\ ~v.scheduled
<1>1. u \in Uis /\ u.posted \in Seq(Events) /\ ~u.scheduled /\ Typed(u)
  BY UiTyped DEF Good, Sound, Nearly, Uis, Seen
<1> DEFINE w == Ended(u)
           v == Failure(w, "auth")
<1>2. FailLogin(u) = v
  <2> DEFINE r == Over(ResetPendingLogin(u))
  <2>1. r.scheduled = u.scheduled
    BY <1>1 DEF Over, ResetPendingLogin, Uis
  <2>2. r = [r EXCEPT !.scheduled = r.scheduled]
    BY <1>1 DEF Over, ResetPendingLogin, Uis
  <2>3. u.scheduled = FALSE
    BY <1>1 DEF Typed
  <2>4. w = [r EXCEPT !.signing = FALSE]
    BY <1>1, <2>1, <2>3 DEF Ended, Over, ResetPendingLogin, Uis
  <2> QED BY <2>4 DEF FailLogin
<1>3. Past(u) /\ ~Shows(u, "game")
  BY NoSignIn DEF SigningIn
<1>4. /\ Lessens(u, w) /\ w.config = u.config /\ w.posted = OverOf(u.posted)
      /\ ~w.pending /\ ~w.scheduled
  BY EndedIs
<1> HIDE DEF w
<1>5. Good(v) /\ Aside(w, v)
  BY <1>3, <1>4, FailureGood
<1> HIDE DEF v
<1>6. Queued(u) => Queued(v)
  BY <1>1, <1>4, <1>5, OverQueued DEF Aside
<1> QED BY <1>2, <1>4, <1>5, <1>6 DEF Aside

\* A change of the queue and of what waits for it, and of nothing else.
Requeues(u, v) ==
  /\ v \in Uis /\ v.open = u.open /\ v.box = u.box /\ v.stage = u.stage /\ v.view = u.view
  /\ Around([u EXCEPT !.pending = v.pending, !.scheduled = v.scheduled, !.posted = v.posted], v)
  /\ SigningIn(v) => SigningIn(u)
  /\ v.pending => ~v.scheduled

LEMMA RequeuedGood ==
  ASSUME NEW u, NEW v, Good(u), Requeues(u, v)
  PROVE  Good(v) /\ v.config = u.config
<1>1. u \in Uis
  BY DEF Good, Sound, Nearly
<1>2. /\ v.open = u.open /\ v.box = u.box /\ v.stage = u.stage /\ v.view = u.view
      /\ v.config = u.config /\ v.read = u.read /\ v.disk = u.disk /\ v.seen = u.seen
      /\ v.probed = u.probed /\ v.reviewed = u.reviewed /\ v.signing = u.signing
      /\ v.wine = u.wine /\ v.transfer = u.transfer /\ v.failed = u.failed
      /\ v.message = u.message /\ v.muted = u.muted /\ v.damaged = u.damaged
      /\ v.repairing = u.repairing /\ v.changed = u.changed /\ v.probe = u.probe
  BY <1>1 DEF Requeues, Around, Uis
<1>3. \A o : Shows(v, o) <=> Shows(u, o)
  BY <1>2 DEF Shows
<1>4. /\ Old(v) <=> Old(u)
      /\ Past(v) <=> Past(u)
      /\ Lag(v) <=> Lag(u)
      /\ Unseen(v) <=> Unseen(u)
      /\ Installing(v) <=> Installing(u)
  BY <1>2 DEF Old, Past, Lag, Unseen, Installing
<1>5. Compute(v) = Compute(u)
  BY <1>2, ComputeSame
<1>6. Seen(v)
  BY <1>2, <1>4 DEF Requeues, Good, Sound, Nearly, Seen
<1>7. Honest(v) /\ Countdown(v) /\ Stacked(v.open)
  BY <1>2, <1>3, <1>4 DEF Good, Sound, Nearly, Honest, Countdown
<1>8. Layers(v) /\ GameFits(v)
  BY <1>2, <1>3, <1>4 DEF Good, Sound, Nearly, Layers, GameFits
<1>9. Says(v)
  BY <1>2 DEF Good, Says
<1>10. Fits(v)
  BY <1>2, <1>3, <1>4, <1>5 DEF Good, Fits
<1>11. Viewed(v)
  BY <1>2, <1>3 DEF Good, Viewed, ViewOf, Opened
<1> QED BY <1>2, <1>6, <1>7, <1>8, <1>9, <1>10, <1>11 DEF Good, Sound, Nearly, Requeues

LEMMA ScheduleCompletionKeeps ==
  ASSUME NEW u, Good(u), u.pending
  PROVE  LET v == ScheduleCompletion(u)
         IN  /\ Good(v) /\ v.config = u.config /\ v.posted = Append(u.posted, Due)
             /\ ~v.pending /\ v.scheduled
<1>1. u \in Uis /\ u.posted \in Seq(Events)
  BY DEF Good, Sound, Nearly, Uis
<1> DEFINE q == Append(u.posted, Due)
           v == [u EXCEPT !.pending = FALSE, !.scheduled = TRUE, !.posted = q]
<1>2. q \in Seq(Events)
  BY <1>1, EventsAre
<1>3. ScheduleCompletion(u) = v
  BY DEF ScheduleCompletion
<1> HIDE DEF q
<1>4. v \in Uis /\ v.posted = q /\ ~v.pending /\ v.scheduled
  BY ZenonT(60), <1>1, <1>2 DEF Uis
<1>5. Requeues(u, v)
  BY <1>1, <1>2, <1>4 DEF Requeues, Around, SigningIn, Uis
<1> QED BY <1>3, <1>4, <1>5, RequeuedGood DEF q

LEMMA CompleteLoginKeeps ==
  ASSUME NEW u, Good(u)
  PROVE  LET v == CompleteLogin(u)
         IN  /\ Good(v) /\ v.posted = u.posted /\ ~v.scheduled
             /\ v.config.account => u.config.account \/ u.scheduled
<1>1. u \in Uis /\ Typed(u)
  BY UiTyped DEF Good, Sound, Nearly
<1>2. CASE ~u.scheduled
  BY <1>2 DEF CompleteLogin
<1>3. CASE u.scheduled
  <2> DEFINE s == Set(u, [account |-> TRUE])
             w == [s EXCEPT !.scheduled = FALSE, !.signing = FALSE]
             c == ClearError(w)
             v == [c EXCEPT !.probe = TRUE]
  <2>1. Past(u) /\ ~u.pending
    BY <1>3, NoSignIn DEF SigningIn, Good, Sound, Nearly, Seen
  <2>2. /\ s \in Uis /\ s.changed
        /\ \A f \in {"language", "prerequisites", "runtime", "rules"} : s.config[f] = u.config[f]
        /\ s.read = u.read /\ s.disk = u.disk /\ s.seen = u.seen /\ s.probed = u.probed
        /\ s.reviewed = u.reviewed /\ s.wine = u.wine
        /\ s.transfer = u.transfer /\ s.stage = u.stage
        /\ s.view = u.view
        /\ s.damaged = u.damaged /\ s.repairing = u.repairing /\ s.pending = u.pending
        /\ s.posted = u.posted
        /\ s.open = u.open /\ s.box = u.box
    BY ZenonT(60), <1>1, SetAccount DEF Changed
  <2> HIDE DEF s
  <2>3. /\ v \in Uis /\ v.changed = s.changed /\ v.config = s.config
        /\ v.read = s.read /\ v.disk = s.disk /\ v.seen = s.seen /\ v.probed = s.probed
        /\ v.reviewed = s.reviewed /\ v.wine = s.wine
        /\ v.transfer = s.transfer /\ v.stage = s.stage
        /\ v.view = s.view
        /\ v.damaged = s.damaged /\ v.repairing = s.repairing /\ v.pending = s.pending
        /\ v.posted = s.posted /\ v.open = s.open /\ v.box = s.box
        /\ v.failed = "none" /\ ~v.scheduled /\ ~v.signing /\ v.probe
    BY ZenonT(60), <2>2 DEF ClearError, Uis
  <2>4. c.config = s.config /\ c.config.language
    BY <2>1, <2>2 DEF ClearError, Uis, Past
  <2>5. CompleteLogin(u) = v
    BY <1>3, <2>4 DEF CompleteLogin, Success, ScheduleProbe, s
  <2> HIDE DEF v, c, w
  <2>6. Eases(u, v)
    BY <2>1, <2>2, <2>3 DEF Eases, SigningIn, Lag
  <2>7. Good(v)
    BY <2>6, EasedGood
  <2> QED BY <1>3, <2>2, <2>3, <2>5, <2>7
<1> QED BY <1>2, <1>3

(***************************************************************************)
(* What is delivered at a time                                             *)
(***************************************************************************)
LEMMA LeastOf ==
  ASSUME NEW T \in SUBSET Nat, T # {}
  PROVE  \E k \in T : \A j \in T : ~(j < k)
<1> DEFINE R == OpToRel(<, Nat)
<1>1. IsWellFoundedOn(R, Nat)
  BY NatLessThanWellFounded
<1>2. \A x, y \in Nat : <<y, x>> \in R <=> y < x
  BY DEF OpToRel
<1> HIDE DEF R
<1>3. \E x \in T : \A y \in T : ~(<<y, x>> \in R)
  BY <1>1, WFMin
<1> QED BY <1>2, <1>3

\* What the event loop has after i of the events: f is the recursive function of Deliver.
Chained(f, n, rest, q, kinds) ==
  f = [i \in 0 .. n |-> IF i = 0 THEN rest ELSE Handle(f[i - 1], q[i], kinds[i])]

LEMMA ChainExists ==
  ASSUME NEW rest, NEW q, NEW kinds, NEW n \in Nat
  PROVE  \E f : Chained(f, n, rest, q, kinds)
<1> DEFINE T == {k \in Nat : ~ \E f : Chained(f, k, rest, q, kinds)}
<1>1. SUFFICES ASSUME n \in T PROVE FALSE
  OBVIOUS
<1>2. PICK k \in T : \A j \in T : ~(j < k)
  <2>1. T \in SUBSET Nat /\ T # {}
    BY <1>1
  <2> HIDE DEF T
  <2> QED BY <2>1, LeastOf
<1>3. CASE k = 0
  <2> DEFINE f == [i \in 0 .. 0 |-> rest]
  <2>1. Chained(f, 0, rest, q, kinds)
    BY DEF Chained
  <2> QED BY <1>3, <2>1
<1>4. CASE k # 0
  <2>1. k \in Nat /\ k - 1 \in Nat /\ k - 1 < k
    BY <1>4
  <2>2. PICK f : Chained(f, k - 1, rest, q, kinds)
    BY <1>2, <2>1
  <2>3. DOMAIN f = 0 .. k - 1 /\ \A i \in 0 .. k - 1 :
          f[i] = IF i = 0 THEN rest ELSE Handle(f[i - 1], q[i], kinds[i])
    BY <2>2 DEF Chained
  <2> DEFINE g == [i \in 0 .. k |-> IF i = k THEN Handle(f[k - 1], q[k], kinds[k]) ELSE f[i]]
  <2>4. \A i \in 0 .. k : g[i] = IF i = k THEN Handle(f[k - 1], q[k], kinds[k]) ELSE f[i]
    OBVIOUS
  <2>5. DOMAIN g = 0 .. k /\ g = [i \in 0 .. k |-> g[i]]
    OBVIOUS
  <2> HIDE DEF g
  <2>6. \A i \in 0 .. k : g[i] = IF i = 0 THEN rest ELSE Handle(g[i - 1], q[i], kinds[i])
    BY <2>1, <2>3, <2>4
  <2>7. Chained(g, k, rest, q, kinds)
    BY <2>5, <2>6 DEF Chained
  <2> QED BY <2>7
<1> QED BY <1>3, <1>4

LEMMA DeliverIs ==
  ASSUME Deliver, ui.posted \in Seq(Events)
  PROVE  \E kinds, f : /\ Chained(f, Len(ui.posted), [ui EXCEPT !.posted = <<>>], ui.posted, kinds)
                       /\ kinds \in [1 .. Len(ui.posted) -> Urls]
                       /\ \A i \in 1 .. Len(ui.posted) : IsAuthUrl(kinds[i])
                       /\ ui' = f[Len(ui.posted)]
                       /\ ui.posted # <<>>
<1> DEFINE n    == Len(ui.posted)
           rest == [ui EXCEPT !.posted = <<>>]
<1>1. PICK kinds \in [1 .. n -> {url \in Urls : IsAuthUrl(url)}] :
        ui' = (CHOOSE f : Chained(f, n, rest, ui.posted, kinds))[n]
  BY DEF Deliver, Chained
<1> DEFINE after == CHOOSE f : Chained(f, n, rest, ui.posted, kinds)
<1>2. ui.posted # <<>>
  BY DEF Deliver
<1>3. n \in Nat
  OBVIOUS
<1>4. Chained(after, n, rest, ui.posted, kinds)
  BY <1>3, ChainExists
<1>5. kinds \in [1 .. n -> Urls] /\ \A i \in 1 .. n : IsAuthUrl(kinds[i])
  OBVIOUS
<1>6. ui' = after[n]
  BY <1>1
<1> HIDE DEF after, n, rest
<1> QED BY <1>2, <1>4, <1>5, <1>6 DEF n, rest

\* In the midst of a delivery nothing is posted but the completion that was scheduled in it.
Batch(u) == u.posted = IF u.scheduled THEN <<Due>> ELSE <<>>

LEMMA BatchQueued ==
  ASSUME NEW u, Batch(u)
  PROVE  Queued(u)
<1>1. CASE u.scheduled
  BY <1>1 DEF Batch, Queued
<1>2. CASE ~u.scheduled
  BY <1>2 DEF Batch, Queued
<1> QED BY <1>1, <1>2

LEMMA HandleUrlKeeps ==
  ASSUME NEW u, Good(u), Batch(u), NEW kind \in Urls, IsAuthUrl(kind)
  PROVE  LET v == HandleUrl(u, kind)
         IN  Good(v) /\ Batch(v) /\ v.config = u.config
<1>1. kind \in {"malformed", "late", "good"}
  BY DEF Urls, IsAuthUrl
<1>2. CASE ~u.pending \/ kind = "malformed"
  BY <1>2 DEF HandleUrl
<1>3. CASE u.pending /\ kind # "malformed"
  <2>1. u.posted = <<>>
    BY <1>3 DEF Good, Sound, Nearly, Seen, Batch
  <2>2. CASE kind = "late"
    <3>1. HandleUrl(u, kind) = FailLogin(u)
      BY <1>3, <2>2 DEF HandleUrl
    <3>2. OverOf(u.posted) = <<>>
      BY <2>1, OverQueue, EventsAre
    <3> QED BY <1>3, <3>1, <3>2, FailLoginKeeps DEF Batch
  <2>3. CASE kind = "good"
    <3>1. HandleUrl(u, kind) = ScheduleCompletion(u)
      BY <1>3, <2>3 DEF HandleUrl
    <3>2. Append(<<>>, Due) = <<Due>>
      OBVIOUS
    <3> QED BY <1>3, <2>1, <3>1, <3>2, ScheduleCompletionKeeps DEF Batch
  <2> QED BY <1>1, <1>3, <2>2, <2>3
<1> QED BY <1>2, <1>3

LEMMA FirstKeeps ==
  ASSUME NEW u, Good(u), u.posted = <<>>, NEW e \in Events, u.scheduled => e = Due,
         NEW kind \in Urls, IsAuthUrl(kind)
  PROVE  LET v == Handle(u, e, kind)
         IN  /\ Good(v) /\ Batch(v)
             /\ v.config.account => u.config.account \/ e = Due
<1>1. CASE e.event = "complete"
  BY <1>1, CompleteLoginKeeps DEF Handle, Batch
<1>2. CASE e.event # "complete"
  <2>1. ~u.scheduled
    BY <1>2, EventsAre
  <2> QED BY <1>2, <2>1, HandleUrlKeeps DEF Handle, Batch
<1> QED BY <1>1, <1>2

LEMMA DeliverKeeps ==
  ASSUME IInv, Deliver
  PROVE  IInv' /\ (ui'.config.account => ui.config.account \/ ui.posted[1] = Due)
<1> DEFINE q    == ui.posted
           n    == Len(q)
           rest == [ui EXCEPT !.posted = <<>>]
<1>1. Good(ui) /\ Queued(ui) /\ ui \in Uis /\ q \in Seq(Events)
  BY DEF IInv, Good, Sound, Nearly, Uis
<1>2. PICK kinds, f : /\ Chained(f, n, rest, q, kinds)
                      /\ kinds \in [1 .. n -> Urls] /\ \A i \in 1 .. n : IsAuthUrl(kinds[i])
                      /\ ui' = f[n] /\ q # <<>>
  BY <1>1, DeliverIs
<1>3. n \in Nat /\ n >= 1 /\ DOMAIN q = 1 .. n /\ \A i \in 1 .. n : q[i] \in Events
  BY <1>1, <1>2
<1>4. Good(rest) /\ rest.posted = <<>> /\ rest.config = ui.config /\ rest.scheduled = ui.scheduled
  <2>1. rest \in Uis /\ rest.posted = <<>> /\ rest.scheduled = ui.scheduled
    BY <1>1, EventsAre DEF Uis
  <2>2. Requeues(ui, rest)
    BY <1>1, <2>1 DEF Requeues, Around, SigningIn, Uis, Good, Sound, Nearly, Seen
  <2> QED BY <1>1, <2>1, <2>2, RequeuedGood
<1>5. /\ rest.scheduled => q[1] = Due
      /\ \A i \in 2 .. n : q[i] = Callback
  BY <1>1, <1>3, <1>4 DEF Queued
<1> HIDE DEF rest, n
<1>6. f[0] = rest /\ \A i \in 1 .. n : f[i] = Handle(f[i - 1], q[i], kinds[i])
  <2>1. \A i \in 0 .. n : f[i] = IF i = 0 THEN rest ELSE Handle(f[i - 1], q[i], kinds[i])
    BY <1>2 DEF Chained
  <2> QED BY <1>3, <2>1
<1> DEFINE Fine(u) == /\ Good(u) /\ Batch(u)
                      /\ u.config.account => ui.config.account \/ q[1] = Due
           T == {k \in 1 .. n : ~Fine(f[k])}
<1>7. Fine(f[1])
  <2>1. f[1] = Handle(rest, q[1], kinds[1]) /\ q[1] \in Events
    BY <1>3, <1>6
  <2>2. kinds[1] \in Urls /\ IsAuthUrl(kinds[1])
    BY <1>2, <1>3
  <2> QED BY <1>4, <1>5, <2>1, <2>2, FirstKeeps
<1>8. ASSUME NEW k \in 2 .. n, Fine(f[k - 1]) PROVE Fine(f[k])
  <2>1. k \in 1 .. n /\ q[k] = Callback /\ f[k] = Handle(f[k - 1], q[k], kinds[k])
    BY <1>3, <1>5, <1>6
  <2>2. f[k] = HandleUrl(f[k - 1], kinds[k])
    BY <2>1, EventsAre DEF Handle
  <2>3. kinds[k] \in Urls /\ IsAuthUrl(kinds[k])
    BY <1>2, <2>1
  <2> QED BY <1>8, <2>2, <2>3, HandleUrlKeeps
<1> HIDE DEF Fine
<1>9. T = {}
  <2>1. SUFFICES ASSUME T # {} PROVE FALSE
    OBVIOUS
  <2>2. T \in SUBSET Nat
    BY <1>3
  <2>3. PICK k \in T : \A j \in T : ~(j < k)
    BY <2>1, <2>2, LeastOf
  <2>4. k \in 2 .. n
    BY <1>3, <1>7, <2>3
  <2>5. k - 1 \in 1 .. n /\ k - 1 < k
    BY <1>3, <2>4
  <2>6. Fine(f[k - 1])
    BY <2>3, <2>5
  <2> QED BY <1>8, <2>3, <2>4, <2>6
<1>10. Fine(ui')
  BY <1>2, <1>3, <1>9
<1> QED BY <1>10, BatchQueued DEF IInv, Fine

(***************************************************************************)
(* The boxes, with everything else as it is                                *)
(***************************************************************************)
\* The boxes, the report of changed files and the cached rules apart.
Alike(u, v) ==
  /\ v \in Uis
  /\ v.config = u.config /\ v.read = u.read /\ v.disk.game = u.disk.game /\ v.seen = u.seen
  /\ v.probed = u.probed /\ v.reviewed = u.reviewed /\ v.signing = u.signing /\ v.wine = u.wine
  /\ v.transfer = u.transfer /\ v.failed = u.failed /\ v.stage = u.stage /\ v.view = u.view
  /\ v.message = u.message /\ v.muted = u.muted /\ v.repairing = u.repairing
  /\ v.pending = u.pending /\ v.scheduled = u.scheduled /\ v.posted = u.posted
  /\ v.changed = u.changed /\ v.probe = u.probe

LEMMA AlikeGood ==
  ASSUME NEW u, NEW v, Sound(u), Says(u), Fits(u), Alike(u, v), Countdown(v), Stacked(v.open),
         Layers(v), GameFits(v), Viewed(v), Shows(v, "prerequisites") => Shows(u, "prerequisites")
  PROVE  Good(v)
<1>1. /\ Old(v) <=> Old(u)
      /\ Past(v) <=> Past(u)
      /\ Lag(v) <=> Lag(u)
      /\ Unseen(v) <=> Unseen(u)
      /\ Installing(v) <=> Installing(u)
      /\ SigningIn(v) <=> SigningIn(u)
  BY DEF Alike, Old, Past, Lag, Unseen, Installing, SigningIn
<1>2. Compute(v) = Compute(u)
  BY ComputeSame DEF Alike
<1>3. Seen(v)
  BY <1>1 DEF Alike, Sound, Nearly, Seen
<1>4. Honest(v)
  BY <1>1 DEF Alike, Sound, Nearly, Honest
<1>5. Says(v)
  BY DEF Alike, Says
<1>6. Fits(v)
  BY <1>1, <1>2 DEF Alike, Fits
<1> QED BY <1>3, <1>4, <1>5, <1>6 DEF Good, Sound, Nearly, Alike

LEMMA BesideAlike ==
  ASSUME NEW u, NEW v \in Uis, Beside(u, v)
  PROVE  Alike(u, v)
  BY DEF Beside, Alike

LEMMA OpenForCurrentGood ==
  ASSUME NEW u, Good(u), u.stage \notin {"NeedsLanguage", "NeedsPrerequisites"},
         u.config.language, \A o \in SetupBoxes : Shows(u, o) => o = View(u.stage)
  PROVE  LET v == OpenForCurrentStage(u)
         IN  Good(v) /\ Aside(u, v)
<1> DEFINE o == View(u.stage)
           v == Open(u, o)
<1>1. u \in Uis /\ Typed(u) /\ u.stage \in Stages
  BY UiTyped DEF Good, Sound, Nearly, Uis
<1>2. CASE o \notin SetupBoxes
  BY <1>2 DEF OpenForCurrentStage, Aside
<1>3. CASE o \in SetupBoxes
  <2>1. o \in Late /\ o \in Boxed /\ u.stage \notin {"Probing", "Failed"}
        /\ (o = "game" <=> u.stage = "NeedsDownload")
    BY <1>1, <1>3, ViewTypes DEF SetupBoxes, Late, Boxed
  <2> HIDE DEF o
  <2>2. /\ v \in Uis /\ Beside(u, v) /\ Stacked(v.open) /\ Countdown(v)
        /\ \A x : Shows(v, x) <=> Shows(u, x) \/ x = o
    BY <1>1, <2>1, OpenIs, Raised DEF Good, Sound, Nearly
  <2> HIDE DEF v
  <2>3. Alike(u, v)
    BY <2>2, BesideAlike
  <2>4. ~Old(u) /\ Past(u)
    <3>1. u.stage = "Updating" => o \notin SetupBoxes
      BY ViewIs DEF SetupBoxes, o
    <3> QED BY <1>1, <1>3, <2>1, <3>1 DEF Good, Fits, Says, Old, Past
  <2>5. /\ Old(v) <=> Old(u)
        /\ Past(v) <=> Past(u)
        /\ Installing(v) <=> Installing(u)
    BY <2>3 DEF Alike, Old, Past, Installing
  <2>6. \A x \in SetupBoxes : Shows(v, x) => x = o
    BY <2>2 DEF o
  <2>7. Layers(v)
    <3>1. o \notin {"language", "prerequisites"}
      BY <2>1 DEF Late
    <3>2. \A x \in Late : Shows(v, x) => Past(v)
      BY <2>4, <2>5
    <3> QED BY <2>2, <2>3, <2>5, <2>6, <3>1, <3>2 DEF Layers, Alike, Good, Sound, Nearly
  <2>8. GameFits(v)
    <3>1. CASE u.stage = "NeedsDownload"
      BY <2>3, <3>1 DEF GameFits, Good, Says, Signed, Alike
    <3>2. CASE u.stage # "NeedsDownload"
      BY <2>1, <2>2, <2>3, <3>2 DEF GameFits, Good, Sound, Alike
    <3> QED BY <3>1, <3>2
  <2>9. Viewed(v)
    <3>1. o # "repair" /\ v.damaged = u.damaged
      BY <2>1, <2>2 DEF Late, Beside
    <3> QED BY <2>2, <2>3, <3>1 DEF Viewed, ViewOf, Opened, Good, Alike
  <2>10. Good(v)
    BY <2>1, <2>2, <2>3, <2>7, <2>8, <2>9, AlikeGood DEF Good, Late
  <2> QED BY <1>3, <2>3, <2>10 DEF OpenForCurrentStage, Aside, Alike, v, o
<1> QED BY <1>2, <1>3

\* The window looks again, and opens what it finds.
LEMMA ProbeOpenGood ==
  ASSUME NEW u, Sound(u), Viewed(u), u.config.language, u.config.prerequisites,
         \A o \in SetupBoxes : ~Shows(u, o)
  PROVE  LET v == OpenForCurrentStage(Probe(u))
         IN  Good(v) /\ Aside(u, v)
<1> DEFINE p == Probe(u)
<1>1. /\ Good(p) /\ Aside(u, p) /\ p.seen.config = u.config
      /\ p.stage # "NeedsLanguage"
      /\ \A o : Shows(p, o) => Shows(u, o) \/ o = View(p.stage)
  BY ProbeGood
<1> HIDE DEF p
<1>2. p.stage # "NeedsPrerequisites"
  BY <1>1 DEF Good, Says
<1>3. Good(OpenForCurrentStage(p)) /\ Aside(p, OpenForCurrentStage(p))
  BY <1>1, <1>2, OpenForCurrentGood DEF Aside
<1> QED BY <1>1, <1>3 DEF Aside, p

(***************************************************************************)
(* The setup, step by step                                                 *)
(***************************************************************************)
\* The invariant, and no account.
Keeps == IInv' /\ (ui'.config.account => ui.config.account)

LEMMA KeepsIf ==
  ASSUME IInv, Good(ui'), ui'.posted = ui.posted, ui'.scheduled => ui.scheduled,
         ui'.config.account => ui.config.account
  PROVE  Keeps
  BY DEF Keeps, IInv, Queued

LEMMA AsideKeeps ==
  ASSUME IInv, Good(ui'), Aside(ui, ui')
  PROVE  Keeps
  BY KeepsIf DEF Aside

LEMMA InvTyped ==
  ASSUME IInv
  PROVE  /\ Good(ui) /\ Sound(ui) /\ ui \in Uis /\ Typed(ui) /\ Stacked(ui.open)
         /\ Countdown(ui)
  BY UiTyped DEF IInv, Good, Sound, Nearly

LEMMA TopShown ==
  ASSUME IInv, Top(ui) # "none"
  PROVE  Shows(ui, Top(ui)) /\ Top(ui) \in Boxed
  BY InvTyped, TopIs

LEMMA NothingShown ==
  ASSUME IInv, Top(ui) = "none"
  PROVE  /\ \A o : ~Shows(ui, o)
         /\ ui.config.language /\ ~ui.repairing /\ ~Installing(ui)
<1>1. \A o : ~Shows(ui, o)
  BY InvTyped, TopIs
<1> QED BY <1>1, InvTyped DEF Sound, Nearly, Layers, Good, Viewed, ViewOf, Typed

\* While the dialog of the prerequisites is shown nothing has begun.
LEMMA NotPast ==
  ASSUME IInv, Shows(ui, "prerequisites")
  PROVE  /\ ui.config.language /\ ~ui.config.prerequisites /\ ~Old(ui) /\ ui.probed
         /\ ui.stage = "NeedsPrerequisites" /\ ~ui.seen.config.prerequisites
         /\ ~ui.wine /\ ui.failed = "none" /\ ~SigningIn(ui) /\ ~Installing(ui)
         /\ \A o \in SetupBoxes : Shows(ui, o) => o = "prerequisites"
         /\ ~ui.config.rules /\ ~ui.config.runtime
<1>1. Typed(ui) /\ Sound(ui) /\ Says(ui) /\ Fits(ui)
  BY InvTyped DEF Good
<1>2. ~ui.config.prerequisites /\ ~Old(ui) /\ ui.probed /\ ui.stage = "NeedsPrerequisites"
  BY <1>1 DEF Sound, Nearly, Layers, Fits
<1>3. ui.config.language /\ ~ui.seen.config.prerequisites
  BY <1>1, <1>2 DEF Says
<1>4. "prerequisites" \in SetupBoxes
  BY DEF SetupBoxes
<1> QED BY <1>1, <1>2, <1>3, <1>4 DEF Sound, Nearly, Layers, Seen, Past

LEMMA AcceptLanguageKeeps ==
  ASSUME IInv, AcceptLanguage
  PROVE  Keeps
<1> DEFINE s == Set(ui, [language |-> TRUE])
           v == Close(s, {"language"})
<1>1. Good(ui) /\ Sound(ui) /\ ui \in Uis /\ Typed(ui)
  BY InvTyped
<1>2. Shows(ui, "language") /\ ~ui.config.language
  BY <1>1, TopShown DEF AcceptLanguage, Sound, Nearly, Layers
<1>3. /\ Changed(ui, s) /\ s.config.language = TRUE
      /\ s.config.prerequisites = ui.config.prerequisites
      /\ s.config.runtime = ui.config.runtime /\ s.config.rules = ui.config.rules
      /\ s.config.account = ui.config.account
  BY <1>1, SetLanguage
<1> HIDE DEF s
<1>4. s \in Uis /\ s.open = ui.open /\ Stacked(s.open) /\ s.box = ui.box
  BY <1>1, <1>3 DEF Changed, Sound, Nearly
<1>5. /\ v \in Uis /\ Beside(s, v) /\ Stacked(v.open) /\ v.box = s.box
      /\ \A x : Shows(v, x) <=> Shows(s, x) /\ x # "language"
  BY <1>4, CloseIs, Closed
<1> HIDE DEF v
<1>6. \A x : ~Shows(v, x)
  <2>1. \A x \in Boxed : Shows(ui, x) => x = "language"
    BY <1>1, <1>2 DEF Sound, Nearly, Layers
  <2>2. \A x : Shows(v, x) => x \in Boxed
    BY <1>5, StackTypes DEF Shows, Uis
  <2> QED BY <1>4, <1>5, <2>1, <2>2 DEF Shows
<1>7. /\ ~ui.wine /\ ui.failed = "none" /\ ~SigningIn(ui) /\ ~Installing(ui)
      /\ ~ui.repairing /\ ui.stage = "NeedsLanguage"
  BY <1>1, <1>2 DEF Good, Sound, Nearly, Seen, Past, Says, Typed
<1>8. /\ v.changed /\ v.config.language
      /\ v.config.prerequisites = ui.config.prerequisites
      /\ v.config.runtime = ui.config.runtime /\ v.config.rules = ui.config.rules
      /\ v.config.account = ui.config.account
      /\ v.read = ui.read /\ v.disk = ui.disk /\ v.seen = ui.seen /\ v.probed = ui.probed
      /\ v.reviewed = ui.reviewed /\ v.signing = ui.signing /\ v.wine = ui.wine
      /\ v.transfer = ui.transfer /\ v.failed = ui.failed /\ v.stage = ui.stage
      /\ v.view = ui.view /\ v.message = ui.message /\ v.muted = ui.muted
      /\ v.damaged = ui.damaged /\ v.repairing = ui.repairing /\ v.pending = ui.pending
      /\ v.scheduled = ui.scheduled /\ v.posted = ui.posted /\ v.box = ui.box
  BY <1>3, <1>5 DEF Changed, Beside
<1>9. /\ Old(v) <=> Old(ui)
      /\ Unseen(v) <=> Unseen(ui)
      /\ ~Installing(v) /\ ~SigningIn(v) /\ Lag(v)
  BY <1>7, <1>8 DEF Old, Unseen, Installing, SigningIn, Lag
<1>10. Seen(v)
  BY <1>1, <1>7, <1>8, <1>9 DEF Sound, Nearly, Seen
<1>11. Honest(v) /\ Countdown(v) /\ Layers(v) /\ GameFits(v)
  BY <1>1, <1>6, <1>8, <1>9 DEF Sound, Nearly, Honest, Countdown, Layers, GameFits
<1>12. Says(v) /\ Fits(v) /\ Viewed(v)
  BY <1>1, <1>6, <1>7, <1>8, <1>9 DEF Good, Says, Fits, Viewed, ViewOf, Opened, Signed
<1>13. Good(v)
  BY <1>5, <1>10, <1>11, <1>12 DEF Good, Sound, Nearly
<1>14. ui' = v
  BY DEF AcceptLanguage, s, v
<1> QED BY <1>8, <1>13, <1>14, KeepsIf

\* The prerequisites are chosen: nothing has begun, and a look at it is due or follows.
LEMMA ChosenGood ==
  ASSUME IInv, Shows(ui, "prerequisites"), NEW v \in Uis, v.changed, Stacked(v.open),
         v.box = ui.box, \A x : Shows(v, x) <=> Shows(ui, x) /\ x # "prerequisites",
         v.config.language, v.config.prerequisites, v.config.rules = ui.config.rules,
         v.read = ui.read, v.disk = ui.disk, v.seen = ui.seen, v.probed = ui.probed,
         v.reviewed = ui.reviewed, v.signing = ui.signing, v.wine = ui.wine,
         v.transfer = ui.transfer, v.failed = ui.failed, v.stage = ui.stage,
         v.view = ui.view, v.message = ui.message, v.muted = ui.muted,
         v.damaged = ui.damaged, v.repairing = ui.repairing, v.pending = ui.pending,
         v.scheduled = ui.scheduled
  PROVE  Good(v) /\ \A o \in SetupBoxes : ~Shows(v, o)
<1>1. Good(ui) /\ Sound(ui) /\ Typed(ui) /\ Typed(v)
  BY InvTyped, UiTyped
<1>2. /\ ui.config.language /\ ~Old(ui) /\ ui.probed
      /\ ui.stage = "NeedsPrerequisites" /\ ~ui.seen.config.prerequisites
      /\ ~ui.wine /\ ui.failed = "none" /\ ~SigningIn(ui) /\ ~Installing(ui)
      /\ \A o \in SetupBoxes : Shows(ui, o) => o = "prerequisites"
  BY NotPast
<1>3. ~Old(v) /\ Lag(v) /\ ~SigningIn(v) /\ ~Installing(v)
  BY <1>2 DEF Old, Lag, SigningIn, Installing
<1>4. Seen(v)
  BY <1>1, <1>2, <1>3 DEF Sound, Nearly, Seen
<1>5. \A o \in SetupBoxes : ~Shows(v, o)
  BY <1>2
<1>6. /\ Late \subseteq SetupBoxes
      /\ "language" \in SetupBoxes /\ "prerequisites" \in SetupBoxes
      /\ "game" \in SetupBoxes /\ "rules" \in SetupBoxes
  BY DEF Late, SetupBoxes
<1>7. Honest(v) /\ Countdown(v)
  BY <1>2, <1>5, <1>6, <1>1 DEF Sound, Nearly, Honest, Countdown
<1>8. Layers(v) /\ GameFits(v)
  BY <1>3, <1>5, <1>6 DEF Layers, GameFits
<1>9. Says(v)
  BY <1>1, <1>2 DEF Good, Says
<1>10. Fits(v) /\ Viewed(v)
  BY <1>1, <1>2, <1>3, <1>5, <1>6 DEF Good, Fits, Unseen, Viewed, ViewOf, Opened
<1> QED BY <1>4, <1>5, <1>7, <1>8, <1>9, <1>10 DEF Good, Sound, Nearly

LEMMA UseRecommendedKeeps ==
  ASSUME IInv, UseRecommended
  PROVE  Keeps
<1> DEFINE s == Set(ui, [runtime |-> TRUE])
           c == Close(s, {"prerequisites"})
           v == Set(c, [prerequisites |-> TRUE])
<1>1. ui \in Uis /\ Stacked(ui.open) /\ Shows(ui, "prerequisites")
  BY InvTyped, TopShown DEF UseRecommended
<1>2. /\ Changed(ui, s) /\ s.config.language = ui.config.language
      /\ s.config.rules = ui.config.rules /\ s.config.account = ui.config.account
  BY <1>1, SetRuntime
<1> HIDE DEF s
<1>3. s \in Uis /\ s.open = ui.open /\ Stacked(s.open)
  BY <1>1, <1>2 DEF Changed
<1>4. /\ c \in Uis /\ Beside(s, c) /\ Stacked(c.open) /\ c.box = s.box
      /\ \A x : Shows(c, x) <=> Shows(s, x) /\ x # "prerequisites"
  BY <1>3, CloseIs, Closed
<1> HIDE DEF c
<1>5. /\ Changed(c, v) /\ v.config.language = c.config.language
      /\ v.config.prerequisites = TRUE
      /\ v.config.rules = c.config.rules /\ v.config.account = c.config.account
  BY <1>4, SetPrerequisites
<1> HIDE DEF v
<1>6. /\ v \in Uis /\ v.changed
      /\ v.config.language = ui.config.language /\ v.config.prerequisites
      /\ v.config.rules = ui.config.rules /\ v.config.account = ui.config.account
      /\ v.read = ui.read /\ v.disk = ui.disk /\ v.seen = ui.seen /\ v.probed = ui.probed
      /\ v.reviewed = ui.reviewed /\ v.signing = ui.signing /\ v.wine = ui.wine
      /\ v.transfer = ui.transfer /\ v.failed = ui.failed /\ v.stage = ui.stage
      /\ v.view = ui.view /\ v.message = ui.message /\ v.muted = ui.muted
      /\ v.damaged = ui.damaged /\ v.repairing = ui.repairing /\ v.pending = ui.pending
      /\ v.scheduled = ui.scheduled /\ v.posted = ui.posted /\ v.box = ui.box
      /\ v.open = c.open
  BY <1>2, <1>4, <1>5 DEF Changed, Beside
<1>7. \A x : Shows(v, x) <=> Shows(ui, x) /\ x # "prerequisites"
  BY <1>3, <1>4, <1>6 DEF Shows
<1>8. ui.config.language
  BY <1>1, NotPast
<1>9. Good(v)
  BY <1>1, <1>4, <1>6, <1>7, <1>8, ChosenGood
<1>10. ui' = v
  BY DEF UseRecommended, s, c, v
<1> QED BY <1>6, <1>9, <1>10, KeepsIf

LEMMA ChooseOwnKeeps ==
  ASSUME IInv, ChooseOwn
  PROVE  Keeps
<1> DEFINE c == Close(ui, {"prerequisites"})
           v == Set(c, [prerequisites |-> TRUE, runtime |-> FALSE])
<1>1. ui \in Uis /\ Stacked(ui.open) /\ Shows(ui, "prerequisites")
  BY InvTyped, TopShown DEF ChooseOwn
<1>2. /\ c \in Uis /\ Beside(ui, c) /\ Stacked(c.open) /\ c.box = ui.box
      /\ \A x : Shows(c, x) <=> Shows(ui, x) /\ x # "prerequisites"
  BY <1>1, CloseIs, Closed
<1> HIDE DEF c
<1>3. /\ Changed(c, v) /\ v.config.language = c.config.language
      /\ v.config.prerequisites = TRUE
      /\ v.config.rules = c.config.rules /\ v.config.account = c.config.account
  BY <1>2, SetOwnRuntime
<1> HIDE DEF v
<1>4. /\ v \in Uis /\ v.changed
      /\ v.config.language = ui.config.language /\ v.config.prerequisites
      /\ v.config.rules = ui.config.rules /\ v.config.account = ui.config.account
      /\ v.read = ui.read /\ v.disk = ui.disk /\ v.seen = ui.seen /\ v.probed = ui.probed
      /\ v.reviewed = ui.reviewed /\ v.signing = ui.signing /\ v.wine = ui.wine
      /\ v.transfer = ui.transfer /\ v.failed = ui.failed /\ v.stage = ui.stage
      /\ v.view = ui.view /\ v.message = ui.message /\ v.muted = ui.muted
      /\ v.damaged = ui.damaged /\ v.repairing = ui.repairing /\ v.pending = ui.pending
      /\ v.scheduled = ui.scheduled /\ v.posted = ui.posted /\ v.box = ui.box
      /\ v.open = c.open
  BY <1>2, <1>3 DEF Changed, Beside
<1>5. \A x : Shows(v, x) <=> Shows(ui, x) /\ x # "prerequisites"
  BY <1>2, <1>4 DEF Shows
<1>6. ui.config.language
  BY <1>1, NotPast
<1>7. Good(v) /\ \A o \in SetupBoxes : ~Shows(v, o)
  BY <1>1, <1>2, <1>4, <1>5, <1>6, ChosenGood
<1>8. Good(OpenForCurrentStage(Probe(v))) /\ Aside(v, OpenForCurrentStage(Probe(v)))
  BY <1>4, <1>6, <1>7, ProbeOpenGood DEF Good
<1>9. ui' = OpenForCurrentStage(Probe(v))
  BY DEF ChooseOwn, c, v
<1> QED BY <1>4, <1>8, <1>9, KeepsIf DEF Aside

LEMMA ConfirmRuntimeKeeps ==
  ASSUME IInv, ConfirmRuntime
  PROVE  Keeps
<1> DEFINE s == Set(ui, [runtime |-> TRUE])
           v == Close(s, {"runtime"})
<1>1. /\ ui \in Uis /\ Stacked(ui.open) /\ Shows(ui, "runtime") /\ Good(ui) /\ Sound(ui)
      /\ Typed(ui)
  BY InvTyped, TopShown DEF ConfirmRuntime
<1>2. /\ Changed(ui, s) /\ s.config.language = ui.config.language
      /\ s.config.prerequisites = ui.config.prerequisites /\ s.config.runtime = TRUE
      /\ s.config.rules = ui.config.rules /\ s.config.account = ui.config.account
  BY <1>1, SetRuntime
<1> HIDE DEF s
<1>3. s \in Uis /\ s.open = ui.open /\ Stacked(s.open)
  BY <1>1, <1>2 DEF Changed
<1>4. /\ v \in Uis /\ Beside(s, v) /\ Stacked(v.open) /\ v.box = s.box
      /\ \A x : Shows(v, x) <=> Shows(s, x) /\ x # "runtime"
  BY <1>3, CloseIs, Closed
<1> HIDE DEF v
<1>5. /\ v.changed /\ v.config.language = ui.config.language
      /\ v.config.prerequisites = ui.config.prerequisites /\ v.config.runtime = TRUE
      /\ v.config.rules = ui.config.rules /\ v.config.account = ui.config.account
      /\ v.read = ui.read /\ v.disk = ui.disk /\ v.seen = ui.seen /\ v.probed = ui.probed
      /\ v.reviewed = ui.reviewed /\ v.signing = ui.signing /\ v.wine = ui.wine
      /\ v.transfer = ui.transfer /\ v.failed = ui.failed /\ v.stage = ui.stage
      /\ v.view = ui.view /\ v.message = ui.message /\ v.muted = ui.muted
      /\ v.damaged = ui.damaged /\ v.repairing = ui.repairing /\ v.pending = ui.pending
      /\ v.scheduled = ui.scheduled /\ v.posted = ui.posted /\ v.box = ui.box
  BY <1>2, <1>4 DEF Changed, Beside
<1>6. \A x : Shows(v, x) <=> Shows(ui, x) /\ x # "runtime"
  BY <1>3, <1>4 DEF Shows
<1>7. Past(ui) /\ \A o \in SetupBoxes : Shows(ui, o) => o = "runtime"
  <2>1. "runtime" \in SetupBoxes /\ "runtime" \in Late
    BY DEF SetupBoxes, Late
  <2> QED BY <1>1, <2>1 DEF Sound, Nearly, Layers
<1>8. \A o \in SetupBoxes : ~Shows(v, o)
  BY <1>6, <1>7
<1>9. /\ Late \subseteq SetupBoxes
      /\ "language" \in SetupBoxes /\ "prerequisites" \in SetupBoxes
      /\ "game" \in SetupBoxes /\ "rules" \in SetupBoxes
  BY DEF Late, SetupBoxes
<1>10. /\ Old(v) <=> Old(ui)
       /\ Installing(v) <=> Installing(ui)
       /\ SigningIn(v) <=> SigningIn(ui)
       /\ Past(v) /\ Lag(v) /\ ~Old(v)
  BY <1>5, <1>7 DEF Old, Past, Installing, SigningIn, Lag
<1>11. Seen(v) /\ Honest(v)
  BY <1>1, <1>5, <1>7, <1>10 DEF Sound, Nearly, Seen, Honest, Past
<1>12. Countdown(v) /\ Layers(v) /\ GameFits(v)
  <2>1. ~Installing(ui)
    BY <1>1, <1>7, <1>9 DEF Sound, Nearly, Layers
  <2> QED BY <1>1, <1>5, <1>7, <1>8, <1>9, <1>10, <2>1
          DEF Sound, Nearly, Countdown, Layers, GameFits, Past
<1>13. Viewed(v)
  <2>1. ui.stage = "NeedsRules" /\ ~ui.damaged /\ ~ui.repairing => Shows(ui, "rules")
    BY <1>1 DEF Good, Viewed, Opened
  <2> QED BY <1>1, <1>5, <1>6, <1>7, <1>9, <2>1 DEF Good, Viewed, ViewOf, Opened, Past
<1>14. Sound(v)
  BY <1>4, <1>11, <1>12 DEF Sound, Nearly
<1>15. Good(OpenForCurrentStage(Probe(v))) /\ Aside(v, OpenForCurrentStage(Probe(v)))
  BY <1>5, <1>7, <1>8, <1>13, <1>14, ProbeOpenGood DEF Past
<1>16. ui' = OpenForCurrentStage(Probe(v))
  BY DEF ConfirmRuntime, s, v
<1> QED BY <1>5, <1>15, <1>16, KeepsIf DEF Aside

LEMMA CloseBoxKeeps ==
  ASSUME IInv, CloseBox
  PROVE  Keeps
<1> DEFINE t == Top(ui)
           v == Close(ui, {t})
<1>1. ui \in Uis /\ Stacked(ui.open) /\ Countdown(ui) /\ Good(ui) /\ Typed(ui)
  BY InvTyped
<1>2. t \in {"runtime", "prefix", "game", "files"} /\ (t = "game" => ~ui.transfer)
  BY DEF CloseBox
<1> HIDE DEF t
<1>3. /\ v \in Uis /\ Beside(ui, v) /\ Stacked(v.open) /\ Countdown(v)
      /\ \A x : Shows(v, x) <=> Shows(ui, x) /\ x # t
  BY <1>1, CloseIs, Closed, ClosedCountdown
<1> HIDE DEF v
<1>4. Alike(ui, v)
  BY <1>3, BesideAlike
<1>5. /\ Old(v) <=> Old(ui)
      /\ Past(v) <=> Past(ui)
      /\ Installing(v) <=> Installing(ui)
  BY <1>4 DEF Alike, Old, Past, Installing
<1>6. Layers(v) /\ GameFits(v)
  BY <1>1, <1>2, <1>3, <1>4, <1>5
     DEF Alike, Layers, GameFits, Good, Sound, Nearly, Installing
<1>7. Viewed(v)
  BY <1>1, <1>2, <1>3 DEF Beside, Good, Viewed, ViewOf, Opened
<1>8. Good(v)
  BY <1>1, <1>3, <1>4, <1>6, <1>7, AlikeGood DEF Good
<1>9. ui' = v
  BY DEF CloseBox, v, t
<1> QED BY <1>4, <1>8, <1>9, KeepsIf DEF Alike

LEMMA SetUpPrefixKeeps ==
  ASSUME IInv, SetUpPrefix
  PROVE  Keeps
<1> DEFINE w == [ui EXCEPT !.wine = TRUE]
<1>1. ui \in Uis /\ Good(ui) /\ Sound(ui) /\ Typed(ui) /\ Shows(ui, "prefix")
  BY InvTyped, TopShown DEF SetUpPrefix
<1>2. Past(ui) /\ ~Old(ui) /\ ~Shows(ui, "game")
  <2>1. "prefix" \in SetupBoxes /\ "prefix" \in Late /\ "game" \in SetupBoxes
    BY DEF SetupBoxes, Late
  <2> QED BY <1>1, <2>1 DEF Sound, Nearly, Layers, Past, Old
<1>3. /\ w \in Uis /\ w.wine = TRUE /\ w.config = ui.config /\ w.read = ui.read
      /\ w.disk = ui.disk /\ w.seen = ui.seen /\ w.probed = ui.probed
      /\ w.reviewed = ui.reviewed /\ w.signing = ui.signing
      /\ w.transfer = ui.transfer /\ w.failed = ui.failed /\ w.stage = ui.stage
      /\ w.view = ui.view /\ w.message = ui.message /\ w.muted = ui.muted
      /\ w.damaged = ui.damaged /\ w.repairing = ui.repairing /\ w.pending = ui.pending
      /\ w.scheduled = ui.scheduled /\ w.posted = ui.posted /\ w.box = ui.box
      /\ w.open = ui.open /\ w.changed = ui.changed /\ w.probe = ui.probe
  BY <1>1 DEF Uis
<1> HIDE DEF w
<1>4. /\ Old(w) <=> Old(ui)
      /\ Past(w) <=> Past(ui)
      /\ Installing(w) <=> Installing(ui)
      /\ SigningIn(w) <=> SigningIn(ui)
      /\ Lag(w) <=> Lag(ui)
      /\ Unseen(w) <=> Unseen(ui)
      /\ \A x : Shows(w, x) <=> Shows(ui, x)
  BY <1>3 DEF Old, Past, Installing, SigningIn, Lag, Unseen, Shows
<1>5. Seen(w) /\ Honest(w) /\ Countdown(w) /\ Stacked(w.open)
  BY <1>1, <1>2, <1>3, <1>4 DEF Sound, Nearly, Seen, Honest, Countdown
<1>6. Layers(w) /\ GameFits(w)
  BY <1>1, <1>2, <1>3, <1>4 DEF Sound, Nearly, Layers, GameFits
<1>7. ViewOf(w) /\ (w.repairing \/ Opened(w)) /\ Unseen(w)
  BY <1>1, <1>3, <1>4 DEF Good, Fits, Viewed, ViewOf, Opened
<1>8. Good(Recompute(w)) /\ Turned(w, Recompute(w))
  BY <1>2, <1>3, <1>4, <1>5, <1>6, <1>7, RecomputeGood DEF Nearly, Past
<1>9. ui' = Recompute(w)
  BY DEF SetUpPrefix, w
<1> QED BY <1>3, <1>8, <1>9, TurnedAside, AsideKeeps DEF Aside

LEMMA SetupEndsKeeps ==
  ASSUME IInv, SetupEnds
  PROVE  Keeps
<1>1. ui \in Uis /\ Good(ui) /\ Typed(ui) /\ ui.wine /\ Seen(ui)
  BY InvTyped DEF SetupEnds, Sound, Nearly
<1>2. Past(ui) /\ ~Shows(ui, "game") /\ ui.disk \in Disked
  BY <1>1 DEF Good, Sound, Nearly, GameFits, Seen, Uis
<1>3. CASE ui' = Success([ui EXCEPT !.wine = FALSE, !.disk.prefix = "ready"])
  <2> DEFINE d == [ui.disk EXCEPT !.prefix = "ready"]
             w == [ui EXCEPT !.wine = FALSE, !.disk = d]
             c == ClearError(w)
             v == [c EXCEPT !.probe = TRUE]
  <2>1. d \in Disked /\ d.game = ui.disk.game
    BY <1>2 DEF Disked, Prefixes
  <2>2. [ui EXCEPT !.wine = FALSE, !.disk.prefix = "ready"] = w
    BY <1>1 DEF Uis
  <2> HIDE DEF d
  <2>3. /\ v \in Uis /\ v.disk = d /\ v.wine = FALSE /\ v.probe = TRUE /\ v.failed = "none"
        /\ v.config = ui.config /\ v.read = ui.read /\ v.seen = ui.seen
        /\ v.probed = ui.probed /\ v.reviewed = ui.reviewed /\ v.signing = ui.signing
        /\ v.transfer = ui.transfer /\ v.stage = ui.stage /\ v.view = ui.view
        /\ v.damaged = ui.damaged /\ v.repairing = ui.repairing /\ v.pending = ui.pending
        /\ v.scheduled = ui.scheduled /\ v.posted = ui.posted /\ v.box = ui.box
        /\ v.open = ui.open /\ c.config = ui.config
    BY ZenonT(60), <1>1, <2>1 DEF ClearError, Uis
  <2>4. ui' = v
    BY <1>2, <1>3, <2>2, <2>3 DEF Success, ScheduleProbe, Past
  <2> HIDE DEF v, c, w
  <2>5. Eases(ui, v)
    BY <1>1, <2>1, <2>3 DEF Eases, SigningIn, Lag, Seen
  <2>6. Good(v)
    BY <1>1, <2>5, EasedGood
  <2> QED BY <2>3, <2>4, <2>6, KeepsIf
<1>4. CASE ui' = Failure([ui EXCEPT !.wine = FALSE, !.disk.prefix = "incomplete"], "wine")
  <2> DEFINE d == [ui.disk EXCEPT !.prefix = "incomplete"]
             w == [ui EXCEPT !.wine = FALSE, !.disk = d]
  <2>1. d \in Disked /\ d.game = ui.disk.game
    BY <1>2 DEF Disked, Prefixes
  <2>2. [ui EXCEPT !.wine = FALSE, !.disk.prefix = "incomplete"] = w
    BY <1>1 DEF Uis
  <2> HIDE DEF d
  <2>3. /\ w \in Uis /\ w.disk = d /\ w.wine = FALSE
        /\ w.config = ui.config /\ w.read = ui.read /\ w.seen = ui.seen
        /\ w.probed = ui.probed /\ w.reviewed = ui.reviewed /\ w.signing = ui.signing
        /\ w.transfer = ui.transfer /\ w.stage = ui.stage /\ w.view = ui.view
        /\ w.failed = ui.failed /\ w.message = ui.message /\ w.muted = ui.muted
        /\ w.damaged = ui.damaged /\ w.repairing = ui.repairing /\ w.pending = ui.pending
        /\ w.scheduled = ui.scheduled /\ w.posted = ui.posted /\ w.box = ui.box
        /\ w.open = ui.open /\ w.changed = ui.changed /\ w.probe = ui.probe
    BY <1>1, <2>1 DEF Uis
  <2> HIDE DEF w
  <2>4. Lessens(ui, w)
    BY <1>1, <1>2, <2>1, <2>3 DEF Lessens, SigningIn, Seen
  <2>5. Good(ui') /\ Aside(w, ui')
    BY <1>1, <1>2, <1>4, <2>2, <2>4, FailureGood
  <2> QED BY <2>3, <2>5, AsideKeeps DEF Aside
<1> QED BY <1>3, <1>4 DEF SetupEnds

LEMMA InstallGameKeeps ==
  ASSUME IInv, InstallGame
  PROVE  Keeps
<1> DEFINE w == [ui EXCEPT !.transfer = TRUE]
<1>1. ui \in Uis /\ Good(ui) /\ Sound(ui) /\ Typed(ui) /\ Shows(ui, "game") /\ ~ui.transfer
  BY InvTyped, TopShown DEF InstallGame
<1>2. Past(ui) /\ ~Old(ui) /\ ~ui.repairing
  BY <1>1 DEF Sound, Nearly, Layers, Late, Past, Old, Seen
<1>3. /\ w \in Uis /\ w.wine = ui.wine /\ w.config = ui.config /\ w.read = ui.read
      /\ w.disk = ui.disk /\ w.seen = ui.seen /\ w.probed = ui.probed
      /\ w.reviewed = ui.reviewed /\ w.signing = ui.signing
      /\ w.transfer = TRUE /\ w.failed = ui.failed /\ w.stage = ui.stage
      /\ w.view = ui.view /\ w.message = ui.message /\ w.muted = ui.muted
      /\ w.damaged = ui.damaged /\ w.repairing = ui.repairing /\ w.pending = ui.pending
      /\ w.scheduled = ui.scheduled /\ w.posted = ui.posted /\ w.box = ui.box
      /\ w.open = ui.open /\ w.changed = ui.changed /\ w.probe = ui.probe
  BY <1>1 DEF Uis
<1> HIDE DEF w
<1>4. /\ Old(w) <=> Old(ui)
      /\ Past(w) <=> Past(ui)
      /\ SigningIn(w) <=> SigningIn(ui)
      /\ Lag(w) <=> Lag(ui)
      /\ Unseen(w) <=> Unseen(ui)
      /\ \A x : Shows(w, x) <=> Shows(ui, x)
  BY <1>3 DEF Old, Past, SigningIn, Lag, Unseen, Shows
<1>5. Seen(w) /\ Honest(w) /\ Countdown(w) /\ Stacked(w.open)
  BY <1>1, <1>2, <1>3, <1>4 DEF Sound, Nearly, Seen, Honest, Countdown
<1>6. Layers(w) /\ GameFits(w)
  BY <1>1, <1>2, <1>3, <1>4 DEF Sound, Nearly, Layers, GameFits
<1>7. ViewOf(w) /\ (w.repairing \/ Opened(w)) /\ Unseen(w)
  BY <1>1, <1>3, <1>4 DEF Good, Fits, Viewed, ViewOf, Opened
<1>8. Good(Recompute(w)) /\ Turned(w, Recompute(w))
  BY <1>2, <1>3, <1>4, <1>5, <1>6, <1>7, RecomputeGood DEF Nearly, Past
<1>9. ui' = Recompute(w)
  BY DEF InstallGame, w
<1> QED BY <1>3, <1>8, <1>9, TurnedAside, AsideKeeps DEF Aside

LEMMA TransferEndsKeeps ==
  ASSUME IInv, TransferEnds
  PROVE  Keeps
<1>1. ui \in Uis /\ Good(ui) /\ Typed(ui) /\ Sound(ui) /\ Installing(ui)
  BY InvTyped DEF TransferEnds, Installing
<1>2. /\ Past(ui) /\ ~Old(ui) /\ ~ui.seen.game /\ ui.failed = "none" /\ ~ui.wine
      /\ ui.seen.config.runtime /\ ~SigningIn(ui) /\ ~ui.repairing
      /\ ui.stage \in {"Updating", "Downloading"} /\ Shows(ui, "game")
      /\ ui.disk \in Disked /\ ui.seen \in Seens
  BY <1>1 DEF Good, Sound, Nearly, Layers, GameFits, Seen, Past, Old, Fits, Uis, Installing
<1>3. CASE ui' = Recompute(ScheduleProbe([ui EXCEPT !.transfer = FALSE, !.disk.game = TRUE,
                                                  !.seen.game = TRUE]))
  <2> DEFINE d == [ui.disk EXCEPT !.game = TRUE]
             s == [ui.seen EXCEPT !.game = TRUE]
             c == [ui EXCEPT !.transfer = FALSE, !.disk = d, !.seen = s]
             w == [c EXCEPT !.probe = TRUE]
  <2>1. d \in Disked /\ d.game = TRUE /\ s \in Seens /\ s.game = TRUE
        /\ s.config = ui.seen.config /\ s.prefix = ui.seen.prefix
    BY <1>2 DEF Disked, Seens
  <2>2. [ui EXCEPT !.transfer = FALSE, !.disk.game = TRUE, !.seen.game = TRUE] = c
    BY <1>1 DEF Uis
  <2> HIDE DEF d, s
  <2>3. /\ w \in Uis /\ w.disk = d /\ w.seen = s /\ w.transfer = FALSE /\ w.probe = TRUE
        /\ w.config = ui.config /\ w.read = ui.read /\ w.wine = ui.wine
        /\ w.probed = ui.probed /\ w.reviewed = ui.reviewed /\ w.signing = ui.signing
        /\ w.stage = ui.stage /\ w.view = ui.view
        /\ w.failed = ui.failed /\ w.message = ui.message /\ w.muted = ui.muted
        /\ w.damaged = ui.damaged /\ w.repairing = ui.repairing /\ w.pending = ui.pending
        /\ w.scheduled = ui.scheduled /\ w.posted = ui.posted /\ w.box = ui.box
        /\ w.open = ui.open /\ w.changed = ui.changed /\ c.config = ui.config
    BY <1>1, <2>1 DEF Uis
  <2>4. ScheduleProbe(c) = w
    BY <1>2, <2>3 DEF ScheduleProbe, Past
  <2> HIDE DEF w, c
  <2>5. /\ ~Old(w) /\ Past(w) /\ Lag(w) /\ ~Installing(w) /\ ~SigningIn(w)
        /\ Unseen(w) <=> Unseen(ui)
        /\ \A x : Shows(w, x) <=> Shows(ui, x)
    BY <1>2, <2>1, <2>3 DEF Old, Past, Installing, SigningIn, Lag, Unseen, Shows
  <2>6. Seen(w) /\ Honest(w) /\ Countdown(w) /\ Stacked(w.open)
    BY <1>1, <1>2, <2>1, <2>3, <2>5 DEF Sound, Nearly, Seen, Honest, Countdown
  <2>7. Layers(w)
    BY <1>1, <1>2, <2>3, <2>5 DEF Sound, Nearly, Layers
  <2>8. Typed(w) /\ ui.view = "loading"
    BY <1>1, <1>2, <2>3, UiTyped, ViewIs DEF Good, Viewed, ViewOf
  <2>9. Compute(w) \in {"NeedsPrefix", "PrefixBroken", "NeedsRules"} \cup Signed
    BY <1>2, <2>1, <2>3, <2>5, <2>8, ComputeIs DEF Typed, Past, Signed
  <2>10. View(Compute(w)) \in {"prefix", "rules", "chooser"}
    BY <2>9, ViewIs DEF Signed
  <2>11. Leaves(w)
    BY <1>2, <2>3, <2>5, <2>8, <2>9, <2>10 DEF Leaves, Signed
  <2>12. ViewOf(w) /\ Unseen(w) /\ Compute(w) # w.stage
    BY <1>1, <1>2, <2>3, <2>5, <2>11 DEF Good, Fits, Viewed, ViewOf, Leaves
  <2>13. Good(Recompute(w)) /\ Turned(w, Recompute(w))
    BY <1>2, <2>3, <2>5, <2>6, <2>7, <2>11, <2>12, RecomputeGood DEF Nearly, Past
  <2>14. ui' = Recompute(w)
    BY <1>3, <2>2, <2>4
  <2> QED BY <2>3, <2>13, <2>14, TurnedAside, AsideKeeps DEF Aside
<1>4. CASE ui' = Recompute([ui EXCEPT !.transfer = FALSE])
  <2> DEFINE w == [ui EXCEPT !.transfer = FALSE]
  <2>1. /\ w \in Uis /\ w.disk = ui.disk /\ w.wine = ui.wine /\ w.transfer = FALSE
        /\ w.config = ui.config /\ w.read = ui.read /\ w.seen = ui.seen
        /\ w.probed = ui.probed /\ w.reviewed = ui.reviewed /\ w.signing = ui.signing
        /\ w.stage = ui.stage /\ w.view = ui.view
        /\ w.failed = ui.failed /\ w.message = ui.message /\ w.muted = ui.muted
        /\ w.damaged = ui.damaged /\ w.repairing = ui.repairing /\ w.pending = ui.pending
        /\ w.scheduled = ui.scheduled /\ w.posted = ui.posted /\ w.box = ui.box
        /\ w.open = ui.open /\ w.changed = ui.changed /\ w.probe = ui.probe
    BY <1>1 DEF Uis
  <2> HIDE DEF w
  <2>2. Lessens(ui, w)
    BY <1>1, <1>2, <2>1 DEF Lessens, SigningIn, Sound, Nearly, Seen
  <2>3. Good(Recompute(w)) /\ Turned(w, Recompute(w))
    BY <1>1, <1>2, <2>2, LessGood DEF Past
  <2>4. ui' = Recompute(w)
    BY <1>4 DEF w
  <2> QED BY <2>1, <2>3, <2>4, TurnedAside, AsideKeeps DEF Aside
<1> QED BY <1>3, <1>4 DEF TransferEnds

\* The stages in which the chooser has its controls.
LEMMA ControlsAre ==
  ASSUME NEW u, u.stage \in Stages
  PROVE  /\ "download" \in Controls(u) => u.stage \in Actionable
         /\ "discord" \in Controls(u) => u.stage = "NeedsAuth"
         /\ "enter" \in Controls(u) => u.stage = "Ready"
         /\ "reset" \in Controls(u) => u.stage \in Signed \cup {"Updating"}
         /\ u.stage \in Actionable \cup Signed => Controls(u) # {}
<1>1. CASE u.stage = "NeedsAuth"
  <2>1. ChooserState(u) = "login"
    BY <1>1 DEF ChooserState
  <2> QED BY <1>1, <2>1 DEF Controls, Signed
<1>2. CASE u.stage = "Authenticating"
  <2>1. ChooserState(u) = "waiting"
    BY <1>2 DEF ChooserState
  <2> QED BY <1>2, <2>1 DEF Controls, Signed
<1>3. CASE u.stage = "Ready"
  <2>1. ChooserState(u) = "signed in"
    BY <1>3 DEF ChooserState
  <2> QED BY <1>3, <2>1 DEF Controls, Signed, EnterEnabled
<1>4. CASE u.stage = "Updating" /\ u.config.account
  <2>1. ChooserState(u) = "signed in"
    BY <1>4 DEF ChooserState
  <2> QED BY <1>4, <2>1 DEF Controls, Signed, EnterEnabled, Actionable
<1>5. CASE u.stage \notin Signed /\ ~(u.stage = "Updating" /\ u.config.account)
  <2>1. ChooserState(u) = "download"
    BY <1>5 DEF ChooserState, Signed
  <2> QED BY <1>5, <2>1 DEF Controls
<1> QED BY <1>1, <1>2, <1>3, <1>4, <1>5 DEF Signed

LEMMA ChooserDownloadKeeps ==
  ASSUME IInv, ChooserDownload
  PROVE  Keeps
<1>1. Good(ui) /\ ui.stage \in Stages
  BY InvTyped DEF Typed
<1>2. Top(ui) = "none" /\ "download" \in Controls(ui) /\ ui' = OpenForCurrentStage(ui)
  BY DEF ChooserDownload, Offered
<1>3. ui.stage \notin {"NeedsLanguage", "NeedsPrerequisites"}
  BY <1>1, <1>2, ControlsAre DEF Actionable
<1>4. ui.config.language /\ \A o : ~Shows(ui, o)
  BY <1>2, NothingShown
<1> QED BY <1>1, <1>2, <1>3, <1>4, OpenForCurrentGood, AsideKeeps

LEMMA CloseMessageKeeps ==
  ASSUME IInv, CloseMessage
  PROVE  Keeps
<1> DEFINE w == [ClearError(ui) EXCEPT !.message = FALSE]
<1>1. ui \in Uis /\ Good(ui) /\ Typed(ui) /\ Seen(ui) /\ GameFits(ui)
  BY InvTyped DEF Sound, Nearly
<1>2. /\ w \in Uis /\ w.failed = "none"
      /\ w.config = ui.config /\ w.read = ui.read /\ w.disk = ui.disk /\ w.seen = ui.seen
      /\ w.probed = ui.probed /\ w.reviewed = ui.reviewed /\ w.signing = ui.signing
      /\ w.wine = ui.wine /\ w.transfer = ui.transfer /\ w.stage = ui.stage
      /\ w.view = ui.view /\ w.damaged = ui.damaged /\ w.repairing = ui.repairing
      /\ w.pending = ui.pending /\ w.scheduled = ui.scheduled /\ w.posted = ui.posted
      /\ w.box = ui.box /\ w.open = ui.open /\ w.changed = ui.changed /\ w.probe = ui.probe
  BY <1>1 DEF ClearError, Uis
<1>3. ui' = Probe(w)
  BY DEF CloseMessage, DismissError, w
<1> HIDE DEF w
<1>4. CASE ui.config.language
  <2>1. Lessens(ui, w)
    BY <1>1, <1>2 DEF Lessens, SigningIn, Seen, GameFits
  <2>2. Sound(w) /\ Viewed(w) /\ w.config.language
    BY <1>1, <1>2, <1>4, <2>1, LessSound
  <2>3. Good(ui') /\ Aside(w, ui')
    BY <1>3, <2>2, ProbeGood
  <2> QED BY <1>2, <2>3, AsideKeeps DEF Aside
<1>5. CASE ~ui.config.language
  <2>1. Says(w)
    BY <1>1, <1>2 DEF Good, Says
  <2>2. ui' = w
    BY <1>2, <1>3, <1>5, <2>1, NothingToProbe
  <2>3. Eases(ui, w)
    BY <1>1, <1>2, <1>5 DEF Eases, SigningIn, Seen, Lag
  <2> QED BY <1>1, <1>2, <2>2, <2>3, EasedGood, KeepsIf
<1> QED BY <1>4, <1>5

(***************************************************************************)
(* The rules                                                               *)
(***************************************************************************)
\* Only the box of the rules has changed, and perhaps what is cached.
LEMMA BoxKeeps ==
  ASSUME IInv, NEW b \in Boxes, NEW cached \in Documents \cup {NoDocument},
         ui' = [ui EXCEPT !.box = b, !.disk = [@ EXCEPT !.rules = cached]],
         b.scrolled => b.elapsed = Cooldown,
         Shows(ui, "rules") => b.left + b.elapsed >= Cooldown
  PROVE  Keeps
<1> DEFINE d == [ui.disk EXCEPT !.rules = cached]
           v == [ui EXCEPT !.box = b, !.disk = d]
<1>1. ui \in Uis /\ Good(ui) /\ ui.disk \in Disked
  BY InvTyped DEF Uis
<1>2. d \in Disked /\ d.game = ui.disk.game
  BY <1>1 DEF Disked
<1>3. ui' = v
  BY <1>1 DEF Uis
<1> HIDE DEF d
<1>4. Alike(ui, v) /\ v.box = b /\ v.open = ui.open /\ v.damaged = ui.damaged
  BY <1>1, <1>2 DEF Uis, Alike
<1> HIDE DEF v
<1>5. \A x : Shows(v, x) <=> Shows(ui, x)
  BY <1>4 DEF Shows
<1>6. /\ Old(v) <=> Old(ui)
      /\ Past(v) <=> Past(ui)
      /\ Installing(v) <=> Installing(ui)
  BY <1>4 DEF Alike, Old, Past, Installing
<1>7. Countdown(v) /\ Stacked(v.open)
  BY <1>1, <1>4, <1>5 DEF Countdown, Good, Sound, Nearly
<1>8. Layers(v) /\ GameFits(v) /\ Viewed(v)
  BY <1>1, <1>4, <1>5, <1>6
     DEF Alike, Layers, GameFits, Good, Sound, Nearly, Viewed, ViewOf, Opened
<1>9. Good(v)
  BY <1>1, <1>4, <1>5, <1>7, <1>8, AlikeGood DEF Good
<1> QED BY <1>3, <1>4, <1>9, KeepsIf DEF Alike

\* The same for a step that leaves the cache alone.
LEMMA BoxAloneKeeps ==
  ASSUME IInv, NEW b \in Boxes, ui' = [ui EXCEPT !.box = b],
         b.scrolled => b.elapsed = Cooldown,
         Shows(ui, "rules") => b.left + b.elapsed >= Cooldown
  PROVE  Keeps
<1>1. ui \in Uis /\ ui.disk \in Disked
  BY InvTyped DEF Uis
<1>2. ui.disk.rules \in Documents \cup {NoDocument}
      /\ ui.disk = [ui.disk EXCEPT !.rules = ui.disk.rules]
  BY <1>1 DEF Disked
<1>3. ui' = [ui EXCEPT !.box = b, !.disk = [@ EXCEPT !.rules = ui.disk.rules]]
  BY <1>1, <1>2 DEF Uis
<1> QED BY <1>2, <1>3, BoxKeeps

LEMMA BoxNow ==
  ASSUME IInv
  PROVE  /\ ui.box \in Boxes /\ Cooldown \in Nat /\ ui.disk.rules \in Documents \cup {NoDocument}
         /\ ui.box.left \in 0 .. Cooldown /\ ui.box.elapsed \in 0 .. Cooldown
         /\ ui.box.scrolled \in BOOLEAN /\ ui.box.ready \in BOOLEAN
         /\ ui.box.scrolled => ui.box.elapsed = Cooldown
         /\ Shows(ui, "rules") => ui.box.left + ui.box.elapsed >= Cooldown
<1>1. ui.box \in Boxes /\ ui.disk \in Disked /\ Countdown(ui)
  BY InvTyped DEF Uis
<1> QED BY <1>1, CooldownAssumption DEF Countdown, Boxes, Disked

LEMMA RulesTickKeeps ==
  ASSUME IInv, RulesTick
  PROVE  Keeps
<1> DEFINE shown == Shows(ui, "rules")
           b     == Tick(ui.box, shown)
<1>1. ui' = [ui EXCEPT !.box = b]
  BY DEF RulesTick
<1>2. shown => ui.box.left + ui.box.elapsed >= Cooldown
  BY BoxNow
<1> HIDE DEF shown
<1>3. /\ b \in Boxes
      /\ b.scrolled => b.elapsed = Cooldown
      /\ shown => b.left + b.elapsed >= Cooldown
  <2> DEFINE l == IF ui.box.left = 0 THEN 0 ELSE ui.box.left - 1
             e == IF shown /\ ui.box.elapsed < Cooldown THEN ui.box.elapsed + 1 ELSE ui.box.elapsed
             t == l > 0
  <2>1. l \in 0 .. Cooldown /\ e \in 0 .. Cooldown /\ t \in BOOLEAN
    BY BoxNow
  <2>2. (ui.box.scrolled => e = Cooldown) /\ (shown => l + e >= Cooldown)
    BY <1>2, BoxNow
  <2>3. b = [ui.box EXCEPT !.left = l, !.ticking = t, !.elapsed = e]
    BY DEF Tick
  <2> HIDE DEF l, e, t
  <2>4. b \in Boxes /\ b.left = l /\ b.elapsed = e /\ b.scrolled = ui.box.scrolled
    BY <2>1, <2>3, BoxNow DEF Boxes
  <2> QED BY <2>2, <2>4
<1> HIDE DEF b
<1> QED BY <1>1, <1>3, BoxAloneKeeps DEF shown

LEMMA RulesScrollKeeps ==
  ASSUME IInv, RulesScroll
  PROVE  Keeps
<1> DEFINE b == ScrollToEnd(ui.box)
<1>1. b \in Boxes /\ b.elapsed = Cooldown /\ b.left = ui.box.left
  <2>1. Cooldown \in 0 .. Cooldown
    BY BoxNow
  <2> QED BY <2>1, BoxNow DEF ScrollToEnd, Boxes
<1>2. ui' = [ui EXCEPT !.box = b]
  BY DEF RulesScroll
<1> HIDE DEF b
<1>3. b.left + b.elapsed >= Cooldown
  BY <1>1, BoxNow
<1> QED BY <1>1, <1>2, <1>3, BoxAloneKeeps

LEMMA RulesRetryKeeps ==
  ASSUME IInv, RulesRetry
  PROVE  Keeps
<1> DEFINE b == LoadRules(ui.box)
<1>1. /\ b \in Boxes /\ b.elapsed = ui.box.elapsed /\ b.left = ui.box.left
      /\ b.scrolled = ui.box.scrolled
  BY BoxNow DEF LoadRules, Requested, Boxes
<1>2. ui' = [ui EXCEPT !.box = b]
  BY DEF RulesRetry
<1> HIDE DEF b
<1> QED BY <1>1, <1>2, BoxNow, BoxAloneKeeps

LEMMA ReshowKeeps ==
  ASSUME IInv, Reshow
  PROVE  Keeps
<1> DEFINE b == ShowBox(ui.box, ui.disk.rules)
<1>1. /\ b \in Boxes /\ (b.scrolled => b.elapsed = Cooldown)
      /\ b.left + b.elapsed >= Cooldown
  BY BoxNow, ShowBoxIs
<1>2. ui' = [ui EXCEPT !.box = b]
  BY DEF Reshow
<1> HIDE DEF b
<1> QED BY <1>1, <1>2, BoxAloneKeeps

LEMMA DisplayIs ==
  ASSUME NEW b \in Boxes, NEW doc \in Documents
  PROVE  LET v == Display(b, doc)
         IN  /\ v \in Boxes
             /\ v.scrolled => v.elapsed = Cooldown
             /\ v.left + v.elapsed >= Cooldown
<1> DEFINE e == IF doc = "short" THEN Cooldown ELSE 0
           s == doc = "short"
           w == [b EXCEPT !.doc = doc, !.ready = TRUE]
           v == [b EXCEPT !.doc = doc, !.ready = TRUE, !.left = Cooldown, !.ticking = TRUE,
                          !.scrolled = s, !.elapsed = e]
<1>1. /\ Cooldown \in 0 .. Cooldown /\ Cooldown \in Nat /\ e \in 0 .. Cooldown
      /\ s \in BOOLEAN /\ (s => e = Cooldown)
  BY CooldownAssumption
<1>2. w.doc = doc
  BY DEF Boxes
<1>3. Display(b, doc) = v
  BY <1>2 DEF Display, StartCooldown, Boxes
<1> HIDE DEF e, s
<1>4. v \in Boxes /\ v.left = Cooldown /\ v.elapsed = e /\ v.scrolled = s
  BY <1>1 DEF Boxes
<1> HIDE DEF v
<1>5. v.left + v.elapsed >= Cooldown
  BY <1>1, <1>4
<1> QED BY <1>1, <1>3, <1>4, <1>5

LEMMA OutcomesAre ==
  Outcomes \subseteq Documents \cup {"unreachable", "rejected"}
<1>1. SUFFICES ASSUME NEW r \in Responses
               PROVE  Outcome(r) \in Documents \cup {"unreachable", "rejected"}
  BY DEF Outcomes
<1>2. /\ r.document \in Documents /\ r.status \in {200, 404}
      /\ r.body \in {"empty", "fits", "huge"}
      /\ r.redirect \in {"none", "secure", "insecure", "sign-in"}
  BY DEF Responses
<1>3. CASE ~Completed(r) \/ r.status # 200
  BY <1>3 DEF Outcome
<1>4. CASE Completed(r) /\ r.status = 200 /\ (r.body = "empty" \/ r.redirect = "sign-in")
  BY <1>4 DEF Outcome
<1>5. CASE Completed(r) /\ r.status = 200 /\ r.body = "fits" /\ r.redirect # "sign-in"
  BY <1>2, <1>5 DEF Outcome
<1> QED BY <1>2, <1>3, <1>4, <1>5 DEF Completed

LEMMA AnsweredIs ==
  ASSUME NEW b \in Boxes, NEW outcome \in Outcomes, NEW cached \in Documents \cup {NoDocument}
  PROVE  LET v == Answered(b, outcome, cached)
         IN  /\ v \in Boxes
             /\ \/ (v.scrolled => v.elapsed = Cooldown) /\ v.left + v.elapsed >= Cooldown
                \/ v.scrolled = b.scrolled /\ v.elapsed = b.elapsed /\ v.left = b.left
<1> DEFINE idle == [b EXCEPT !.request = FALSE]
           down == [idle EXCEPT !.ready = FALSE]
           v    == Answered(b, outcome, cached)
<1>1. /\ idle \in Boxes /\ idle.scrolled = b.scrolled /\ idle.elapsed = b.elapsed
      /\ idle.left = b.left
  BY DEF Boxes
<1>2. /\ down \in Boxes /\ down.scrolled = b.scrolled /\ down.elapsed = b.elapsed
      /\ down.left = b.left /\ ShowFailure(idle) = down
  BY DEF Boxes, ShowFailure
<1>3. outcome \in Documents \cup {"unreachable", "rejected"}
      /\ "unreachable" \notin Documents /\ "rejected" \notin Documents
      /\ b.ready \in BOOLEAN
  BY OutcomesAre, DocumentsAssumption DEF Boxes
<1> HIDE DEF idle, down
<1>4. CASE outcome \in Documents
  <2>1. v = Display(idle, outcome)
    BY <1>4, <1>3 DEF Answered, idle
  <2> QED BY <1>1, <1>4, <2>1, DisplayIs
<1>5. CASE outcome = "unreachable" /\ ~b.ready /\ cached # NoDocument
  <2>1. v = Display(idle, cached)
    BY <1>3, <1>5 DEF Answered, idle
  <2> QED BY <1>1, <1>5, <2>1, DisplayIs
<1>6. CASE outcome = "unreachable" /\ ~b.ready /\ cached = NoDocument
  <2>1. v = down
    BY <1>2, <1>3, <1>6 DEF Answered, idle
  <2> QED BY <1>2, <2>1
<1>7. CASE outcome = "rejected" /\ ~b.ready
  <2>1. v = down
    BY <1>2, <1>3, <1>7 DEF Answered, idle
  <2> QED BY <1>2, <2>1
<1>8. CASE outcome \in {"unreachable", "rejected"} /\ b.ready
  <2>1. v = idle
    BY <1>3, <1>8 DEF Answered, idle
  <2> QED BY <1>1, <2>1
<1> QED BY <1>3, <1>4, <1>5, <1>6, <1>7, <1>8

LEMMA RulesAnsweredKeeps ==
  ASSUME IInv, RulesAnswered
  PROVE  Keeps
<1>1. PICK outcome \in Outcomes : \E cache \in Caches(outcome, ui.disk.rules) :
        ui' = [ui EXCEPT !.box = Answered(@, outcome, ui.disk.rules), !.disk.rules = cache]
  BY DEF RulesAnswered
<1>2. PICK cache \in Caches(outcome, ui.disk.rules) :
        ui' = [ui EXCEPT !.box = Answered(@, outcome, ui.disk.rules), !.disk.rules = cache]
  BY <1>1
<1> DEFINE b == Answered(ui.box, outcome, ui.disk.rules)
<1>3. /\ b \in Boxes
      /\ \/ (b.scrolled => b.elapsed = Cooldown) /\ b.left + b.elapsed >= Cooldown
         \/ b.scrolled = ui.box.scrolled /\ b.elapsed = ui.box.elapsed /\ b.left = ui.box.left
  BY BoxNow, AnsweredIs
<1>4. ui' = [ui EXCEPT !.box = b, !.disk = [@ EXCEPT !.rules = cache]]
  BY <1>2, InvTyped DEF Uis
<1>5. cache \in Documents \cup {NoDocument}
  BY BoxNow DEF Caches
<1> HIDE DEF b
<1>6. /\ b.scrolled => b.elapsed = Cooldown
      /\ Shows(ui, "rules") => b.left + b.elapsed >= Cooldown
  BY <1>3, BoxNow
<1> QED BY <1>3, <1>4, <1>5, <1>6, BoxKeeps

\* Whoever may agree has read.
LEMMA AgreedHasRead ==
  ASSUME IInv, Shows(ui, "rules"), CanAgree(ui.box)
  PROVE  HasRead(ui.box)
  BY BoxNow DEF CanAgree, HasRead

LEMMA RulesAgreeKeeps ==
  ASSUME IInv, RulesAgree
  PROVE  Keeps
<1> DEFINE r == ui.read \/ HasRead(ui.box)
           c == Close(ui, {"rules"})
           w == [c EXCEPT !.reviewed = TRUE, !.read = r]
<1>1. /\ ui \in Uis /\ Good(ui) /\ Sound(ui) /\ Typed(ui) /\ Stacked(ui.open) /\ Countdown(ui)
      /\ Shows(ui, "rules")
  BY InvTyped, TopShown DEF RulesAgree
<1>2. r
  BY <1>1, AgreedHasRead DEF RulesAgree
<1>3. /\ c \in Uis /\ Beside(ui, c) /\ Stacked(c.open) /\ Countdown(c)
      /\ \A x : Shows(c, x) <=> Shows(ui, x) /\ x # "rules"
  BY <1>1, CloseIs, Closed, ClosedCountdown
<1>4. ui' = IF ui.reviewed THEN w ELSE Recompute(w)
  <2>1. c.read = ui.read
    BY <1>3 DEF Beside
  <2> HIDE DEF c
  <2>2. w = [c EXCEPT !.reviewed = TRUE, !.read = @ \/ HasRead(ui.box)]
    BY <2>1
  <2> QED BY <2>2 DEF RulesAgree, c
<1> HIDE DEF c, r
<1>5. /\ w \in Uis /\ w.reviewed = TRUE /\ w.read = TRUE /\ w.wine = ui.wine
      /\ w.config = ui.config /\ w.disk = ui.disk /\ w.seen = ui.seen /\ w.probed = ui.probed
      /\ w.signing = ui.signing /\ w.transfer = ui.transfer /\ w.failed = ui.failed
      /\ w.stage = ui.stage /\ w.view = ui.view /\ w.message = ui.message
      /\ w.muted = ui.muted /\ w.damaged = ui.damaged /\ w.repairing = ui.repairing
      /\ w.pending = ui.pending /\ w.scheduled = ui.scheduled /\ w.posted = ui.posted
      /\ w.box = c.box /\ w.open = c.open /\ w.changed = ui.changed /\ w.probe = ui.probe
  BY <1>2, <1>3 DEF Uis, Beside
<1> HIDE DEF w
<1>6. \A x : Shows(w, x) <=> Shows(ui, x) /\ x # "rules"
  BY <1>3, <1>5 DEF Shows
<1>7. Past(ui) /\ ~Shows(ui, "game") /\ ~Shows(ui, "prerequisites") /\ ~Installing(ui)
  <2>1. "rules" \in SetupBoxes /\ "rules" \in Late /\ "game" \in SetupBoxes
        /\ "prerequisites" \in SetupBoxes
    BY DEF SetupBoxes, Late
  <2> QED BY <1>1, <2>1 DEF Sound, Nearly, Layers
<1>8. /\ Old(w) <=> Old(ui)
      /\ Past(w) /\ ~Old(w) /\ ~Installing(w)
      /\ SigningIn(w) <=> SigningIn(ui)
      /\ Lag(w) <=> Lag(ui)
      /\ Unseen(w)
  BY <1>1, <1>5, <1>7 DEF Old, Past, Installing, SigningIn, Lag, Unseen
<1>9. Seen(w) /\ Honest(w)
  BY <1>1, <1>5, <1>7, <1>8 DEF Sound, Nearly, Seen, Honest
<1>10. Countdown(w) /\ Stacked(w.open)
  BY <1>3, <1>5, <1>6 DEF Countdown
<1>11. Layers(w) /\ GameFits(w)
  BY <1>1, <1>5, <1>6, <1>7, <1>8 DEF Sound, Nearly, Layers, GameFits
<1>12. ViewOf(w)
  BY <1>1, <1>5, <1>6 DEF Good, Viewed, ViewOf
<1>13. CASE ui.reviewed
  <2>1. ui.read = TRUE
    BY <1>1, <1>13 DEF Sound, Nearly, Honest, Typed
  <2>2. Alike(ui, w)
    BY <1>5, <1>13, <2>1, <1>1 DEF Alike, Typed
  <2>3. ui.stage # "NeedsRules"
    BY <1>1, <1>13 DEF Good, Says
  <2>4. Viewed(w)
    BY <1>1, <1>5, <1>6, <1>12, <2>3 DEF Good, Viewed, Opened
  <2>5. Good(w)
    BY <1>1, <1>6, <1>10, <1>11, <2>2, <2>4, AlikeGood DEF Good
  <2> QED BY <1>4, <1>5, <1>13, <2>5, KeepsIf
<1>14. CASE ~ui.reviewed
  <2>1. Typed(w)
    BY <1>5, UiTyped
  <2>2. Compute(w) \notin {"NeedsRules", "NeedsPrerequisites"}
    BY <1>5, <1>8, <2>1, ComputeIs DEF Typed, Past
  <2>3. Compute(w) = w.stage => Opened(w)
    BY <2>2 DEF Opened
  <2>4. Good(Recompute(w)) /\ Turned(w, Recompute(w))
    BY <1>5, <1>7, <1>8, <1>9, <1>10, <1>11, <1>12, <2>3, RecomputeGood DEF Nearly, Past
  <2> QED BY <1>4, <1>5, <1>14, <2>4, TurnedAside, AsideKeeps DEF Aside
<1> QED BY <1>13, <1>14

(***************************************************************************)
(* What the user and the system do about the sign-in                       *)
(***************************************************************************)
LEMMA OpenLoginKeeps ==
  ASSUME IInv, OpenLogin
  PROVE  Keeps
<1> DEFINE w == [ui EXCEPT !.pending = TRUE, !.signing = TRUE]
           b == Recompute(w)
<1>1. ui \in Uis /\ Good(ui) /\ Sound(ui) /\ Typed(ui) /\ ui.stage \in Stages
  BY InvTyped DEF Typed
<1>2. /\ Top(ui) = "none" /\ "discord" \in Controls(ui) /\ ~ui.pending /\ ~ui.scheduled
      /\ ui' = b \/ ui' = FailLogin(b)
  BY DEF OpenLogin, Offered
<1>3. ui.stage = "NeedsAuth" /\ \A o : ~Shows(ui, o)
  BY <1>1, <1>2, ControlsAre, NothingShown
<1>4. /\ Past(ui) /\ ~Old(ui) /\ ui.seen.game
      /\ ui.failed = "none" /\ ~ui.wine /\ ~ui.transfer
  BY <1>1, <1>3 DEF Good, Says, Fits, Signed, Old, Past
<1>5. /\ w \in Uis /\ w.pending = TRUE /\ w.signing = TRUE /\ w.wine = ui.wine
      /\ w.config = ui.config /\ w.read = ui.read /\ w.disk = ui.disk /\ w.seen = ui.seen
      /\ w.probed = ui.probed /\ w.reviewed = ui.reviewed /\ w.transfer = ui.transfer
      /\ w.failed = ui.failed /\ w.stage = ui.stage /\ w.view = ui.view
      /\ w.message = ui.message /\ w.muted = ui.muted /\ w.damaged = ui.damaged
      /\ w.repairing = ui.repairing /\ w.scheduled = ui.scheduled /\ w.posted = ui.posted
      /\ w.box = ui.box /\ w.open = ui.open /\ w.changed = ui.changed /\ w.probe = ui.probe
  BY <1>1 DEF Uis
<1> HIDE DEF w
<1>6. /\ Old(w) <=> Old(ui)
      /\ Past(w) <=> Past(ui)
      /\ Installing(w) <=> Installing(ui)
      /\ Lag(w) <=> Lag(ui)
      /\ Unseen(w) <=> Unseen(ui)
      /\ \A x : Shows(w, x) <=> Shows(ui, x)
  BY <1>5 DEF Old, Past, Installing, Lag, Unseen, Shows
<1>7. Seen(w) /\ Honest(w) /\ Countdown(w) /\ Stacked(w.open)
  BY <1>1, <1>2, <1>4, <1>5, <1>6 DEF Sound, Nearly, Seen, Honest, Countdown
<1>8. Layers(w) /\ GameFits(w)
  BY <1>1, <1>5, <1>6 DEF Sound, Nearly, Layers, GameFits
<1>9. ViewOf(w) /\ (w.repairing \/ Opened(w)) /\ Unseen(w)
  BY <1>1, <1>5, <1>6 DEF Good, Fits, Viewed, ViewOf, Opened
<1>10. Good(b) /\ Turned(w, b)
  BY <1>4, <1>5, <1>6, <1>7, <1>8, <1>9, RecomputeGood DEF Nearly, Past
<1> HIDE DEF b
<1>11. /\ b.config = ui.config /\ b.posted = ui.posted /\ ~b.scheduled /\ b.pending
  BY <1>2, <1>5, <1>10, TurnedAside DEF Aside
<1>12. Queued(b)
  BY <1>2, <1>11 DEF IInv, Queued
<1>13. CASE ui' = b
  BY <1>10, <1>11, <1>12, <1>13 DEF Keeps, IInv
<1>14. CASE ui' = FailLogin(b)
  BY <1>10, <1>11, <1>12, <1>14, FailLoginKeeps DEF Keeps, IInv
<1> QED BY <1>2, <1>13, <1>14

LEMMA TryAgainKeeps ==
  ASSUME IInv, TryAgain
  PROVE  Keeps
  BY CancelLoginKeeps DEF TryAgain, IInv, Keeps

LEMMA LoginTimesOutKeeps ==
  ASSUME IInv, LoginTimesOut
  PROVE  Keeps
  BY FailLoginKeeps DEF LoginTimesOut, IInv, Keeps

LEMMA ActivateKeeps ==
  ASSUME IInv, NEW url, Activate(url)
  PROVE  Keeps
<1>1. ui \in Uis /\ Good(ui) /\ Queued(ui) /\ ui.posted \in Seq(Events)
  BY InvTyped DEF IInv, Uis
<1>2. CASE IsAuthUrl(url)
  <2> DEFINE q == Append(ui.posted, Callback)
             v == [ui EXCEPT !.posted = q]
  <2>1. /\ q \in Seq(Events) /\ q # <<>> /\ DOMAIN q = 1 .. Len(ui.posted) + 1
        /\ DOMAIN ui.posted = 1 .. Len(ui.posted) /\ Len(ui.posted) \in Nat
        /\ \A i \in DOMAIN ui.posted : q[i] = ui.posted[i]
        /\ q[Len(ui.posted) + 1] = Callback
    BY <1>1, EventsAre
  <2>2. ui.posted # <<>> => 1 \in DOMAIN ui.posted
    BY <1>1
  <2> HIDE DEF q
  <2>3. v \in Uis /\ v.posted = q /\ v.scheduled = ui.scheduled
    BY <1>1, <2>1 DEF Uis
  <2>4. Requeues(ui, v)
    BY <1>1, <2>1, <2>3 DEF Requeues, Around, SigningIn, Uis, Good, Sound, Nearly, Seen
  <2>5. Good(v) /\ v.config = ui.config
    BY <1>1, <2>4, RequeuedGood
  <2>6. ui' = v
    BY <1>2 DEF Activate, q
  <2> HIDE DEF v
  <2>7. Queued(v)
    <3>1. \A i \in DOMAIN q : i # 1 => q[i] = Callback
      BY <1>1, <2>1 DEF Queued
    <3>2. ui.scheduled => q[1] = Due
      BY <1>1, <2>1, <2>2 DEF Queued
    <3> QED BY <2>1, <2>3, <3>1, <3>2 DEF Queued
  <2> QED BY <2>5, <2>6, <2>7 DEF Keeps, IInv
<1>3. CASE ~IsAuthUrl(url)
  BY <1>1, <1>3, KeepsIf DEF Activate
<1> QED BY <1>2, <1>3

LEMMA SignOutKeeps ==
  ASSUME IInv, SignOut
  PROVE  Keeps
<1> DEFINE v == Set(ui, [account |-> FALSE])
<1>1. ui \in Uis /\ Good(ui) /\ Seen(ui) /\ ui' = v
  BY InvTyped DEF SignOut, Sound, Nearly
<1>2. /\ Changed(ui, v) /\ v.config.language = ui.config.language
      /\ v.config.prerequisites = ui.config.prerequisites
      /\ v.config.runtime = ui.config.runtime /\ v.config.rules = ui.config.rules
      /\ v.config.account = FALSE
  BY <1>1, ClearAccount
<1> HIDE DEF v
<1>3. Eases(ui, v)
  BY <1>1, <1>2 DEF Changed, Eases, SigningIn, Lag, Seen
<1> QED BY <1>1, <1>2, <1>3, EasedGood, KeepsIf DEF Changed

LEMMA EnterKeeps ==
  ASSUME IInv, Enter
  PROVE  Keeps
<1> DEFINE v == Set(ui, [rules |-> TRUE])
<1>1. ui \in Uis /\ Good(ui) /\ Seen(ui) /\ Typed(ui) /\ ui' = v
  BY InvTyped DEF Enter, Sound, Nearly
<1>2. ui.stage = "Ready"
  BY <1>1, ControlsAre DEF Enter, Offered, Typed
<1>3. ui.read /\ ui.config.prerequisites
  BY <1>1, <1>2 DEF Good, Says, Fits, Old
<1>4. /\ Changed(ui, v) /\ v.config.language = ui.config.language
      /\ v.config.prerequisites = ui.config.prerequisites
      /\ v.config.runtime = ui.config.runtime
      /\ v.config.account = ui.config.account
  BY <1>1, SetRules
<1> HIDE DEF v
<1>5. Eases(ui, v)
  BY <1>1, <1>3, <1>4 DEF Changed, Eases, SigningIn, Lag, Seen
<1> QED BY <1>1, <1>4, <1>5, EasedGood, KeepsIf DEF Changed

(***************************************************************************)
(* What comes across                                                       *)
(***************************************************************************)
\* A look that is due is taken back, to be scheduled anew or taken now.
LEMMA ConfigChangedKeeps ==
  ASSUME IInv, ConfigChanged
  PROVE  Keeps
<1> DEFINE w == [ui EXCEPT !.changed = FALSE]
           v == [w EXCEPT !.probe = TRUE]
<1>1. ui \in Uis /\ Good(ui) /\ Seen(ui) /\ Typed(ui) /\ ui' = ScheduleProbe(w)
  BY InvTyped DEF ConfigChanged, Sound, Nearly
<1>2. CASE ui.config.language
  <2>1. Eases(ui, v) /\ Aside(ui, v)
    BY ZenonT(60), <1>1 DEF Eases, Aside, SigningIn, Lag, Seen, Uis
  <2>2. ui' = v
    BY <1>1, <1>2 DEF ScheduleProbe, Uis
  <2> QED BY <1>1, <2>1, <2>2, EasedGood, AsideKeeps
<1>3. CASE ~ui.config.language
  <2>1. Eases(ui, w) /\ Aside(ui, w)
    BY ZenonT(60), <1>1, <1>3 DEF Eases, Aside, SigningIn, Lag, Seen, Uis
  <2>2. Good(w) /\ ~w.config.language
    BY <1>1, <1>3, <2>1, EasedGood DEF Aside
  <2>3. ui' = w
    BY <1>1, <2>2, NothingToProbe DEF Good
  <2> QED BY <2>1, <2>2, <2>3, AsideKeeps
<1> QED BY <1>2, <1>3

LEMMA ProbeTimerKeeps ==
  ASSUME IInv, ProbeTimer
  PROVE  Keeps
<1> DEFINE w == [ui EXCEPT !.probe = FALSE]
<1>1. ui \in Uis /\ Good(ui) /\ Seen(ui) /\ Typed(ui) /\ ui' = Probe(w)
  BY InvTyped DEF ProbeTimer, Sound, Nearly
<1>2. CASE ui.config.language
  <2> DEFINE s == [config |-> ui.config, prefix |-> ui.disk.prefix, game |-> ui.disk.game]
  <2>1. w.config = ui.config /\ w.disk = ui.disk
    BY <1>1 DEF Uis
  <2>2. [w EXCEPT !.probe = FALSE, !.probed = TRUE, !.seen = s]
          = [ui EXCEPT !.probe = FALSE, !.probed = TRUE, !.seen = s]
    BY <1>1 DEF Uis
  <2>3. Probe(w) = Probe(ui)
    BY <1>2, <2>1, <2>2 DEF Probe
  <2> QED BY <1>1, <2>3, ProbeKeeps, AsideKeeps
<1>3. CASE ~ui.config.language
  <2>1. Eases(ui, w) /\ Aside(ui, w)
    BY ZenonT(60), <1>1, <1>3 DEF Eases, Aside, SigningIn, Lag, Seen, Uis
  <2>2. Good(w) /\ ~w.config.language
    BY <1>1, <1>3, <2>1, EasedGood DEF Aside
  <2>3. ui' = w
    BY <1>1, <2>2, NothingToProbe DEF Good
  <2> QED BY <2>1, <2>2, <2>3, AsideKeeps
<1> QED BY <1>2, <1>3

LEMMA FilesReportedKeeps ==
  ASSUME IInv, FilesReported
  PROVE  Keeps
<1> DEFINE shut == SetupBoxes \ {"language"}
           w == [ui EXCEPT !.damaged = TRUE]
           c == Close(w, shut)
           v == Open(c, "files")
<1>1. ui \in Uis /\ Good(ui) /\ Stacked(ui.open) /\ Countdown(ui)
  BY InvTyped
<1>2. /\ ui.config.language /\ ui.stage \notin {"Downloading", "Updating"} /\ ~ui.repairing
      /\ ui' = v
  BY DEF FilesReported
<1>3. /\ w \in Uis /\ Alike(ui, w) /\ w.damaged = TRUE /\ w.open = ui.open /\ w.box = ui.box
  BY <1>1 DEF Uis, Alike
<1> HIDE DEF w, shut
<1>4. Stacked(w.open) /\ Countdown(w) /\ \A x : Shows(w, x) <=> Shows(ui, x)
  BY <1>1, <1>3 DEF Countdown, Shows
<1>5. /\ c \in Uis /\ Beside(w, c) /\ Stacked(c.open) /\ Countdown(c)
      /\ \A x : Shows(c, x) <=> Shows(w, x) /\ x \notin shut
  BY <1>3, <1>4, CloseIs, Closed, ClosedCountdown
<1> HIDE DEF c
<1>6. "files" \in Boxed
  BY DEF Boxed
<1>7. /\ v \in Uis /\ Beside(c, v) /\ Stacked(v.open) /\ Countdown(v)
      /\ \A x : Shows(v, x) <=> Shows(c, x) \/ x = "files"
  BY <1>5, <1>6, OpenIs, Raised
<1> HIDE DEF v
<1>8. Alike(ui, v) /\ v.damaged = TRUE
  BY <1>3, <1>5, <1>7 DEF Alike, Beside
<1>9. /\ \A x : Shows(v, x) <=> x = "files" \/ (Shows(ui, x) /\ x \notin shut)
      /\ ~Shows(v, "language")
      /\ \A x \in SetupBoxes : ~Shows(v, x)
  BY <1>1, <1>2, <1>4, <1>5, <1>7
     DEF shut, SetupBoxes, Good, Sound, Nearly, Layers
<1>10. ~Installing(v) /\ v.config.language
  BY <1>1, <1>2, <1>8 DEF Good, Fits, Installing, Alike
<1>11. Layers(v) /\ GameFits(v)
  <2>1. /\ Late \subseteq SetupBoxes /\ "prerequisites" \in SetupBoxes /\ "game" \in SetupBoxes
    BY DEF Late, SetupBoxes
  <2> QED BY <1>9, <1>10, <2>1 DEF Layers, GameFits
<1>12. Viewed(v)
  <2>1. ~Shows(v, "repair")
    BY <1>1, <1>2, <1>9 DEF Good, Viewed, ViewOf
  <2> QED BY <1>1, <1>2, <1>8, <2>1 DEF Good, Viewed, ViewOf, Opened, Alike
<1>13. ~Shows(v, "prerequisites")
  BY <1>9 DEF SetupBoxes
<1>14. Good(v)
  BY <1>1, <1>7, <1>8, <1>11, <1>12, <1>13, AlikeGood DEF Good
<1> QED BY <1>2, <1>8, <1>14, KeepsIf DEF Alike

LEMMA StartRepairKeeps ==
  ASSUME IInv, StartRepair
  PROVE  Keeps
<1> DEFINE c == Close(ui, {"files"})
           w == [c EXCEPT !.repairing = TRUE, !.transfer = TRUE]
           b == Recompute(w)
           v == Open(b, "repair")
<1>1. /\ ui \in Uis /\ Good(ui) /\ Sound(ui) /\ Stacked(ui.open) /\ Countdown(ui) /\ Typed(ui)
      /\ Shows(ui, "files")
  BY InvTyped, TopShown DEF StartRepair
<1>2. ui' = v
  BY DEF StartRepair
<1>3. ui.config.language
  BY <1>1 DEF Sound, Nearly, Layers, Boxed
<1>4. /\ c \in Uis /\ Beside(ui, c) /\ Stacked(c.open) /\ Countdown(c)
      /\ \A x : Shows(c, x) <=> Shows(ui, x) /\ x # "files"
  BY <1>1, CloseIs, Closed, ClosedCountdown
<1> HIDE DEF c
<1>5. /\ w \in Uis /\ w.repairing = TRUE /\ w.transfer = TRUE /\ w.wine = ui.wine
      /\ w.config = ui.config /\ w.read = ui.read /\ w.disk = ui.disk /\ w.seen = ui.seen
      /\ w.probed = ui.probed /\ w.reviewed = ui.reviewed /\ w.signing = ui.signing
      /\ w.failed = ui.failed /\ w.stage = ui.stage /\ w.view = ui.view
      /\ w.message = ui.message /\ w.muted = ui.muted /\ w.damaged = ui.damaged
      /\ w.pending = ui.pending /\ w.scheduled = ui.scheduled /\ w.posted = ui.posted
      /\ w.box = c.box /\ w.open = c.open /\ w.changed = ui.changed /\ w.probe = ui.probe
  BY <1>4 DEF Beside, Uis
<1> HIDE DEF w
<1>6. /\ Old(w) <=> Old(ui)
      /\ Past(w) <=> Past(ui)
      /\ SigningIn(w) <=> SigningIn(ui)
      /\ ~Installing(w)
      /\ Lag(w) <=> Lag(ui)
      /\ Unseen(w) <=> Unseen(ui)
      /\ \A x : Shows(w, x) <=> Shows(ui, x) /\ x # "files"
  BY <1>4, <1>5 DEF Old, Past, Installing, SigningIn, Lag, Unseen, Shows
<1>7. Seen(w) /\ Honest(w) /\ Countdown(w) /\ Stacked(w.open)
  BY <1>1, <1>3, <1>4, <1>5, <1>6 DEF Sound, Nearly, Seen, Honest, Countdown
<1>8. Layers(w) /\ GameFits(w)
  <2>1. "files" \notin SetupBoxes /\ "files" \notin Late
    BY DEF SetupBoxes, Late
  <2> QED BY <1>1, <1>5, <1>6, <2>1 DEF Sound, Nearly, Layers, GameFits
<1>9. Unseen(w)
  BY <1>1, <1>6 DEF Good, Fits
<1>10. Sound(b) /\ Says(b) /\ Fits(b) /\ Turned(w, b)
  BY <1>3, <1>5, <1>7, <1>8, <1>9, RecomputeSound DEF Nearly
<1> HIDE DEF b
<1>11. b \in Uis /\ Aside(w, b) /\ b.repairing = TRUE /\ b.config.language
  BY <1>3, <1>5, <1>10, TurnedAside DEF Turned, Around
<1>12. /\ v \in Uis /\ Beside(b, v) /\ Stacked(v.open) /\ Countdown(v)
       /\ \A x : Shows(v, x) <=> Shows(b, x) \/ x = "repair"
  <2>1. "repair" \in Boxed
    BY DEF Boxed
  <2> QED BY <1>10, <1>11, <2>1, OpenIs, Raised DEF Sound, Nearly
<1> HIDE DEF v
<1>13. Alike(b, v)
  BY <1>12, BesideAlike
<1>14. /\ Old(v) <=> Old(b)
       /\ Past(v) <=> Past(b)
       /\ Installing(v) <=> Installing(b)
  BY <1>13 DEF Alike, Old, Past, Installing
<1>15. Layers(v) /\ GameFits(v)
  <2>1. "repair" \notin SetupBoxes /\ "repair" \notin Late
    BY DEF SetupBoxes, Late
  <2> QED BY <1>10, <1>11, <1>12, <1>13, <1>14, <2>1
          DEF Sound, Nearly, Layers, GameFits, Alike
<1>16. Viewed(v)
  BY <1>11, <1>12, <1>13 DEF Viewed, ViewOf, Alike
<1>17. Good(v)
  BY <1>10, <1>12, <1>13, <1>15, <1>16, AlikeGood
<1> QED BY <1>2, <1>5, <1>11, <1>13, <1>17, KeepsIf DEF Aside, Alike

(***************************************************************************)
(* A repair, a reset and a restart                                         *)
(***************************************************************************)
LEMMA EmptyIs ==
  /\ Empty \in Configs
  /\ ~Empty.language /\ ~Empty.prerequisites /\ ~Empty.runtime /\ ~Empty.rules
  /\ ~Empty.account
<1>1. /\ Empty["language"] = FALSE /\ Empty["prerequisites"] = FALSE
      /\ Empty["runtime"] = FALSE /\ Empty["rules"] = FALSE /\ Empty["account"] = FALSE
      /\ Empty = [f \in DOMAIN Empty |-> Empty[f]]
  BY DEF Empty
<1>2. \A f \in DOMAIN Empty : Empty[f] \in BOOLEAN
  BY <1>1, FieldNames
<1>3. Empty \in [DOMAIN Empty -> BOOLEAN]
  BY <1>1, <1>2
<1> QED BY <1>1, <1>3 DEF Configs

LEMMA RepairEndsKeeps ==
  ASSUME IInv, RepairEnds
  PROVE  Keeps
<1>1. PICK ok \in BOOLEAN :
        ui' = LET ended  == Recompute([ui EXCEPT !.repairing = FALSE, !.transfer = FALSE,
                                                 !.damaged = @ /\ ~ok])
                  closed == Close(ended, {"repair"})
              IN  StageChanged([closed EXCEPT !.view = "loading"])
  BY DEF RepairEnds
<1> DEFINE d == ui.damaged /\ ~ok
           w == [ui EXCEPT !.repairing = FALSE, !.transfer = FALSE, !.damaged = d]
           e == Recompute(w)
           c == Close(e, {"repair"})
           x == [c EXCEPT !.view = "loading"]
           v == ShowView(x)
<1>2. /\ ui \in Uis /\ Good(ui) /\ Sound(ui) /\ Typed(ui) /\ ui.repairing
      /\ ~ui.changed /\ ~ui.probe
  BY InvTyped DEF RepairEnds, Prompt
<1>3. /\ ui.config.language /\ ~Lag(ui) /\ ~Old(ui) /\ ui.probed
      /\ ui.seen.config.prerequisites = ui.config.prerequisites
  BY <1>2 DEF Sound, Nearly, Seen, Lag, Old
<1>4. ui' = StageChanged(x)
  BY <1>1, <1>2 DEF Uis
<1>5. d \in BOOLEAN /\ ui \in Uis
  BY <1>2
<1> HIDE DEF d
<1>6. /\ w \in Uis /\ w.repairing = FALSE /\ w.transfer = FALSE /\ w.wine = ui.wine
      /\ w.config = ui.config /\ w.read = ui.read /\ w.disk = ui.disk /\ w.seen = ui.seen
      /\ w.probed = ui.probed /\ w.reviewed = ui.reviewed /\ w.signing = ui.signing
      /\ w.failed = ui.failed /\ w.stage = ui.stage /\ w.view = ui.view
      /\ w.message = ui.message /\ w.muted = ui.muted
      /\ w.pending = ui.pending /\ w.scheduled = ui.scheduled /\ w.posted = ui.posted
      /\ w.box = ui.box /\ w.open = ui.open /\ w.changed = ui.changed /\ w.probe = ui.probe
  BY ZenonT(60), <1>5 DEF Uis
<1> HIDE DEF w
<1>7. /\ ~Old(w) /\ ~Lag(w) /\ ~Installing(w) /\ Unseen(w)
      /\ Past(w) <=> Past(ui)
      /\ SigningIn(w) <=> SigningIn(ui)
      /\ \A o : Shows(w, o) <=> Shows(ui, o)
  BY <1>2, <1>3, <1>6 DEF Old, Past, Installing, SigningIn, Lag, Unseen, Shows
<1>8. Seen(w) /\ Honest(w) /\ Countdown(w) /\ Stacked(w.open)
  BY <1>2, <1>3, <1>6, <1>7 DEF Sound, Nearly, Seen, Honest, Countdown
<1>9. Layers(w) /\ GameFits(w)
  BY <1>2, <1>6, <1>7, <1>3 DEF Sound, Nearly, Layers, GameFits
<1>10. /\ Sound(e) /\ Says(e) /\ Fits(e) /\ Turned(w, e) /\ e.stage = Compute(w)
  BY <1>3, <1>6, <1>7, <1>8, <1>9, RecomputeSound DEF Nearly
<1> HIDE DEF e
<1>11. e \in Uis /\ Around(w, e) /\ Stacked(e.open) /\ Countdown(e)
  BY <1>10 DEF Turned
<1>12. /\ c \in Uis /\ Beside(e, c) /\ Stacked(c.open) /\ Countdown(c)
       /\ \A o : Shows(c, o) <=> Shows(e, o) /\ o # "repair"
  BY <1>11, CloseIs, Closed, ClosedCountdown
<1> HIDE DEF c
<1>13. /\ x \in Uis /\ x.view = "loading" /\ Around(c, x) /\ x.open = c.open /\ x.box = c.box
       /\ x.stage = c.stage
  <2>1. "loading" \in Views
    BY DEF Views
  <2> QED BY <1>12, <2>1 DEF Uis, Around
<1> HIDE DEF x
<1>14. /\ Stacked(x.open) /\ Countdown(x) /\ \A o : Shows(x, o) <=> Shows(e, o) /\ o # "repair"
  BY <1>12, <1>13 DEF Countdown, Shows
<1>15. Around(e, x) /\ Around(w, x) /\ x.stage = e.stage
  BY <1>11, <1>12, <1>13 DEF Around, Beside
<1>16. ui' = v
  BY <1>4, <1>6, <1>15 DEF StageChanged, Around
<1>17. /\ v \in Uis /\ Stacked(v.open) /\ Countdown(v) /\ Around(x, v)
       /\ v.stage = x.stage
       /\ View(x.stage) = x.view => v = x
       /\ View(x.stage) # x.view => Follows(x, v)
  BY <1>13, <1>14, ShowViewIs
<1> HIDE DEF v
<1>18. Around(w, v) /\ v.stage = Compute(v) /\ v.stage = Compute(x)
  <2>1. Around(w, v)
    BY <1>15, <1>17 DEF Around
  <2> QED BY <1>10, <1>15, <1>17, <2>1, AroundCompute
<1>19. /\ Old(x) <=> Old(w)
       /\ Seen(x) /\ Seen(v) /\ Honest(v)
       /\ ~Old(v)
       /\ x.config = ui.config /\ v.config = ui.config
       /\ x.repairing = FALSE /\ v.repairing = FALSE
       /\ v.seen = ui.seen
  BY <1>6, <1>7, <1>8, <1>15, <1>18, AroundKeeps DEF Around
<1>20. Says(v)
  BY <1>3, <1>17, <1>18, <1>19, ComputeSays
<1>21. Layers(x) /\ GameFits(x)
  <2>1. "repair" \notin SetupBoxes /\ "repair" \notin Late
    BY DEF SetupBoxes, Late
  <2>2. /\ Old(x) <=> Old(e)
        /\ Past(x) <=> Past(e)
        /\ Installing(x) <=> Installing(e)
    BY <1>15, AroundKeeps
  <2> QED BY <1>10, <1>14, <1>15, <2>1, <2>2 DEF Sound, Nearly, Layers, GameFits, Around
<1>22. Layers(v) /\ GameFits(v)
  <2>1. Unmoved(x, v) \/ Follows(x, v)
    BY <1>17 DEF Unmoved
  <2>2. v.stage = "NeedsPrerequisites" => ~x.config.prerequisites
    BY <1>3, <1>19, <1>20 DEF Says
  <2> QED BY <1>3, <1>7, <1>13, <1>17, <1>18, <1>19, <1>20, <1>21, <2>1, <2>2, FollowedLayers
<1>23. Fits(v)
  BY <1>3, <1>17, <1>18, <1>19, <1>22, ComputeFits
<1>24. Viewed(v)
  <2>1. v.stage \in Stages /\ View(v.stage) # "repair"
    BY <1>17, ViewTypes DEF Uis, Views, SetupBoxes
  <2>2. v.view = View(v.stage) /\ ~Shows(v, "repair")
    BY <1>13, <1>14, <1>17, <2>1 DEF Follows
  <2>3. Brings(v)
    <3>1. CASE v.stage \in {"NeedsPrerequisites", "NeedsRules"}
      <4>1. View(v.stage) \notin {"loading", "error"} /\ v.stage \in Opening
        BY <3>1, ViewIs DEF Opening
      <4> QED BY <1>13, <1>17, <4>1 DEF Follows, Brings
    <3>2. CASE v.stage \notin {"NeedsPrerequisites", "NeedsRules"}
      BY <3>2 DEF Brings
    <3> QED BY <3>1, <3>2
  <2> QED BY <1>19, <2>2, <2>3, BringsOpened DEF Viewed, ViewOf
<1>25. Good(v)
  BY <1>17, <1>19, <1>20, <1>22, <1>23, <1>24 DEF Good, Sound, Nearly
<1>26. v.posted = ui.posted /\ v.scheduled = ui.scheduled
  BY <1>6, <1>18 DEF Around
<1> QED BY <1>16, <1>19, <1>25, <1>26, KeepsIf

\* Where the chooser offers the reset, the setup was gone through.
LEMMA ResetOffered ==
  ASSUME IInv, Offered("reset")
  PROVE  /\ ui.stage \in Signed /\ Past(ui) /\ ~Old(ui) /\ ~ui.repairing
         /\ ui.failed = "none" /\ ~ui.wine /\ ~ui.transfer
         /\ ui.seen.config.runtime /\ ui.seen.prefix = "ready" /\ ui.seen.game
         /\ \A o : ~Shows(ui, o)
<1>1. Good(ui) /\ Typed(ui) /\ Top(ui) = "none"
  BY InvTyped DEF Offered
<1>2. \A o : ~Shows(ui, o) /\ ~ui.repairing /\ ~Installing(ui)
  BY <1>1, NothingShown
<1>3. ui.stage \in Signed \cup {"Updating"}
  BY <1>1, ControlsAre DEF Offered, Typed
<1>4. ui.stage # "Updating"
  BY <1>1, <1>2 DEF Good, Says, Installing
<1>5. ui.stage \in Signed
  BY <1>3, <1>4
<1>6. ~Old(ui)
  BY <1>1, <1>2, <1>5 DEF Good, Fits, Signed
<1> QED BY <1>1, <1>2, <1>5, <1>6 DEF Good, Says, Signed, Old, Past

\* A review that is taken back is all that a stage past it may not have seen.
LEMMA ForgottenFits ==
  ASSUME NEW u \in Uis, NEW v \in Uis, v.probed = u.probed, v.failed = u.failed,
         v.seen = u.seen, v.wine = u.wine, v.transfer = u.transfer, v.signing = u.signing,
         ~v.reviewed, u.probed,
         u.stage = Compute(u) \/ (u.stage \in Signed /\ Compute(u) = "NeedsRules")
  PROVE  u.stage = Compute(v) \/ (u.stage \in Signed /\ Compute(v) = "NeedsRules")
<1>1. Typed(u) /\ Typed(v)
  BY UiTyped
<1>2. CASE Compute(u) \in {"NeedsRules"} \cup Signed
  <2>1. /\ u.failed = "none" /\ u.seen.config.prerequisites /\ u.seen.config.runtime
        /\ ~u.wine /\ ~u.transfer /\ u.seen.prefix \notin {"none", "incomplete"} /\ u.seen.game
    BY <1>1, <1>2, ComputeIs DEF Typed, Signed
  <2>2. CASE u.seen.config.rules
    <3>1. Compute(v) = Compute(u)
      BY ZenonT(60), <1>1, <2>1, <2>2, ComputeIs DEF Typed
    <3> QED BY <3>1
  <2>3. CASE ~u.seen.config.rules
    <3>1. Compute(v) = "NeedsRules"
      BY <1>1, <2>1, <2>3, ComputeIs DEF Typed
    <3> QED BY <1>2, <3>1 DEF Signed
  <2> QED BY <2>2, <2>3
<1>3. CASE Compute(u) \notin {"NeedsRules"} \cup Signed
  <2>1. Compute(v) = Compute(u)
    BY ZenonT(60), <1>1, <1>3, ComputeIs DEF Typed, Signed, Prefixes
  <2> QED BY <1>3, <2>1
<1> QED BY <1>2, <1>3

LEMMA FactoryResetKeeps ==
  ASSUME IInv, FactoryReset
  PROVE  Keeps
<1> DEFINE c == CancelLogin(ui)
           v == [c EXCEPT !.reviewed = FALSE, !.damaged = FALSE]
<1>1. /\ ui \in Uis /\ Good(ui) /\ Typed(ui) /\ Offered("reset")
  BY InvTyped DEF FactoryReset
<1>2. /\ ui.stage \in Signed /\ Past(ui) /\ ~Old(ui) /\ ~ui.repairing
      /\ ui.failed = "none" /\ ~ui.wine /\ ~ui.transfer
      /\ ui.seen.config.runtime /\ ui.seen.prefix = "ready" /\ ui.seen.game
      /\ \A o : ~Shows(ui, o)
  BY <1>1, ResetOffered
<1>3. /\ Good(c) /\ c.config = ui.config /\ Queued(c)
      /\ ~c.pending /\ ~c.scheduled /\ ~c.signing
      /\ c.disk = ui.disk /\ c.read = ui.read /\ c.wine = ui.wine /\ c.seen = ui.seen
      /\ c.transfer = ui.transfer /\ c.failed = ui.failed /\ c.probed = ui.probed
      /\ c.repairing = ui.repairing
      /\ c.stage = ui.stage \/ (c.stage = Compute(c) /\ (c.repairing \/ Brings(c)))
      /\ ui.open = c.open \/ \A o : Shows(c, o) => Shows(ui, o) \/ o = View(c.stage)
  BY <1>1, CancelLoginKeeps DEF IInv
<1> DEFINE w(d) == [v EXCEPT !.config = Empty, !.changed = TRUE, !.read = FALSE,
                             !.disk = d, !.view = "loading"]
           none == [prefix |-> "none", game |-> FALSE, rules |-> NoDocument]
<1>4. ui' \in {v, Probe(w(none)), Probe(w(ui.disk))}
  <2>1. [ForgetReview(CancelLogin(ui)) EXCEPT !.damaged = FALSE] = v
    BY DEF ForgetReview
  <2> HIDE DEF v
  <2>2. [w(none) EXCEPT !.disk = ui.disk] = w(ui.disk)
    OBVIOUS
  <2> QED BY <2>1, <2>2 DEF FactoryReset
<1> HIDE DEF c
<1>5. /\ v \in Uis /\ v.reviewed = FALSE /\ v.damaged = FALSE /\ v.open = c.open
      /\ v.box = c.box /\ v.stage = c.stage /\ v.view = c.view
      /\ v.config = c.config /\ v.read = c.read /\ v.disk = c.disk /\ v.seen = c.seen
      /\ v.probed = c.probed /\ v.signing = c.signing /\ v.wine = c.wine
      /\ v.transfer = c.transfer /\ v.failed = c.failed /\ v.message = c.message
      /\ v.muted = c.muted /\ v.repairing = c.repairing /\ v.pending = c.pending
      /\ v.scheduled = c.scheduled /\ v.posted = c.posted /\ v.changed = c.changed
      /\ v.probe = c.probe
  BY <1>3 DEF Good, Sound, Nearly, Uis
<1> HIDE DEF v
<1>6. \A o : Shows(v, o) => o = View(c.stage)
  BY <1>2, <1>3, <1>5 DEF Shows
<1>7. \A o : Shows(v, o) <=> Shows(c, o)
  BY <1>5 DEF Shows
<1>8. c.stage \in Stages \ {"NeedsLanguage"}
  BY <1>2, <1>3, ComputeStage DEF Good, Sound, Nearly, Uis, Signed, Stages
<1>9. CASE ui' = v
  <2>1. /\ Old(v) <=> Old(c)
        /\ Past(v) <=> Past(c)
        /\ Installing(v) <=> Installing(c)
        /\ SigningIn(v) <=> SigningIn(c)
        /\ Lag(v) <=> Lag(c)
        /\ Unseen(v) <=> Unseen(c)
    BY <1>5 DEF Old, Past, Installing, SigningIn, Lag, Unseen
  <2>2. Seen(v) /\ Honest(v) /\ Countdown(v) /\ Stacked(v.open)
    BY <1>3, <1>5, <1>7, <2>1 DEF Good, Sound, Nearly, Seen, Honest, Countdown
  <2>3. Layers(v) /\ GameFits(v)
    BY <1>3, <1>5, <1>7, <2>1 DEF Good, Sound, Nearly, Layers, GameFits
  <2>4. Says(v)
    BY <1>3, <1>5 DEF Good, Says
  <2>5. Lag(v) \/ v.stage = Compute(v) \/ (v.stage \in Signed /\ Compute(v) = "NeedsRules")
    <3>1. c \in Uis /\ c.probed
      BY <1>2, <1>3 DEF Good, Sound, Nearly, Past
    <3>2. Lag(c) \/ c.stage = Compute(c) \/ (c.stage \in Signed /\ Compute(c) = "NeedsRules")
      BY <1>3 DEF Good, Fits
    <3> QED BY <1>5, <2>1, <3>1, <3>2, ForgottenFits
  <2>6. Fits(v)
    BY <1>3, <1>5, <1>7, <2>1, <2>5 DEF Good, Fits
  <2>7. Opened(v)
    <3>1. CASE c.stage = ui.stage
      BY <1>2, <1>5, <3>1 DEF Opened, Signed
    <3>2. CASE Brings(c)
      <4>1. Brings(v)
        BY <1>5, <1>7, <3>2 DEF Brings
      <4> QED BY <4>1, BringsOpened
    <3> QED BY <1>2, <1>3, <3>1, <3>2
  <2>8. Viewed(v)
    BY <1>3, <1>5, <1>7, <2>7 DEF Good, Viewed, ViewOf
  <2>9. Good(v)
    BY <1>5, <2>2, <2>3, <2>4, <2>6, <2>8 DEF Good, Sound, Nearly
  <2>10. Queued(v)
    BY <1>3, <1>5 DEF Queued
  <2> QED BY <1>3, <1>5, <1>9, <2>9, <2>10 DEF Keeps, IInv
<1>10. ASSUME NEW d \in Disked, ui' = Probe(w(d)) PROVE Keeps
  <2> DEFINE x == w(d)
             y == Become(x, "NeedsLanguage")
  <2>1. Empty \in Configs /\ ~Empty.language /\ ~Empty.rules /\ ~Empty.account
        /\ ~Empty.prerequisites /\ ~Empty.runtime
    BY EmptyIs
  <2>2. "loading" \in Views
    BY DEF Views
  <2>3. /\ x \in Uis /\ x.config = Empty /\ x.changed = TRUE /\ x.read = FALSE /\ x.disk = d
        /\ x.view = "loading" /\ x.open = v.open /\ x.box = v.box /\ x.stage = v.stage
        /\ x.seen = v.seen /\ x.probed = v.probed /\ x.reviewed = v.reviewed
        /\ x.signing = v.signing /\ x.wine = v.wine /\ x.transfer = v.transfer
        /\ x.failed = v.failed /\ x.repairing = v.repairing /\ x.pending = v.pending
        /\ x.scheduled = v.scheduled /\ x.posted = v.posted
    BY <1>5, <2>1, <2>2 DEF Uis
  <2>4. ui' = y
    BY <1>10, <2>1, <2>3 DEF Probe
  <2> HIDE DEF x
  <2>5. Stacked(x.open) /\ Countdown(x) /\ \A o : Shows(x, o) <=> Shows(c, o)
    BY <1>3, <1>5, <2>3 DEF Good, Sound, Nearly, Countdown, Shows
  <2>6. Turned(x, y) /\ y.stage = "NeedsLanguage"
    BY <2>3, <2>5, BecomeIs DEF Stages
  <2> HIDE DEF y
  <2>7. /\ y \in Uis /\ Stacked(y.open) /\ Countdown(y) /\ Around(x, y)
    BY <2>6 DEF Turned
  <2>8. ~Stays(x, y) /\ Follows(x, y)
    <3>1. x.repairing = FALSE
      BY <1>2, <1>3, <1>5, <2>3 DEF Typed
    <3> QED BY <1>1, <1>3, <1>5, <1>8, <2>3, <2>6, <3>1, ViewIs DEF Stays, Turned
  <2>9. y.view = "language" /\ \A o : Shows(y, o) <=> o = "language"
    <3>1. /\ y.view = "language"
          /\ \A o : Shows(y, o) <=> \/ Shows(x, o) /\ o \notin SetupBoxes \ {"language"}
                                    \/ o = "language"
      BY <2>6, <2>8, ViewIs DEF Follows, Opening
    <3>2. \A o : Shows(x, o) => o \in SetupBoxes
      <4>1. \A o : Shows(x, o) => o \in Boxed /\ o = View(c.stage)
        BY <1>6, <1>7, <2>3, <2>5, StackTypes DEF Uis, Shows
      <4>2. View(c.stage) \in Views
        BY <1>8, ViewTypes
      <4> QED BY <4>1, <4>2 DEF Boxed, SetupBoxes, Views
    <3> QED BY <3>1, <3>2
  <2>10. /\ y.config = Empty /\ y.changed = TRUE /\ y.read = FALSE /\ y.disk = d
         /\ y.seen = ui.seen /\ y.probed = ui.probed /\ y.reviewed = FALSE
         /\ ~y.signing /\ ~y.pending /\ ~y.scheduled /\ ~y.wine /\ ~y.transfer
         /\ ~y.repairing /\ y.failed = "none" /\ y.posted = c.posted
    BY <1>2, <1>3, <1>5, <2>3, <2>7 DEF Around
  <2>11. Old(y) /\ Lag(y) /\ ~SigningIn(y) /\ ~Installing(y) /\ ~y.config.language
    BY <1>2, <2>1, <2>10 DEF Old, Past, Lag, SigningIn, Installing
  <2>12. Seen(y) /\ Honest(y)
    BY <1>2, <2>1, <2>10, <2>11 DEF Seen, Honest, Past
  <2>13. Layers(y) /\ GameFits(y)
    BY <2>9, <2>10, <2>11 DEF Layers, GameFits, Late, SetupBoxes
  <2>14. Says(y)
    BY <2>6 DEF Says, Signed
  <2>15. Fits(y)
    BY <1>2, <2>6, <2>9, <2>10, <2>11 DEF Fits, Unseen, Past
  <2>16. Viewed(y)
    BY <2>6, <2>9, <2>10, ViewIs DEF Viewed, ViewOf, Opened
  <2>17. Good(y) /\ Queued(y)
    BY <1>3, <2>7, <2>10, <2>12, <2>13, <2>14, <2>15, <2>16 DEF Good, Sound, Nearly, Queued
  <2> QED BY <2>1, <2>4, <2>10, <2>17 DEF Keeps, IInv
<1>11. none \in Disked /\ ui.disk \in Disked
  BY <1>1 DEF Disked, Prefixes, Uis
<1> HIDE DEF w, none
<1> QED BY <1>4, <1>9, <1>10, <1>11

\* The launcher as it starts.
LEMMA FreshGood ==
  ASSUME NEW config \in Configs, NEW disk \in Disked, NEW read \in BOOLEAN,
         config.rules => read, config.rules \/ config.runtime => config.prerequisites
  PROVE  LET v == Fresh(config, disk, read)
         IN  Good(v) /\ v.posted = <<>> /\ ~v.scheduled /\ v.config = config
<1> DEFINE v == Fresh(config, disk, read)
           first == IF config.language THEN "Probing" ELSE "NeedsLanguage"
           boxes == [o \in IF config.language THEN {} ELSE {"language"} |-> {}]
           none  == [config |-> Empty, prefix |-> "none", game |-> FALSE]
<1>1. config.language \in BOOLEAN /\ Cooldown \in Nat
  BY FieldNames, CooldownAssumption DEF Configs
<1>2. first \in Stages
  BY DEF Stages
<1>3. /\ boxes \in Stacks /\ Stacked(boxes)
      /\ \A o : o \in DOMAIN boxes <=> o = "language" /\ ~config.language
  <2>1. boxes \in [IF config.language THEN {} ELSE {"language"} -> SUBSET Boxed]
        /\ (IF config.language THEN {} ELSE {"language"}) \in SUBSET Boxed
    BY DEF Boxed, SetupBoxes
  <2>2. boxes \in Stacks
    BY <2>1, StackTypes
  <2>3. Stacked(boxes)
    BY DEF Stacked
  <2> QED BY <2>2, <2>3
<1>4. none \in Seens /\ none.config = Empty
  BY EmptyIs DEF Seens, Prefixes
<1>5. /\ NewBox \in Boxes /\ NewBox.scrolled = FALSE
  BY <1>1 DEF NewBox, Boxes
<1>6. <<>> \in Seq(Events) /\ "loading" \in Views
  BY EventsAre DEF Views
<1>7. v = [config |-> config, disk |-> disk, read |-> read, seen |-> none, probed |-> FALSE,
           reviewed |-> FALSE, signing |-> FALSE, wine |-> FALSE, transfer |-> FALSE,
           failed |-> "none", stage |-> first, view |-> "loading", open |-> boxes,
           message |-> FALSE, muted |-> FALSE, damaged |-> FALSE, repairing |-> FALSE,
           box |-> NewBox, pending |-> FALSE, scheduled |-> FALSE,
           posted |-> <<>>, changed |-> FALSE, probe |-> config.language]
  BY DEF Fresh
<1> HIDE DEF boxes, none, first, v
<1>8. /\ v \in Uis /\ v.config = config /\ v.read = read /\ v.disk = disk /\ v.seen = none
      /\ v.probed = FALSE /\ v.reviewed = FALSE /\ v.signing = FALSE /\ v.wine = FALSE
      /\ v.transfer = FALSE /\ v.failed = "none" /\ v.stage = first /\ v.view = "loading"
      /\ v.open = boxes /\ v.damaged = FALSE /\ v.repairing = FALSE /\ v.box = NewBox
      /\ v.pending = FALSE /\ v.scheduled = FALSE /\ v.posted = <<>>
      /\ v.probe = config.language
  BY <1>1, <1>2, <1>3, <1>4, <1>5, <1>6, <1>7 DEF Uis
<1>9. /\ ~Old(v) /\ Lag(v) /\ ~SigningIn(v) /\ ~Installing(v)
      /\ \A o : Shows(v, o) <=> o = "language" /\ ~config.language
  BY <1>1, <1>3, <1>4, <1>8, EmptyIs DEF Old, Lag, SigningIn, Installing, Shows
<1>10. Seen(v) /\ Honest(v)
  BY <1>4, <1>8, <1>9, EmptyIs DEF Seen, Honest
<1>11. Countdown(v) /\ Stacked(v.open)
  BY <1>3, <1>5, <1>8, <1>9 DEF Countdown
<1>12. Layers(v) /\ GameFits(v)
  BY <1>8, <1>9 DEF Layers, GameFits, Late
<1>13. Says(v) /\ Fits(v) /\ Viewed(v)
  <2>1. first = "Probing" => config.language
    BY DEF first
  <2>2. first \in {"Probing", "NeedsLanguage"}
    BY DEF first
  <2> QED BY <1>8, <1>9, <2>1, <2>2, ViewIs
          DEF Says, Signed, Fits, Unseen, Viewed, ViewOf, Opened
<1> QED BY <1>8, <1>10, <1>11, <1>12, <1>13 DEF Good, Sound, Nearly, v

LEMMA StartedGood ==
  ASSUME NEW u, Good(u), u.posted = <<>>, ~u.scheduled, NEW v \in Started(u)
  PROVE  Good(v) /\ Queued(v) /\ v.config = u.config
<1>1. CASE v = u
  BY <1>1 DEF Queued
<1>2. CASE v = [u EXCEPT !.posted = <<Callback>>]
  <2> DEFINE q == <<Callback>>
  <2>1. q \in Seq(Events) /\ DOMAIN q = {1}
    BY EventsAre
  <2> HIDE DEF q
  <2>2. u \in Uis
    BY DEF Good, Sound, Nearly
  <2>3. v = [u EXCEPT !.posted = q]
    BY <1>2 DEF q
  <2>4. v \in Uis /\ v.posted = q /\ ~v.scheduled
    BY <2>1, <2>2, <2>3 DEF Uis
  <2>5. Requeues(u, v)
    BY <2>1, <2>2, <2>3 DEF Requeues, Around, SigningIn, Uis, Good, Sound, Nearly, Seen
  <2> QED BY <2>1, <2>4, <2>5, RequeuedGood DEF Queued
<1> QED BY <1>1, <1>2 DEF Started

LEMMA InitIsGood ==
  ASSUME Init
  PROVE  IInv
<1>1. PICK disk \in Disks : ui \in Started(Fresh(Empty, disk, FALSE))
  BY DEF Init
<1>2. disk \in Disked
  <2>1. /\ [prefix |-> "none", game |-> FALSE, rules |-> NoDocument] \in Disked
        /\ [prefix |-> "ready", game |-> TRUE, rules |-> NoDocument] \in Disked
    BY DEF Disked, Prefixes
  <2> QED BY <2>1 DEF Disks
<1>3. LET v == Fresh(Empty, disk, FALSE) IN Good(v) /\ v.posted = <<>> /\ ~v.scheduled
  BY <1>2, EmptyIs, FreshGood
<1> QED BY <1>1, <1>3, StartedGood DEF IInv

LEMMA RestartKeeps ==
  ASSUME IInv, Restart
  PROVE  Keeps
<1>1. PICK keep \in BOOLEAN :
        ui' \in Started(Fresh([ui.config EXCEPT !.account = @ /\ keep], ui.disk,
                              ui.read /\ ui.config.rules))
  BY DEF Restart
<1> DEFINE a == ui.config.account /\ keep
           c == [ui.config EXCEPT !.account = a]
           r == ui.read /\ ui.config.rules
           v == Fresh(c, ui.disk, r)
<1>2. ui \in Uis /\ ui.config \in Configs /\ ui.disk \in Disked /\ Typed(ui) /\ Sound(ui)
  BY InvTyped DEF Uis
<1>3. a \in BOOLEAN /\ r \in BOOLEAN /\ (a => ui.config.account)
  OBVIOUS
<1>4. ui' \in Started(v)
  BY <1>1
<1>5. ui.config.rules => r
  BY <1>2 DEF Sound, Nearly, Honest
<1> HIDE DEF a, r
<1>6. /\ c \in Configs /\ c.rules = ui.config.rules /\ c.runtime = ui.config.runtime
      /\ c.prerequisites = ui.config.prerequisites /\ c.account = a
  BY <1>2, <1>3, FieldNames DEF Configs
<1> HIDE DEF c
<1>7. c.rules \/ c.runtime => c.prerequisites
  BY <1>2, <1>6 DEF Sound, Nearly, Seen
<1>8. Good(v) /\ v.posted = <<>> /\ ~v.scheduled /\ v.config = c
  BY <1>2, <1>3, <1>5, <1>6, <1>7, FreshGood
<1> HIDE DEF v
<1>9. Good(ui') /\ Queued(ui') /\ ui'.config = c
  BY <1>4, <1>8, StartedGood
<1> QED BY <1>3, <1>6, <1>9 DEF Keeps, IInv

(***************************************************************************)
(* The theorems                                                            *)
(***************************************************************************)
LEMMA StepKeeps ==
  ASSUME IInv, Next
  PROVE  Keeps \/ (Deliver /\ IInv')
<1>1. CASE \/ AcceptLanguage \/ UseRecommended \/ ChooseOwn \/ ConfirmRuntime \/ CloseBox
           \/ SetUpPrefix \/ SetupEnds \/ InstallGame \/ TransferEnds \/ ChooserDownload
           \/ CloseMessage
  BY <1>1, AcceptLanguageKeeps, UseRecommendedKeeps, ChooseOwnKeeps, ConfirmRuntimeKeeps,
     CloseBoxKeeps, SetUpPrefixKeeps, SetupEndsKeeps, InstallGameKeeps, TransferEndsKeeps,
     ChooserDownloadKeeps, CloseMessageKeeps
<1>2. CASE RulesTick \/ RulesScroll \/ RulesRetry \/ RulesAnswered \/ RulesAgree \/ Reshow
  BY <1>2, RulesTickKeeps, RulesScrollKeeps, RulesRetryKeeps, RulesAnsweredKeeps,
     RulesAgreeKeeps, ReshowKeeps
<1>3. CASE OpenLogin \/ TryAgain \/ LoginTimesOut \/ SignOut \/ Enter
  BY <1>3, OpenLoginKeeps, TryAgainKeeps, LoginTimesOutKeeps, SignOutKeeps, EnterKeeps
<1>4. CASE UrlOpened \/ HandedOn
  BY <1>4, ActivateKeeps DEF UrlOpened, HandedOn
<1>5. CASE Deliver
  BY <1>5, DeliverKeeps
<1>6. CASE \/ ConfigChanged \/ ProbeTimer \/ FilesReported \/ StartRepair \/ RepairEnds
           \/ FactoryReset \/ Restart
  BY <1>6, ConfigChangedKeeps, ProbeTimerKeeps, FilesReportedKeeps, StartRepairKeeps,
     RepairEndsKeeps, FactoryResetKeeps, RestartKeeps
<1> QED BY <1>1, <1>2, <1>3, <1>4, <1>5, <1>6 DEF Next

(* Whatever the order of the user's clicks, the answers, the reports and   *)
(* the URLs: the stage fits what was seen last, the boxes fit the stage,   *)
(* what is under way was begun past the prerequisites, and a completion of *)
(* the sign-in that counts is the first of what is posted (MainWindow,     *)
(* InstallState, AuthHandler).                                             *)
THEOREM OnboardingInvariant == Spec => []IInv
<1>1. Init => IInv
  BY InitIsGood
<1>2. IInv /\ [Next]_vars => IInv'
  <2>1. IInv /\ Next => IInv'
    BY StepKeeps DEF Keeps
  <2>2. IInv /\ UNCHANGED vars => IInv'
    BY DEF vars, IInv
  <2> QED BY <2>1, <2>2
<1> QED BY <1>1, <1>2, PTL DEF Spec

(* The rules count as reviewed or accepted only when the document was on   *)
(* the screen for its countdown, or to its end, since the last reset, for  *)
(* a document with or without a scroll bar and any countdown               *)
(* (RulesAgreement, InstallState).                                         *)
THEOREM RulesAreReadFirst == Spec => []RulesReadFirst
<1>1. IInv => RulesReadFirst
  <2>1. SUFFICES ASSUME IInv PROVE RulesReadFirst
    OBVIOUS
  <2>2. ui \in Uis /\ Sound(ui)
    BY <2>1, InvTyped
  <2>3. /\ ui.config \in Configs /\ ui.seen \in Seens /\ ui.stage \in Stages
        /\ ui.box \in Boxes /\ ui.open \in Stacks
    BY <2>2 DEF Uis
  <2>4. ui.seen.config \in Configs /\ DOMAIN ui.open \subseteq Boxed
    BY <2>3, StackTypes DEF Seens
  <2> QED BY <2>2, <2>3, <2>4 DEF RulesReadFirst, TypeOK, Configs, Sound, Nearly, Honest
<1> QED BY <1>1, OnboardingInvariant, PTL

LEMMA QuietLeadsOn ==
  ASSUME IInv, Quiet
  PROVE  LeadsOn \/ KnownDeadEnds
<1>1. /\ ui \in Uis /\ Good(ui) /\ Sound(ui) /\ Stacked(ui.open) /\ Typed(ui)
      /\ ui.stage \in Stages
  BY InvTyped DEF Typed
<1>2. ~ui.changed /\ ~ui.probe /\ ~ui.box.request /\ ~ui.wine /\ ~ui.transfer
  BY DEF Quiet
<1>3. ~ui.repairing
  BY <1>1, <1>2 DEF Sound, Nearly, Seen
<1>4. Top(ui) # "none" => Shows(ui, Top(ui)) /\ Top(ui) \in Boxed
  BY TopShown
<1>5. CASE ~ui.config.language
  <2>1. Top(ui) = "language"
    BY <1>1, <1>4, <1>5, TopIs DEF Sound, Nearly, Layers
  <2>2. ui.stage = "NeedsLanguage"
    BY <1>1, <1>5 DEF Good, Says
  <2> QED BY <2>1, <2>2, ViewIs DEF LeadsOn
<1>6. CASE ui.config.language
  <2>1. /\ ~Lag(ui) /\ ~Old(ui) /\ ui.probed
        /\ ui.seen.config.prerequisites = ui.config.prerequisites
    BY <1>1, <1>2, <1>6 DEF Sound, Nearly, Seen, Lag, Old
  <2>2. CASE Top(ui) \in Closable
    BY <2>2 DEF LeadsOn
  <2>3. CASE Top(ui) = "language"
    BY <1>1, <1>4, <1>6, <2>3 DEF Sound, Nearly, Layers
  <2>4. CASE Top(ui) = "prerequisites"
    <3>1. ui.stage = "NeedsPrerequisites"
      BY <1>1, <1>4, <2>4 DEF Good, Fits
    <3> QED BY <2>4, <3>1, ViewIs DEF LeadsOn
  <2>5. CASE Top(ui) = "rules"
    <3>1. CASE ~ui.box.ready
      BY <1>2, <2>5, <3>1 DEF LeadsOn, CanRetry
    <3>2. CASE ui.box.ready
      BY <2>5, <3>2 DEF LeadsOn, KnownDeadEnds, Frozen
    <3> QED BY <3>1, <3>2
  <2>6. CASE Top(ui) = "none"
    <3>1. \A o : ~Shows(ui, o)
      BY <2>6, NothingShown
    <3>2. CASE ui.stage \in Signed \cup Actionable
      BY <1>1, <2>6, <3>2, ControlsAre DEF LeadsOn
    <3>3. CASE ui.stage \notin Signed \cup Actionable
      <4>1. ui.stage = Compute(ui)
        BY <1>1, <2>1, <3>3 DEF Good, Fits
      <4>2. CASE ui.failed # "none"
        <5>1. ui.stage = "Failed"
          BY <2>1, <4>1, <4>2, ComputeIs
        <5>2. ui.message \/ ui.muted
          BY <1>1, <4>2 DEF Sound, Nearly, Seen
        <5> QED BY <5>1, <5>2 DEF LeadsOn, KnownDeadEnds
      <4>3. CASE ui.failed = "none"
        <5>1. ui.stage \in {"NeedsPrerequisites", "NeedsRules"}
          BY <1>1, <1>2, <2>1, <3>3, <4>1, <4>3, ComputeIs
             DEF Typed, Prefixes, Signed, Actionable
        <5>2. ui.damaged
          BY <1>1, <1>3, <2>1, <3>1, <5>1 DEF Good, Viewed, Opened, Says
        <5> QED BY <5>1, <5>2 DEF KnownDeadEnds
      <4> QED BY <4>2, <4>3
    <3> QED BY <3>2, <3>3
  <2> QED BY <1>4, <2>2, <2>3, <2>4, <2>5, <2>6 DEF Boxed, SetupBoxes, Closable
<1> QED BY <1>5, <1>6

(* Whenever nothing is under way the user has a control that leads on, but *)
(* for the three dead ends that are named: after any number of reports,    *)
(* errors, repairs, resets and restarts (MainWindow, InstallState,         *)
(* AliciaChooser).                                                         *)
THEOREM SetupLeadsOn == Spec => []WayForward
<1>1. IInv => WayForward
  BY QuietLeadsOn DEF WayForward
<1> QED BY <1>1, OnboardingInvariant, PTL

(* An account is stored only when a completion of the attempt under way    *)
(* was posted, however many URLs are posted between the attempts that are  *)
(* cancelled, fail or time out (AuthHandler).                              *)
THEOREM AccountIsThisAttempts == Spec => SignedInByThisAttempt
<1> DEFINE A == ~ui.config.account /\ ui'.config.account
                  => \E i \in DOMAIN ui.posted : ui.posted[i] = Due
<1>1. IInv /\ [Next]_vars => [A]_vars
  <2>1. CASE ~Next
    BY <2>1
  <2>2. ASSUME IInv, Next PROVE A
    <3>1. CASE Keeps
      BY <3>1 DEF Keeps
    <3>2. CASE Deliver
      <4>1. ui'.config.account => ui.config.account \/ ui.posted[1] = Due
        BY <2>2, <3>2, DeliverKeeps
      <4>2. 1 \in DOMAIN ui.posted
        <5>1. ui.posted \in Seq(Events) /\ ui.posted # <<>>
          BY <2>2, <3>2, InvTyped DEF Uis, Deliver
        <5> QED BY <5>1
      <4> QED BY <4>1, <4>2
    <3> QED BY <2>2, <3>1, <3>2, StepKeeps
  <2> QED BY <2>1, <2>2
<1> QED BY <1>1, OnboardingInvariant, PTL DEF Spec, SignedInByThisAttempt
=============================================================================
