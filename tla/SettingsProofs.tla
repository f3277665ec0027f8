--------------------------- MODULE SettingsProofs ---------------------------
(***************************************************************************)
(* For any accounts, and however many faults and outside changes: nobody   *)
(* but the user who signed in last is ever signed in, a session ends only  *)
(* when the user ends it, and a start finds the settings that were saved.  *)
(*                                                                         *)
(* An operation is a function from a world to a set of worlds.  So the     *)
(* inductive invariant is a predicate on worlds, Good, and there is one    *)
(* lemma per operation: from a good world it leads to good ones.  In the   *)
(* midst of an operation the credentials on the disk may be another's;     *)
(* a world that is good but for that is fair.                              *)
(***************************************************************************)
EXTENDS Settings, TLAPS

Worlds == [disk : Disks, app : Apps, past : Pasts]

Honest(x) == x.app.account \in {None, x.past.last}

\* What is stored is the user's, or history knows that it may not be.
Owned(x) == x.past.stale \/ ~Leftover(x)

\* The settings in the files are those that were written last, or newer ones.
Saved(x) ==
  /\ x.disk.primary \in Documents => x.disk.primary \in x.past.recent \cup {x.past.durable}
  /\ x.disk.backup # Gone => x.disk.backup \in x.past.recent \cup {x.past.durable}
  /\ x.past.durable # Gone => x.disk.backup # Gone

Fair(x) == x \in Worlds /\ Honest(x) /\ Saved(x)
Good(x) == Fair(x) /\ Owned(x)

IInv == Good(World)

(***************************************************************************)
(* What an operation leaves alone                                          *)
(***************************************************************************)
SameFiles(x, y) ==
  /\ y.disk.primary = x.disk.primary /\ y.disk.backup = x.disk.backup
  /\ y.past.durable = x.past.durable /\ y.past.recent = x.past.recent

SameSession(x, y) ==
  /\ y.app.up = x.app.up /\ y.app.account = x.app.account /\ y.app.values = x.app.values
  /\ y.app.available = x.app.available /\ y.past.last = x.past.last

SameStores(x, y) == y.disk.env = x.disk.env /\ y.disk.store = x.disk.store

SameHistory(x, y) == y.past.stale = x.past.stale /\ y.past.faults = x.past.faults

Alike(x, y) == SameFiles(x, y) /\ SameSession(x, y) /\ SameStores(x, y) /\ SameHistory(x, y)

\* The launcher has died, or the session and the settings are what they were.
Kept(x, y) ==
  y.app.up => /\ y.app.account = x.app.account /\ y.past.last = x.past.last
              /\ y.app.values = x.app.values

LEMMA DocumentFacts ==
  /\ Defaults \in Documents /\ Gone \notin Documents /\ Bad \notin Documents
  /\ \A d \in Documents : Normal(d) \in Documents
  BY DEF Defaults, Documents, Choices, Gone, Bad, Normal

LEMMA WorldFields ==
  ASSUME NEW x \in Worlds
  PROVE  /\ x = [disk |-> x.disk, app |-> x.app, past |-> x.past]
         /\ x.disk \in Disks /\ x.app \in Apps /\ x.past \in Pasts
  BY DEF Worlds

LEMMA FilesSaved ==
  ASSUME NEW x, NEW y, SameFiles(x, y), Saved(x)
  PROVE  Saved(y)
  BY DEF SameFiles, Saved

LEMMA AlikeIsGood ==
  ASSUME NEW x, NEW y \in Worlds, Alike(x, y), Good(x)
  PROVE  Good(y) /\ Kept(x, y)
  BY DEF Alike, SameFiles, SameSession, SameStores, SameHistory, Good, Fair, Honest, Owned,
     Saved, Leftover, Kept

(***************************************************************************)
(* The smallest steps                                                      *)
(***************************************************************************)
LEMMA FaultyFacts ==
  ASSUME NEW x \in Worlds, CanFault(x)
  PROVE  /\ Faulty(x) \in Worlds /\ Faulty(x).disk = x.disk /\ Faulty(x).app = x.app
         /\ Faulty(x).past = [x.past EXCEPT !.faults = @ + 1]
         /\ Faulty(x).past.faults = x.past.faults + 1
         /\ SameFiles(x, Faulty(x)) /\ SameSession(x, Faulty(x)) /\ SameStores(x, Faulty(x))
         /\ Faulty(x).past.stale = x.past.stale
<1>1. x.past \in Pasts /\ x.past.faults + 1 \in 0 .. MaxFaults
  BY FaultsAssumption DEF Worlds, Pasts, CanFault
<1>2. [x.past EXCEPT !.faults = @ + 1] \in Pasts
  BY <1>1 DEF Pasts
<1>3. Faulty(x) = [x EXCEPT !.past = [x.past EXCEPT !.faults = @ + 1]]
  BY DEF Faulty, Worlds
<1>4. /\ Faulty(x) \in Worlds /\ Faulty(x).disk = x.disk /\ Faulty(x).app = x.app
      /\ Faulty(x).past = [x.past EXCEPT !.faults = @ + 1]
  BY <1>2, <1>3 DEF Worlds
<1>5. LET p == [x.past EXCEPT !.faults = @ + 1]
      IN  /\ p.faults = x.past.faults + 1 /\ p.durable = x.past.durable
          /\ p.recent = x.past.recent /\ p.last = x.past.last /\ p.stale = x.past.stale
  BY <1>1 DEF Pasts
<1> QED
  BY <1>4, <1>5 DEF SameFiles, SameSession, SameStores

LEMMA WatchingFacts ==
  ASSUME NEW x \in Worlds
  PROVE  Watching(x) \in Worlds /\ Alike(x, Watching(x))
<1> DEFINE w == x.app.watched \/ DirectoryExists(x)
<1>1. w \in BOOLEAN
  BY DEF Worlds, Apps, DirectoryExists
<1>2. Watching(x) = [x EXCEPT !.app = [x.app EXCEPT !.watched = w]]
  BY DEF Watching, Worlds
<1> HIDE DEF w
<1>3. /\ [x.app EXCEPT !.watched = w] \in Apps
      /\ LET a == [x.app EXCEPT !.watched = w]
         IN  a.up = x.app.up /\ a.account = x.app.account /\ a.values = x.app.values
             /\ a.available = x.app.available
  BY <1>1 DEF Worlds, Apps
<1>4. Watching(x) \in Worlds /\ Watching(x).disk = x.disk /\ Watching(x).past = x.past
      /\ Watching(x).app = [x.app EXCEPT !.watched = w]
  BY <1>2, <1>3 DEF Worlds
<1> QED
  BY <1>3, <1>4 DEF Alike, SameFiles, SameSession, SameStores, SameHistory

LEMMA RememberedFacts ==
  ASSUME NEW x \in Worlds
  PROVE  Remembered(x) \in Worlds /\ Alike(x, Remembered(x))
<1> DEFINE b == x.past.absorbed \/ x.disk.primary # x.app.seen
<1>1. b \in BOOLEAN /\ x.disk.primary \in Documents \cup {Gone, Bad}
  BY DEF Worlds, Pasts, Disks
<1>2. Remembered(x) = [x EXCEPT !.app = [x.app EXCEPT !.seen = x.disk.primary],
                                !.past = [x.past EXCEPT !.absorbed = b]]
  BY DEF Remembered, Worlds
<1> HIDE DEF b
<1>3. /\ [x.app EXCEPT !.seen = x.disk.primary] \in Apps
      /\ LET a == [x.app EXCEPT !.seen = x.disk.primary]
         IN  a.up = x.app.up /\ a.account = x.app.account /\ a.values = x.app.values
             /\ a.available = x.app.available
  BY <1>1 DEF Worlds, Apps
<1>4. /\ [x.past EXCEPT !.absorbed = b] \in Pasts
      /\ LET p == [x.past EXCEPT !.absorbed = b]
         IN  /\ p.faults = x.past.faults /\ p.durable = x.past.durable
             /\ p.recent = x.past.recent /\ p.last = x.past.last /\ p.stale = x.past.stale
  BY <1>1 DEF Worlds, Pasts
<1>5. /\ Remembered(x) \in Worlds /\ Remembered(x).disk = x.disk
      /\ Remembered(x).app = [x.app EXCEPT !.seen = x.disk.primary]
      /\ Remembered(x).past = [x.past EXCEPT !.absorbed = b]
  BY <1>2, <1>3, <1>4 DEF Worlds
<1> QED
  BY <1>3, <1>4, <1>5 DEF Alike, SameFiles, SameSession, SameStores, SameHistory

LEMMA LeftoverFacts ==
  ASSUME NEW x \in Worlds
  PROVE  /\ Leftover(x) \in BOOLEAN
         /\ Leftover(x) <=> \E a \in {x.disk.env, x.disk.store} : a \notin {None, x.past.last}
  BY DEF Leftover

LEMMA StaleFacts ==
  ASSUME NEW x \in Worlds, NEW b \in BOOLEAN
  PROVE  LET y == [x EXCEPT !.past.stale = b]
         IN  /\ y \in Worlds /\ y.past.stale = b /\ y.past.faults = x.past.faults
             /\ y.disk = x.disk /\ y.app = x.app
             /\ SameFiles(x, y) /\ SameSession(x, y) /\ SameStores(x, y)
<1>1. LET p == [x.past EXCEPT !.stale = b]
      IN  /\ p \in Pasts /\ p.faults = x.past.faults /\ p.durable = x.past.durable
          /\ p.recent = x.past.recent /\ p.last = x.past.last /\ p.stale = b
  BY DEF Worlds, Pasts
<1>2. [x EXCEPT !.past.stale = b] = [x EXCEPT !.past = [x.past EXCEPT !.stale = b]]
  BY DEF Worlds
<1>3. LET y == [x EXCEPT !.past.stale = b]
      IN  y \in Worlds /\ y.past = [x.past EXCEPT !.stale = b] /\ y.disk = x.disk /\ y.app = x.app
  BY <1>1, <1>2 DEF Worlds
<1> QED
  BY <1>1, <1>3 DEF SameFiles, SameSession, SameStores

LEMMA DeadFacts ==
  ASSUME NEW x \in Worlds
  PROVE  /\ Dead(x) \in Worlds /\ Dead(x).disk = x.disk /\ Dead(x).past = x.past
         /\ ~Dead(x).app.up /\ Dead(x).app.account = None
<1> DEFINE a == [x.app EXCEPT !.up = FALSE, !.values = Defaults, !.account = None, !.seen = Gone,
                              !.failed = FALSE, !.unreadable = 0, !.available = TRUE,
                              !.watched = FALSE, !.event = FALSE, !.timer = FALSE]
<1>1. a \in Apps /\ a.up = FALSE /\ a.account = None
  <2>1. x.app \in Apps /\ Defaults \in Documents
    BY DocumentFacts DEF Worlds
  <2>2. 0 \in 0 .. 2
    OBVIOUS
  <2> QED
    BY <2>1, <2>2 DEF Apps
<1>2. Dead(x) = [x EXCEPT !.app = a]
  BY DEF Dead, Worlds
<1> QED
  BY <1>1, <1>2 DEF Worlds

\* Whenever the launcher dies, it leaves what history knows of.
LEMMA TornIsGood ==
  ASSUME NEW x \in Worlds, CanFault(x), Saved(x)
  PROVE  Good(Torn(x)) /\ ~Torn(x).app.up
<1> DEFINE f == Faulty(x)
           d == Dead(f)
           b == Leftover(x)
           y == [d EXCEPT !.past.stale = b]
<1>1. f \in Worlds /\ f.disk = x.disk /\ SameFiles(x, f) /\ f.past.last = x.past.last
  BY FaultyFacts DEF SameSession
<1>2. d \in Worlds /\ d.disk = x.disk /\ d.past = f.past /\ ~d.app.up /\ d.app.account = None
  BY <1>1, DeadFacts
<1>3. b \in BOOLEAN
  BY LeftoverFacts
<1>4. Torn(x) = y
  BY DEF Torn
<1> HIDE DEF f, d, b
<1>5. y \in Worlds /\ y.past.stale = b /\ y.disk = d.disk /\ y.app = d.app
      /\ SameFiles(d, y) /\ SameSession(d, y)
  BY <1>2, <1>3, StaleFacts
<1>6. SameFiles(x, y) /\ SameStores(x, y) /\ y.past.last = x.past.last
  BY <1>1, <1>2, <1>5 DEF SameFiles, SameStores, SameSession
<1> HIDE DEF y
<1>7. Leftover(y) = b
  BY <1>6 DEF b, SameStores, Leftover
<1>8. Honest(y) /\ Owned(y) /\ ~y.app.up
  <2>1. y.past.stale = Leftover(y)
    BY <1>5, <1>7
  <2> QED
    BY <1>2, <1>5, <2>1 DEF Honest, Owned
<1> QED
  BY <1>4, <1>5, <1>6, <1>8, FilesSaved DEF Good, Fair

(***************************************************************************)
(* The credentials                                                         *)
(***************************************************************************)
LEMMA AnsweredFacts ==
  ASSUME NEW x \in Worlds, NEW ok \in StoreAnswers(x)
  PROVE  LET y == Answered(x, ok)
         IN  /\ y \in Worlds /\ y.disk = x.disk /\ y.app = x.app
             /\ SameFiles(x, y) /\ SameSession(x, y) /\ SameStores(x, y)
             /\ y.past.stale = x.past.stale
             /\ IF ok \/ ~x.app.available THEN y = x ELSE y.past.faults = x.past.faults + 1
<1>1. CASE ok \/ ~x.app.available
  BY <1>1 DEF Answered, SameFiles, SameSession, SameStores
<1>2. CASE ~(ok \/ ~x.app.available)
  <2>1. CanFault(x) /\ Answered(x, ok) = Faulty(x)
    BY <1>2 DEF StoreAnswers, Answered
  <2> QED
    BY <1>2, <2>1, FaultyFacts
<1> QED
  BY <1>1, <1>2

LEMMA SetStore ==
  ASSUME NEW x \in Worlds, NEW a \in Accounts \cup {None}
  PROVE  LET y == [x EXCEPT !.disk.store = a]
         IN  /\ y \in Worlds /\ y.app = x.app /\ y.past = x.past /\ y.disk.store = a
             /\ y.disk.env = x.disk.env /\ SameFiles(x, y) /\ SameSession(x, y)
             /\ SameHistory(x, y)
<1>1. LET d == [x.disk EXCEPT !.store = a]
      IN  /\ d \in Disks /\ d.store = a /\ d.env = x.disk.env /\ d.primary = x.disk.primary
          /\ d.backup = x.disk.backup
  BY DEF Worlds, Disks
<1>2. [x EXCEPT !.disk.store = a] = [x EXCEPT !.disk = [x.disk EXCEPT !.store = a]]
  BY DEF Worlds
<1>3. LET y == [x EXCEPT !.disk.store = a]
      IN  y \in Worlds /\ y.disk = [x.disk EXCEPT !.store = a] /\ y.app = x.app /\ y.past = x.past
  BY <1>1, <1>2 DEF Worlds
<1> QED
  BY <1>1, <1>3 DEF SameFiles, SameSession, SameHistory

LEMMA SetEnv ==
  ASSUME NEW x \in Worlds, NEW a \in Accounts \cup {None}
  PROVE  LET y == [x EXCEPT !.disk.env = a]
         IN  /\ y \in Worlds /\ y.app = x.app /\ y.past = x.past /\ y.disk.env = a
             /\ y.disk.store = x.disk.store /\ SameFiles(x, y) /\ SameSession(x, y)
             /\ SameHistory(x, y)
<1>1. LET d == [x.disk EXCEPT !.env = a]
      IN  /\ d \in Disks /\ d.env = a /\ d.store = x.disk.store /\ d.primary = x.disk.primary
          /\ d.backup = x.disk.backup
  BY DEF Worlds, Disks
<1>2. [x EXCEPT !.disk.env = a] = [x EXCEPT !.disk = [x.disk EXCEPT !.env = a]]
  BY DEF Worlds
<1>3. LET y == [x EXCEPT !.disk.env = a]
      IN  y \in Worlds /\ y.disk = [x.disk EXCEPT !.env = a] /\ y.app = x.app /\ y.past = x.past
  BY <1>1, <1>2 DEF Worlds
<1> QED
  BY <1>1, <1>3 DEF SameFiles, SameSession, SameHistory

LEMMA ClearStoreFacts ==
  ASSUME NEW x \in Worlds, NEW y \in ClearStore(x)
  PROVE  /\ y \in Worlds /\ SameFiles(x, y) /\ SameSession(x, y) /\ y.past.stale = x.past.stale
         /\ y.disk.env = x.disk.env
         /\ \/ y.disk.store = None /\ y.past.faults = x.past.faults
            \/ y.past.faults = x.past.faults + 1
            \/ y.past.faults = x.past.faults /\ ~y.app.available
<1>1. PICK ok \in StoreAnswers(x) :
        y = IF ok THEN [x EXCEPT !.disk.store = None] ELSE Answered(x, FALSE)
  BY DEF ClearStore
<1>2. CASE ok
  BY <1>1, <1>2, SetStore DEF SameHistory
<1>3. CASE ~ok
  <2>1. FALSE \in StoreAnswers(x) /\ y = Answered(x, FALSE)
    BY <1>1, <1>3 DEF StoreAnswers
  <2> QED
    BY <2>1, AnsweredFacts DEF SameSession, SameStores
<1> QED
  BY <1>2, <1>3

LEMMA RemoveEnvFacts ==
  ASSUME NEW x \in Worlds, NEW y \in RemoveEnv(x)
  PROVE  /\ y \in Worlds /\ SameFiles(x, y) /\ SameSession(x, y) /\ y.past.stale = x.past.stale
         /\ y.disk.store = x.disk.store
         /\ \/ y.disk.env = None /\ y.past.faults = x.past.faults
            \/ y.past.faults = x.past.faults + 1
<1>1. \/ y = [x EXCEPT !.disk.env = None]
      \/ CanFault(x) /\ y = Faulty(x)
  BY DEF RemoveEnv
<1>2. CASE y = [x EXCEPT !.disk.env = None]
  BY <1>2, SetEnv DEF SameHistory
<1>3. CASE CanFault(x) /\ y = Faulty(x)
  BY <1>3, FaultyFacts DEF SameStores
<1> QED
  BY <1>1, <1>2, <1>3

\* How an operation on the credentials ends: history knows whether it has gone through.
LEMMA EndsGood ==
  ASSUME NEW b \in Worlds, Fair(b), NEW z \in Worlds, SameFiles(b, z), SameSession(b, z),
         z.past.faults \in {b.past.faults, b.past.faults + 1, b.past.faults + 2},
         z.past.faults = b.past.faults /\ z.app.available => ~Leftover(z)
  PROVE  LET y == Settled(b, Watching(Remembered(z))) IN Good(y) /\ Kept(b, y)
<1> DEFINE w == Watching(Remembered(z))
           s == IF w.past.faults > b.past.faults \/ ~w.app.available THEN Leftover(w) ELSE FALSE
           y == [w EXCEPT !.past.stale = s]
<1>1. w \in Worlds /\ Alike(z, w)
  BY RememberedFacts, WatchingFacts
     DEF Alike, SameFiles, SameSession, SameStores, SameHistory
<1>2. Settled(b, w) = y
  BY DEF Settled
<1>3. Leftover(w) = Leftover(z)
  BY <1>1 DEF Alike, SameSession, SameStores, Leftover
<1>4. b.past.faults \in Nat /\ w.past.faults = z.past.faults /\ w.app.available = z.app.available
  BY <1>1 DEF Alike, SameHistory, SameSession, Worlds, Pasts
<1>5. s \in BOOLEAN
  BY <1>1, LeftoverFacts
<1>6. s \/ ~Leftover(w)
  BY <1>3, <1>4
<1> HIDE DEF w, s
<1>7. y \in Worlds /\ y.past.stale = s /\ SameFiles(w, y) /\ SameSession(w, y) /\ SameStores(w, y)
  BY <1>1, <1>5, StaleFacts
<1> HIDE DEF y
<1>8. Leftover(y) = Leftover(w)
  BY <1>7 DEF SameSession, SameStores, Leftover
<1>9. SameFiles(b, y) /\ SameSession(b, y)
  BY <1>1, <1>7 DEF Alike, SameFiles, SameSession
<1>10. Owned(y)
  BY <1>6, <1>7, <1>8 DEF Owned
<1>11. Honest(y) /\ Saved(y) /\ Kept(b, y)
  BY <1>9, FilesSaved DEF Fair, Honest, SameSession, Kept
<1>12. Good(y)
  BY <1>7, <1>10, <1>11 DEF Good, Fair
<1> QED
  BY <1>2, <1>11, <1>12 DEF w

LEMMA TornIsKept ==
  ASSUME NEW b \in Worlds, Fair(b), NEW z \in Worlds, SameFiles(b, z), CanFault(z)
  PROVE  Good(Torn(z)) /\ Kept(b, Torn(z))
  BY TornIsGood, FilesSaved DEF Fair, Kept

LEMMA ClearIsGood ==
  ASSUME NEW x \in Worlds, Fair(x), x.app.up, NEW y \in ClearSavedCredentials(x)
  PROVE  Good(y) /\ Kept(x, y)
<1>1. PICK z \in Then(ClearStore(x), RemoveEnv) :
        y \in IF z.app.up THEN {Settled(x, Watching(Remembered(z)))}
                               \cup (IF CanFault(z) THEN {Torn(z)} ELSE {})
              ELSE {z}
  BY DEF ClearSavedCredentials, Then
<1>2. PICK a \in ClearStore(x) :
        z \in IF a.app.up THEN RemoveEnv(a) \cup (IF CanFault(a) THEN {Torn(a)} ELSE {}) ELSE {a}
  BY DEF Then
<1>3. /\ a \in Worlds /\ SameFiles(x, a) /\ SameSession(x, a) /\ a.app.up
      /\ \/ a.disk.store = None /\ a.past.faults = x.past.faults
         \/ a.past.faults = x.past.faults + 1
         \/ a.past.faults = x.past.faults /\ ~a.app.available
  BY ClearStoreFacts DEF SameSession
<1>4. CASE CanFault(a) /\ z = Torn(a)
  <2>1. Good(z) /\ Kept(x, z) /\ ~z.app.up
    BY <1>3, <1>4, TornIsKept, TornIsGood, FilesSaved DEF Fair
  <2> QED
    BY <1>1, <2>1
<1>5. CASE z \in RemoveEnv(a)
  <2>1. /\ z \in Worlds /\ SameFiles(a, z) /\ SameSession(a, z) /\ z.disk.store = a.disk.store
        /\ \/ z.disk.env = None /\ z.past.faults = a.past.faults
           \/ z.past.faults = a.past.faults + 1
    BY <1>3, <1>5, RemoveEnvFacts
  <2>2. SameFiles(x, z) /\ SameSession(x, z)
    BY <1>3, <2>1 DEF SameFiles, SameSession
  <2>3. x.past.faults \in Nat
    BY DEF Worlds, Pasts
  <2>4. z.past.faults \in {x.past.faults, x.past.faults + 1, x.past.faults + 2}
    BY <1>3, <2>1, <2>3
  <2>5. z.past.faults = x.past.faults /\ z.app.available
          => z.disk.env = None /\ z.disk.store = None
    BY <1>3, <2>1, <2>3 DEF SameSession
  <2>6. z.past.faults = x.past.faults /\ z.app.available => ~Leftover(z)
    BY <2>1, <2>5, LeftoverFacts
  <2>7. CASE y = Settled(x, Watching(Remembered(z)))
    BY <2>1, <2>2, <2>4, <2>6, <2>7, EndsGood
  <2>8. CASE CanFault(z) /\ y = Torn(z)
    BY <2>1, <2>2, <2>8, TornIsKept
  <2> QED
    BY <1>1, <1>3, <2>1, <2>7, <2>8 DEF SameSession
<1> QED
  BY <1>2, <1>3, <1>4, <1>5

LEMMA SaveToStoreIsGood ==
  ASSUME NEW x \in Worlds, Fair(x), x.app.up, x.app.account # None, NEW y \in SaveToStore(x)
  PROVE  Good(y) /\ Kept(x, y)
<1> DEFINE a == StoreLogin(x)
<1>1. PICK z \in Then({a}, RemoveEnv) :
        y \in IF z.app.up THEN {Settled(x, Watching(Remembered(z)))}
                               \cup (IF CanFault(z) THEN {Torn(z)} ELSE {})
              ELSE {z}
  BY DEF SaveToStore, Then
<1>2. z \in IF a.app.up THEN RemoveEnv(a) \cup (IF CanFault(a) THEN {Torn(a)} ELSE {}) ELSE {a}
  BY DEF Then
<1>3. /\ a \in Worlds /\ SameFiles(x, a) /\ SameSession(x, a) /\ a.app.up
      /\ a.disk.store = x.past.last /\ a.past.faults = x.past.faults
  <2>1. x.app.account \in Accounts \cup {None} /\ x.app.account = x.past.last
    BY DEF Worlds, Apps, Fair, Honest
  <2> QED
    BY <2>1, SetStore DEF StoreLogin, SameSession, SameHistory
<1> HIDE DEF a
<1>4. CASE CanFault(a) /\ z = Torn(a)
  <2>1. Good(z) /\ Kept(x, z) /\ ~z.app.up
    BY <1>3, <1>4, TornIsKept, TornIsGood, FilesSaved DEF Fair
  <2> QED
    BY <1>1, <2>1
<1>5. CASE z \in RemoveEnv(a)
  <2>1. /\ z \in Worlds /\ SameFiles(a, z) /\ SameSession(a, z) /\ z.disk.store = a.disk.store
        /\ \/ z.disk.env = None /\ z.past.faults = a.past.faults
           \/ z.past.faults = a.past.faults + 1
    BY <1>3, <1>5, RemoveEnvFacts
  <2>2. SameFiles(x, z) /\ SameSession(x, z)
    BY <1>3, <2>1 DEF SameFiles, SameSession
  <2>3. x.past.faults \in Nat
    BY DEF Worlds, Pasts
  <2>4. z.past.faults \in {x.past.faults, x.past.faults + 1, x.past.faults + 2}
    BY <1>3, <2>1, <2>3
  <2>5. z.past.faults = x.past.faults => z.disk.env = None /\ z.disk.store = z.past.last
    BY <1>3, <2>1, <2>2, <2>3 DEF SameSession
  <2>6. z.past.faults = x.past.faults => ~Leftover(z)
    BY <2>1, <2>5, LeftoverFacts
  <2>7. CASE y = Settled(x, Watching(Remembered(z)))
    BY <2>1, <2>2, <2>4, <2>6, <2>7, EndsGood
  <2>8. CASE CanFault(z) /\ y = Torn(z)
    BY <2>1, <2>2, <2>8, TornIsKept
  <2> QED
    BY <1>1, <1>3, <2>1, <2>7, <2>8 DEF SameSession
<1> QED
  BY <1>2, <1>3, <1>4, <1>5

\* A world whose history has just been brought up to date.
LEMMA LateIsGood ==
  ASSUME NEW b \in Worlds, Fair(b), NEW z \in Worlds, SameFiles(b, z), SameSession(b, z)
  PROVE  LET y == [z EXCEPT !.past.stale = Leftover(z)] IN Good(y) /\ Kept(b, y)
<1> DEFINE s == Leftover(z)
           y == [z EXCEPT !.past.stale = s]
<1>1. s \in BOOLEAN
  BY LeftoverFacts
<1> HIDE DEF s
<1>2. y \in Worlds /\ y.past.stale = s /\ SameFiles(z, y) /\ SameSession(z, y) /\ SameStores(z, y)
  BY <1>1, StaleFacts
<1> HIDE DEF y
<1>3. Leftover(y) = s
  BY <1>2 DEF s, SameSession, SameStores, Leftover
<1>4. Owned(y)
  BY <1>2, <1>3 DEF Owned
<1>5. SameFiles(b, y) /\ SameSession(b, y)
  BY <1>2 DEF SameFiles, SameSession
<1>6. Honest(y) /\ Saved(y) /\ Kept(b, y)
  BY <1>5, FilesSaved DEF Fair, Honest, SameSession, Kept
<1> QED
  BY <1>2, <1>4, <1>6 DEF Good, Fair, y, s

LEMMA SaveEnvFallbackIsGood ==
  ASSUME NEW x \in Worlds, Fair(x), NEW y \in SaveEnvFallback(x)
  PROVE  Good(y) /\ Kept(x, y)
<1> DEFINE written == [x EXCEPT !.disk.env = x.app.account]
           removed == [Faulty(x) EXCEPT !.disk.env = None]
<1>1. \E z \in {Watching(Remembered(written))}
               \cup (IF CanFault(x)
                     THEN {Watching(Faulty(x)), Watching(Remembered(removed))} ELSE {}) :
        y = [z EXCEPT !.past.stale = Leftover(z)]
  BY DEF SaveEnvFallback
<1>2. written \in Worlds /\ SameFiles(x, written) /\ SameSession(x, written)
  <2>1. x.app.account \in Accounts \cup {None}
    BY DEF Worlds, Apps
  <2> QED
    BY <2>1, SetEnv
<1>3. CanFault(x) => Faulty(x) \in Worlds /\ SameFiles(x, Faulty(x)) /\ SameSession(x, Faulty(x))
  BY FaultyFacts
<1>4. CanFault(x) => removed \in Worlds /\ SameFiles(x, removed) /\ SameSession(x, removed)
  <2>1. SUFFICES ASSUME CanFault(x)
                 PROVE  removed \in Worlds /\ SameFiles(x, removed) /\ SameSession(x, removed)
    OBVIOUS
  <2>2. /\ removed \in Worlds
        /\ SameFiles(Faulty(x), removed) /\ SameSession(Faulty(x), removed)
    BY <1>3, <2>1, SetEnv
  <2> QED
    BY <1>3, <2>1, <2>2 DEF SameFiles, SameSession
<1> HIDE DEF written, removed
<1>5. ASSUME NEW w \in Worlds, SameFiles(x, w), SameSession(x, w)
      PROVE  /\ Watching(w) \in Worlds /\ SameFiles(x, Watching(w)) /\ SameSession(x, Watching(w))
             /\ Remembered(w) \in Worlds
             /\ SameFiles(x, Remembered(w)) /\ SameSession(x, Remembered(w))
  BY <1>5, WatchingFacts, RememberedFacts DEF Alike, SameFiles, SameSession
<1>6. PICK z \in Worlds : /\ SameFiles(x, z) /\ SameSession(x, z)
                          /\ y = [z EXCEPT !.past.stale = Leftover(z)]
  BY <1>1, <1>2, <1>3, <1>4, <1>5
<1> QED
  BY <1>6, LateIsGood

\* save_credentials(), whatever was stored before.
LEMMA SaveCredentialsIsGood ==
  ASSUME NEW x \in Worlds, Fair(x), x.app.up, NEW y \in SaveCredentials(x)
  PROVE  Good(y) /\ Kept(x, y)
<1>1. CASE x.app.account = None
  BY <1>1, ClearIsGood DEF SaveCredentials
<1>2. CASE x.app.account # None
  <2>1. PICK ok \in StoreAnswers(x) :
          y \in IF ok THEN SaveToStore(x) ELSE SaveEnvFallback(Answered(x, FALSE))
    BY <1>2 DEF SaveCredentials
  <2>2. CASE ok
    BY <1>2, <2>1, <2>2, SaveToStoreIsGood
  <2>3. CASE ~ok
    <3>1. FALSE \in StoreAnswers(x)
      BY <2>1, <2>3 DEF StoreAnswers
    <3>2. LET w == Answered(x, FALSE)
          IN  w \in Worlds /\ SameFiles(x, w) /\ SameSession(x, w)
      BY <3>1, AnsweredFacts
    <3>3. Fair(Answered(x, FALSE))
      BY <3>2, FilesSaved DEF Fair, Honest, SameSession
    <3>4. Good(y) /\ Kept(Answered(x, FALSE), y)
      BY <2>1, <2>3, <3>2, <3>3, SaveEnvFallbackIsGood
    <3> QED
      BY <3>2, <3>4 DEF Kept, SameSession
  <2> QED
    BY <2>2, <2>3
<1> QED
  BY <1>1, <1>2

(***************************************************************************)
(* A session that is found                                                 *)
(***************************************************************************)
LEMMA SetAccount ==
  ASSUME NEW x \in Worlds, NEW a \in Accounts \cup {None}
  PROVE  LET y == [x EXCEPT !.app.account = a]
         IN  /\ y \in Worlds /\ y.app.account = a /\ y.disk = x.disk /\ y.past = x.past
             /\ y.app.up = x.app.up /\ y.app.values = x.app.values
<1>1. LET p == [x.app EXCEPT !.account = a]
      IN  p \in Apps /\ p.account = a /\ p.up = x.app.up /\ p.values = x.app.values
  BY DEF Worlds, Apps
<1>2. [x EXCEPT !.app.account = a] = [x EXCEPT !.app = [x.app EXCEPT !.account = a]]
  BY DEF Worlds
<1> QED
  BY <1>1, <1>2 DEF Worlds

LEMMA LoadFacts ==
  ASSUME NEW x \in Worlds, NEW y \in LoadCredentials(x)
  PROVE  /\ y \in Worlds /\ SameFiles(x, y) /\ SameStores(x, y) /\ y.past.stale = x.past.stale
         /\ y.past.last = x.past.last /\ y.app.up = x.app.up /\ y.app.values = x.app.values
         /\ y.app.account \in {None, x.disk.env, x.disk.store}
<1>1. PICK ok \in StoreAnswers(x) :
        y = [Answered(x, ok) EXCEPT !.app.account =
               IF LoadStore(x, ok) # None THEN LoadStore(x, ok) ELSE LoadEnvFallback(x)]
  BY DEF LoadCredentials
<1> DEFINE w == Answered(x, ok)
           a == IF LoadStore(x, ok) # None THEN LoadStore(x, ok) ELSE LoadEnvFallback(x)
<1>2. /\ w \in Worlds /\ w.disk = x.disk /\ w.app = x.app /\ SameFiles(x, w)
      /\ SameSession(x, w) /\ w.past.stale = x.past.stale
  BY AnsweredFacts
<1>3. a \in {None, x.disk.env, x.disk.store} /\ a \in Accounts \cup {None}
  BY DEF LoadStore, LoadEnvFallback, Worlds, Disks
<1>4. y = [w EXCEPT !.app.account = a]
  BY <1>1
<1> HIDE DEF w, a
<1> QED
  BY <1>2, <1>3, <1>4, SetAccount DEF SameFiles, SameSession, SameStores

\* Who has been found is the last user, or is so from now on.
LEMMA AdoptIsGood ==
  ASSUME NEW x \in Worlds, Saved(x), x.past.stale \/ (Honest(x) /\ Owned(x))
  PROVE  /\ Good(Adopt(x)) /\ Adopt(x).app = x.app
<1> DEFINE l == IF x.past.stale /\ x.app.account # None THEN x.app.account ELSE x.past.last
           s == x.past.stale /\ Leftover([x EXCEPT !.past.last = x.app.account])
           p == [x.past EXCEPT !.last = l, !.stale = s]
           y == [x EXCEPT !.past = p]
<1>1. x.past \in Pasts /\ x.app.account \in Accounts \cup {None} /\ l \in Accounts \cup {None}
  BY DEF Worlds, Pasts, Apps
<1>2. s \in BOOLEAN
  BY <1>1 DEF Worlds, Pasts, Leftover
<1>3. Adopt(x) = y
  BY DEF Adopt, Worlds
<1>4. s <=> x.past.stale /\ \E a \in {x.disk.env, x.disk.store} : a \notin {None, x.app.account}
  <2>1. LET w == [x EXCEPT !.past.last = x.app.account]
        IN  w.disk = x.disk /\ w.past.last = x.app.account
    BY <1>1 DEF Worlds, Pasts
  <2> QED
    BY <2>1 DEF Leftover
<1>5. l = IF x.past.stale /\ x.app.account # None THEN x.app.account ELSE x.past.last
  OBVIOUS
<1> HIDE DEF l, s
<1>6. /\ p \in Pasts /\ p.last = l /\ p.stale = s /\ p.durable = x.past.durable
      /\ p.recent = x.past.recent
  BY <1>1, <1>2 DEF Pasts
<1> HIDE DEF p
<1>7. y \in Worlds /\ y.past = p /\ y.app = x.app /\ y.disk = x.disk
  BY <1>6 DEF Worlds
<1> HIDE DEF y
<1>8. Saved(y)
  BY <1>6, <1>7 DEF Saved
<1>9. Honest(y)
  BY <1>5, <1>6, <1>7 DEF Honest
<1>10. Owned(y)
  <2>1. Leftover(y) <=> \E a \in {x.disk.env, x.disk.store} : a \notin {None, l}
    BY <1>6, <1>7, LeftoverFacts
  <2>2. CASE x.past.stale
    BY <1>2, <1>4, <1>5, <1>6, <1>7, <2>1, <2>2 DEF Owned
  <2>3. CASE ~x.past.stale
    BY <1>5, <1>7, <2>1, <2>3, LeftoverFacts DEF Owned
  <2> QED
    BY <2>2, <2>3
<1> QED
  BY <1>3, <1>7, <1>8, <1>9, <1>10 DEF Good, Fair

\* The session goes on: whoever was signed in, or whoever the reload has found.
Continued(x, y) ==
  y.app.up => /\ y.app.values = x.app.values
              /\ x.app.account # None => y.app.account # None

LEMMA KeptIsContinued ==
  ASSUME NEW x, NEW y, Kept(x, y)
  PROVE  Continued(x, y)
  BY DEF Kept, Continued

\* LoadCredentials, with the session that there was.
LEMMA FoundIsGood ==
  ASSUME NEW x \in Worlds, Good(x), NEW z \in LoadCredentials(x),
         NEW a \in {z.app.account} \cup (IF z.app.account = None THEN {x.app.account} ELSE {})
  PROVE  LET y == Adopt([z EXCEPT !.app.account = a])
         IN  Good(y) /\ y.app.account = a /\ y.app.up = x.app.up /\ y.app.values = x.app.values
<1> DEFINE w == [z EXCEPT !.app.account = a]
<1>1. /\ z \in Worlds /\ SameFiles(x, z) /\ SameStores(x, z) /\ z.past.stale = x.past.stale
      /\ z.past.last = x.past.last /\ z.app.up = x.app.up /\ z.app.values = x.app.values
      /\ z.app.account \in {None, x.disk.env, x.disk.store}
  BY LoadFacts
<1>2. a \in Accounts \cup {None}
  BY <1>1 DEF Worlds, Apps
<1>3. /\ w \in Worlds /\ w.app.account = a /\ w.disk = z.disk /\ w.past = z.past
      /\ w.app.up = z.app.up /\ w.app.values = z.app.values
  BY <1>1, <1>2, SetAccount
<1> HIDE DEF w
<1>4. Saved(w)
  <2>1. SameFiles(x, w)
    BY <1>1, <1>3 DEF SameFiles
  <2> QED
    BY <2>1, FilesSaved DEF Good, Fair
<1>5. ~w.past.stale => Honest(w) /\ Owned(w)
  <2>1. SUFFICES ASSUME ~w.past.stale PROVE Honest(w) /\ Owned(w)
    OBVIOUS
  <2>2. \A b \in {x.disk.env, x.disk.store} : b \in {None, x.past.last}
    BY <1>1, <1>3, <2>1, LeftoverFacts DEF Good, Owned
  <2>3. Honest(w)
    BY <1>1, <1>3, <2>2 DEF Good, Fair, Honest
  <2>4. ~Leftover(w)
    BY <1>1, <1>3, <2>2, LeftoverFacts DEF SameStores
  <2> QED
    BY <2>3, <2>4 DEF Owned
<1>6. Good(Adopt(w)) /\ Adopt(w).app = w.app
  BY <1>3, <1>4, <1>5, AdoptIsGood
<1> QED
  BY <1>1, <1>3, <1>6 DEF w

LEMMA SessionReloadedIsGood ==
  ASSUME NEW was, NEW x \in Worlds, Good(x), x.app.up, was.app.account = x.app.account,
         NEW y \in SessionReloaded(was, x)
  PROVE  Good(y) /\ Continued(x, y)
<1>1. Fair(x) /\ x.app.account \in Accounts \cup {None}
  BY DEF Good, Worlds, Apps
<1>2. CASE ~x.app.values.keep
  <2>1. y = x \/ y \in ClearSavedCredentials(x)
    BY <1>2 DEF SessionReloaded
  <2>2. CASE y = x
    BY <2>2 DEF Continued
  <2>3. CASE y \in ClearSavedCredentials(x)
    BY <1>1, <2>3, ClearIsGood, KeptIsContinued
  <2> QED
    BY <2>1, <2>2, <2>3
<1>3. CASE x.app.values.keep /\ ~was.app.values.keep /\ was.app.account # None
  BY <1>1, <1>3, SaveCredentialsIsGood, KeptIsContinued DEF SessionReloaded
<1>4. CASE x.app.values.keep /\ ~(~was.app.values.keep /\ was.app.account # None)
  <2>1. PICK z \in LoadCredentials(x) :
          y = Adopt(IF z.app.account = None /\ was.app.account # None
                    THEN [z EXCEPT !.app.account = was.app.account] ELSE z)
    BY <1>4 DEF SessionReloaded
  <2>2. z \in Worlds
    BY LoadFacts
  <2>3. CASE z.app.account = None
    <3>1. [z EXCEPT !.app.account = was.app.account]
            = IF was.app.account # None THEN [z EXCEPT !.app.account = was.app.account] ELSE z
      BY <2>2, <2>3 DEF Worlds, Apps
    <3>2. y = Adopt([z EXCEPT !.app.account = x.app.account])
      BY <2>1, <2>3, <3>1
    <3> QED
      BY <2>3, <3>2, FoundIsGood DEF Continued
  <2>4. CASE z.app.account # None
    <3>1. [z EXCEPT !.app.account = z.app.account] = z
      BY <2>2 DEF Worlds, Apps
    <3>2. y = Adopt([z EXCEPT !.app.account = z.app.account])
      BY <2>1, <2>4, <3>1
    <3> QED
      BY <2>4, <3>2, FoundIsGood DEF Continued
  <2> QED
    BY <2>3, <2>4
<1> QED
  BY <1>2, <1>3, <1>4

(***************************************************************************)
(* The files                                                               *)
(***************************************************************************)
Steady(x, y) == SameSession(x, y) /\ SameStores(x, y) /\ y.past.stale = x.past.stale

LEMMA SteadyIsGood ==
  ASSUME NEW x, NEW y \in Worlds, Steady(x, y), Good(x), Saved(y)
  PROVE  Good(y) /\ Kept(x, y)
  BY DEF Steady, SameSession, SameStores, Good, Fair, Honest, Owned, Leftover, Kept

LEMMA WritePrimaryFacts ==
  ASSUME NEW x \in Worlds, Saved(x)
  PROVE  LET y == WritePrimary(x)
         IN  /\ y \in Worlds /\ Steady(x, y) /\ Saved(y) /\ y.disk.primary = y.app.values
             /\ y.past.faults = x.past.faults
<1> DEFINE d == [x.disk EXCEPT !.primary = x.app.values]
           a == [x.app EXCEPT !.failed = FALSE]
           p == [x.past EXCEPT !.absorbed = FALSE, !.recent = @ \cup {x.app.values}]
<1>1. x.app.values \in Documents
  BY DEF Worlds, Apps
<1>2. /\ d \in Disks /\ d.primary = x.app.values /\ d.backup = x.disk.backup
      /\ d.env = x.disk.env /\ d.store = x.disk.store
  BY <1>1 DEF Worlds, Disks
<1>3. /\ a \in Apps /\ a.values = x.app.values /\ a.up = x.app.up /\ a.account = x.app.account
      /\ a.available = x.app.available
  BY DEF Worlds, Apps
<1>4. /\ p \in Pasts /\ p.recent = x.past.recent \cup {x.app.values}
      /\ p.durable = x.past.durable /\ p.last = x.past.last /\ p.stale = x.past.stale
      /\ p.faults = x.past.faults
  BY <1>1 DEF Worlds, Pasts
<1>5. WritePrimary(x) = [x EXCEPT !.disk = d, !.app = a, !.past = p]
  BY DEF WritePrimary, Worlds
<1> HIDE DEF d, a, p
<1>6. LET y == WritePrimary(x) IN y \in Worlds /\ y.disk = d /\ y.app = a /\ y.past = p
  BY <1>2, <1>3, <1>4, <1>5 DEF Worlds
<1> QED
  BY <1>2, <1>3, <1>4, <1>6 DEF Steady, SameSession, SameStores, Saved

LEMMA WriteBackupFacts ==
  ASSUME NEW x \in Worlds, x.disk.primary = x.app.values
  PROVE  LET y == WriteBackup(x) IN y \in Worlds /\ Steady(x, y) /\ Saved(y)
<1> DEFINE d == [x.disk EXCEPT !.backup = x.app.values]
           p == [x.past EXCEPT !.durable = x.app.values, !.recent = {}]
<1>1. x.app.values \in Documents /\ x.app.values # Gone
  BY DocumentFacts DEF Worlds, Apps
<1>2. /\ d \in Disks /\ d.primary = x.app.values /\ d.backup = x.app.values
      /\ d.env = x.disk.env /\ d.store = x.disk.store
  BY <1>1 DEF Worlds, Disks
<1>3. /\ p \in Pasts /\ p.durable = x.app.values /\ p.last = x.past.last
      /\ p.stale = x.past.stale
  BY <1>1 DEF Worlds, Pasts
<1>4. WriteBackup(x) = [x EXCEPT !.disk = d, !.past = p]
  BY DEF WriteBackup, Worlds
<1> HIDE DEF d, p
<1>5. LET y == WriteBackup(x) IN y \in Worlds /\ y.disk = d /\ y.app = x.app /\ y.past = p
  BY <1>2, <1>3, <1>4 DEF Worlds
<1> QED
  BY <1>1, <1>2, <1>3, <1>5 DEF Steady, SameSession, SameStores, Saved

\* The fields of the launcher that no property is about.
LEMMA AppFacts ==
  ASSUME NEW x \in Worlds, NEW a \in Apps, a.up = x.app.up, a.account = x.app.account,
         a.values = x.app.values, a.available = x.app.available
  PROVE  LET y == [x EXCEPT !.app = a] IN y \in Worlds /\ y.app = a /\ Alike(x, y)
  BY DEF Worlds, Alike, SameFiles, SameSession, SameStores, SameHistory

LEMMA SaveIsGood ==
  ASSUME NEW x \in Worlds, Good(x), NEW y \in Save(x)
  PROVE  Good(y) /\ Kept(x, y)
<1> DEFINE w == WritePrimary(x)
           After(z) == [z EXCEPT !.app.seen = z.disk.primary, !.app.watched = TRUE,
                                 !.app.event = TRUE]
           f == [x EXCEPT !.app.failed = TRUE]
<1>1. /\ w \in Worlds /\ Steady(x, w) /\ Saved(w) /\ w.disk.primary = w.app.values
      /\ w.past.faults = x.past.faults
  BY WritePrimaryFacts DEF Good, Fair
<1>2. \/ y = After(WriteBackup(w))
      \/ CanFault(x) /\ (y = After(Faulty(w)) \/ y = Dead(Faulty(w)))
      \/ CanFault(x) /\ y = Watching(Remembered(Faulty(f)))
  BY DEF Save
<1>3. CanFault(x) => CanFault(w)
  BY <1>1 DEF CanFault
<1> HIDE DEF w
<1>4. ASSUME NEW z \in Worlds, Steady(x, z), Saved(z)
      PROVE  Good(After(z)) /\ Kept(x, After(z))
  <2> DEFINE a == [z.app EXCEPT !.seen = z.disk.primary, !.watched = TRUE, !.event = TRUE]
  <2>1. z.disk.primary \in Documents \cup {Gone, Bad} /\ z.app \in Apps
    BY DEF Worlds, Disks
  <2>2. /\ a \in Apps /\ a.up = z.app.up /\ a.account = z.app.account
        /\ a.values = z.app.values /\ a.available = z.app.available
    BY <2>1 DEF Apps
  <2>3. After(z) = [z EXCEPT !.app = a]
    BY DEF Worlds
  <2> HIDE DEF a, After
  <2>4. After(z) \in Worlds /\ Alike(z, After(z))
    BY <2>2, <2>3, AppFacts
  <2>5. Steady(x, After(z)) /\ Saved(After(z))
    BY <1>4, <2>4, FilesSaved DEF Alike, Steady, SameSession, SameStores, SameHistory
  <2> QED
    BY <2>4, <2>5, SteadyIsGood
<1>5. WriteBackup(w) \in Worlds /\ Steady(x, WriteBackup(w)) /\ Saved(WriteBackup(w))
  BY <1>1, WriteBackupFacts DEF Steady, SameSession, SameStores
<1>6. CanFault(x) =>
        Faulty(w) \in Worlds /\ Steady(x, Faulty(w)) /\ Saved(Faulty(w))
  BY <1>1, <1>3, FaultyFacts, FilesSaved DEF Steady, SameSession, SameStores
<1>7. CASE CanFault(x) /\ y = Dead(Faulty(w))
  <2>1. /\ y \in Worlds /\ y.disk = Faulty(w).disk /\ y.past = Faulty(w).past
        /\ ~y.app.up /\ y.app.account = None
    BY <1>6, <1>7, DeadFacts
  <2>2. Saved(y) /\ Honest(y) /\ Kept(x, y)
    BY <1>6, <1>7, <2>1 DEF Saved, Honest, Kept
  <2>3. Owned(y)
    BY <1>6, <1>7, <2>1 DEF Good, Owned, Steady, SameSession, SameStores, Leftover
  <2> QED
    BY <2>1, <2>2, <2>3 DEF Good, Fair
<1>8. CASE CanFault(x) /\ y = Watching(Remembered(Faulty(f)))
  <2> DEFINE a == [x.app EXCEPT !.failed = TRUE]
  <2>1. /\ a \in Apps /\ a.up = x.app.up /\ a.account = x.app.account
        /\ a.values = x.app.values /\ a.available = x.app.available
    BY DEF Worlds, Apps
  <2>2. f = [x EXCEPT !.app = a]
    BY DEF Worlds
  <2> HIDE DEF a, f
  <2>3. f \in Worlds /\ Alike(x, f) /\ CanFault(f)
    BY <1>8, <2>1, <2>2, AppFacts DEF Alike, SameHistory, CanFault
  <2>4. Faulty(f) \in Worlds /\ Steady(x, Faulty(f)) /\ SameFiles(x, Faulty(f))
    BY <2>3, FaultyFacts
       DEF Alike, Steady, SameFiles, SameSession, SameStores, SameHistory
  <2>5. Saved(Faulty(f))
    BY <2>4, FilesSaved DEF Good, Fair
  <2>6. Good(Faulty(f)) /\ Kept(x, Faulty(f))
    BY <2>4, <2>5, SteadyIsGood
  <2>7. /\ Remembered(Faulty(f)) \in Worlds /\ Good(Remembered(Faulty(f)))
        /\ Kept(Faulty(f), Remembered(Faulty(f)))
    BY <2>4, <2>6, RememberedFacts, AlikeIsGood
  <2>8. Good(y) /\ Kept(Remembered(Faulty(f)), y) /\ Alike(Remembered(Faulty(f)), y)
    BY <1>8, <2>7, WatchingFacts, AlikeIsGood
  <2> QED
    BY <2>4, <2>6, <2>7, <2>8, RememberedFacts DEF Kept, Alike, SameSession
<1> QED
  <2> HIDE DEF After
  <2> QED
    BY <1>2, <1>4, <1>5, <1>6, <1>7, <1>8

(***************************************************************************)
(* Reading config.json again                                               *)
(***************************************************************************)
Alive(x, y) == y.app.up /\ x.app.account # None => y.app.account # None

LEMMA WatchedOrRemembered ==
  ASSUME NEW x \in Worlds, Good(x)
  PROVE  /\ Good(Watching(x)) /\ Alike(x, Watching(x))
         /\ Good(Remembered(x)) /\ Alike(x, Remembered(x))
         /\ Good(Watching(Remembered(x))) /\ Alike(x, Watching(Remembered(x)))
  BY WatchingFacts, RememberedFacts, AlikeIsGood
     DEF Alike, SameFiles, SameSession, SameStores, SameHistory

LEMMA ForgetUnreadable ==
  ASSUME NEW x \in Worlds
  PROVE  LET y == [x EXCEPT !.app.unreadable = 0] IN y \in Worlds /\ Alike(x, y)
<1> DEFINE a == [x.app EXCEPT !.unreadable = 0]
<1>1. /\ a \in Apps /\ a.up = x.app.up /\ a.account = x.app.account
      /\ a.values = x.app.values /\ a.available = x.app.available
  BY DEF Worlds, Apps
<1>2. [x EXCEPT !.app.unreadable = 0] = [x EXCEPT !.app = a]
  BY DEF Worlds
<1> HIDE DEF a
<1> QED
  BY <1>1, <1>2, AppFacts

LEMMA RetryLater ==
  ASSUME NEW x \in Worlds, NEW n \in 0 .. 2
  PROVE  LET y == [x EXCEPT !.app.unreadable = n, !.app.timer = TRUE]
         IN  y \in Worlds /\ Alike(x, y)
<1> DEFINE a == [x.app EXCEPT !.unreadable = n, !.timer = TRUE]
<1>1. /\ a \in Apps /\ a.up = x.app.up /\ a.account = x.app.account
      /\ a.values = x.app.values /\ a.available = x.app.available
  BY DEF Worlds, Apps
<1>2. [x EXCEPT !.app.unreadable = n, !.app.timer = TRUE] = [x EXCEPT !.app = a]
  BY DEF Worlds
<1> HIDE DEF a
<1> QED
  BY <1>1, <1>2, AppFacts

LEMMA SetValues ==
  ASSUME NEW x \in Worlds, Good(x), NEW v \in Documents
  PROVE  LET y == [x EXCEPT !.app.values = v]
         IN  /\ y \in Worlds /\ Good(y) /\ y.app.up = x.app.up /\ y.app.account = x.app.account
             /\ y.app.values = v /\ y.past = x.past /\ y.disk = x.disk
<1> DEFINE a == [x.app EXCEPT !.values = v]
           y == [x EXCEPT !.app = a]
<1>1. a \in Apps /\ a.up = x.app.up /\ a.account = x.app.account /\ a.values = v
  BY DEF Worlds, Apps
<1>2. [x EXCEPT !.app.values = v] = y
  BY DEF Worlds
<1> HIDE DEF a
<1>3. y \in Worlds /\ y.app = a /\ y.disk = x.disk /\ y.past = x.past
  BY <1>1 DEF Worlds
<1> HIDE DEF y
<1>4. Good(y)
  BY <1>1, <1>3 DEF Good, Fair, Honest, Owned, Saved, Leftover
<1> QED
  BY <1>1, <1>2, <1>3, <1>4

LEMMA MergeIsGood ==
  ASSUME NEW was, NEW x \in Worlds, Good(x), x.app.up, was.app.account = x.app.account,
         NEW recovered \in BOOLEAN, NEW y \in Merge(was, x, recovered)
  PROVE  Good(y) /\ Alive(x, y)
<1> DEFINE u == [x EXCEPT !.app.unreadable = 0]
<1>1. u \in Worlds /\ Good(u) /\ Alike(x, u)
  BY ForgetUnreadable, AlikeIsGood
<1>2. u.app.up /\ was.app.account = u.app.account /\ u.app.account = x.app.account
  BY <1>1 DEF Alike, SameSession
<1>3. PICK z \in SessionReloaded(was, u) :
        y \in IF z.app.up
              THEN (IF recovered \/ z.app.values # was.app.values THEN Save(z)
                    ELSE {Watching(Remembered(z))})
                   \cup (IF CanFault(z) THEN {Torn(z)} ELSE {})
              ELSE {z}
  BY DEF Merge, Then
<1> HIDE DEF u
<1>4. Good(z) /\ Continued(u, z) /\ z \in Worlds
  BY <1>1, <1>2, <1>3, SessionReloadedIsGood DEF Good, Fair
<1>5. Alive(x, z)
  BY <1>2, <1>4 DEF Continued, Alive
<1>6. CASE ~z.app.up
  BY <1>3, <1>4, <1>5, <1>6
<1>7. CASE z.app.up /\ y \in Save(z)
  BY <1>4, <1>5, <1>7, SaveIsGood DEF Kept, Alive
<1>8. CASE z.app.up /\ y = Watching(Remembered(z))
  BY <1>4, <1>5, <1>8, WatchedOrRemembered DEF Alike, SameSession, Alive
<1>9. CASE CanFault(z) /\ y = Torn(z)
  BY <1>4, <1>9, TornIsGood DEF Good, Fair, Alive
<1> QED
  BY <1>3, <1>6, <1>7, <1>8, <1>9

LEMMA IgnoredIsGood ==
  ASSUME NEW x \in Worlds, Good(x), NEW y \in Ignored(x)
  PROVE  Good(y) /\ Alive(x, y)
<1> DEFINE u == [x EXCEPT !.app.unreadable = 0]
<1>1. u \in Worlds /\ Good(u) /\ Alike(x, u)
  BY ForgetUnreadable, AlikeIsGood
<1>2. y = Remembered(u)
  BY DEF Ignored
<1> HIDE DEF u
<1> QED
  BY <1>1, <1>2, WatchedOrRemembered DEF Alike, SameSession, Alive

LEMMA ReloadIsGood ==
  ASSUME NEW x \in Worlds, Good(x), x.app.up, NEW force \in BOOLEAN,
         NEW y \in ReloadFromDisk(x, force)
  PROVE  Good(y) /\ Alive(x, y)
<1>1. x.app.values \in Documents /\ x.disk.primary \in Documents \cup {Gone, Bad}
      /\ x.app.unreadable \in 0 .. 2
  BY DEF Worlds, Apps, Disks
<1>2. ASSUME NEW v \in Documents, NEW r \in BOOLEAN,
             y \in Merge(x, [x EXCEPT !.app.values = v], r)
      PROVE  Good(y) /\ Alive(x, y)
  <2> DEFINE w == [x EXCEPT !.app.values = v]
  <2>1. w \in Worlds /\ Good(w) /\ w.app.up /\ x.app.account = w.app.account
    BY SetValues
  <2>2. y \in Merge(x, w, r)
    BY <1>2
  <2> HIDE DEF w
  <2>3. Good(y) /\ Alive(w, y)
    BY <2>1, <2>2, MergeIsGood
  <2> QED
    BY <2>1, <2>3 DEF Alive
<1>3. [x EXCEPT !.app.values = Normal(@)] = [x EXCEPT !.app.values = Normal(x.app.values)]
  BY DEF Worlds
<1>4. Normal(x.app.values) \in Documents
  BY <1>1, DocumentFacts
<1>5. CASE y = x
  BY <1>5 DEF Alive
<1>6. CASE x.disk.primary = Gone /\ y \in ReloadMissing(x)
  <2>1. y \in Ignored(x) \/ y \in Merge(x, [x EXCEPT !.app.values = Normal(x.app.values)], TRUE)
    BY <1>3, <1>6 DEF ReloadMissing
  <2> QED
    BY <1>2, <1>4, <2>1, IgnoredIsGood
<1>7. CASE x.disk.primary = Bad /\ y \in ReloadUnreadable(x)
  <2>1. \/ y \in Ignored(x)
        \/ y \in Merge(x, [x EXCEPT !.app.values = Normal(x.app.values)], TRUE)
        \/ /\ x.app.unreadable < 2
           /\ y = Watching([x EXCEPT !.app.unreadable = @ + 1, !.app.timer = TRUE])
    BY <1>3, <1>7 DEF ReloadUnreadable
  <2>2. CASE /\ x.app.unreadable < 2
             /\ y = Watching([x EXCEPT !.app.unreadable = @ + 1, !.app.timer = TRUE])
    <3> DEFINE u == [x EXCEPT !.app.unreadable = x.app.unreadable + 1, !.app.timer = TRUE]
    <3>1. x.app.unreadable + 1 \in 0 .. 2
      BY <1>1, <2>2
    <3>2. u \in Worlds /\ Good(u) /\ Alike(x, u)
      BY <3>1, RetryLater, AlikeIsGood
    <3>3. y = Watching(u)
      BY <2>2
    <3> HIDE DEF u
    <3> QED
      BY <3>2, <3>3, WatchedOrRemembered DEF Alike, SameSession, Alive
  <2> QED
    BY <1>2, <1>4, <2>1, <2>2, IgnoredIsGood
<1>8. CASE /\ x.disk.primary \in Documents
           /\ y \in Merge(x, [x EXCEPT !.app.values = Normal(x.disk.primary)], FALSE)
  BY <1>2, <1>8, DocumentFacts
<1> QED
  <2>1. Gone # Bad
    BY DEF Gone, Bad
  <2> QED
    BY <1>1, <1>5, <1>6, <1>7, <1>8, <2>1, DocumentFacts DEF ReloadFromDisk

(***************************************************************************)
(* The actions                                                             *)
(***************************************************************************)
KeepsSession ==
  app.up /\ app'.up /\ past'.last = past.last => app'.account # None \/ app.account = None

\* What a start may find.
Findable ==
  {Normal(d) : d \in past.recent \cup {IF past.durable = Gone THEN Defaults ELSE past.durable}}
  \cup {d \in {Defaults} : ~disk.marker}

FindsSettings == ~app.up /\ app'.up => app'.values \in Findable

\* What every step is.
Kind == IInv' /\ KeepsSession /\ FindsSettings

LEMMA WorldFacts ==
  ASSUME IInv
  PROVE  /\ World \in Worlds /\ Good(World) /\ Fair(World) /\ Honest(World) /\ Saved(World)
         /\ World.disk = disk /\ World.app = app /\ World.past = past
         /\ disk \in Disks /\ app \in Apps /\ past \in Pasts
  BY DEF IInv, Good, Fair, Worlds, World

LEMMA GoodNext ==
  ASSUME NEW y, Good(y), disk' = y.disk, app' = y.app, past' = y.past
  PROVE  IInv'
<1>1. y = [disk |-> disk', app |-> app', past |-> past']
  BY WorldFields DEF Good, Fair
<1> QED
  BY <1>1 DEF IInv, World

\* A running launcher takes a step to a good world in which its session lives.
LEMMA AliveNext ==
  ASSUME IInv, app.up, NEW y, Good(y), Alive(World, y), disk' = y.disk, app' = y.app, past' = y.past
  PROVE  Kind
  BY GoodNext, WorldFacts DEF Kind, KeepsSession, FindsSettings, Alive

LEMMA SetChoiceStep ==
  ASSUME IInv, NEW c \in Choices, SetChoice(c)
  PROVE  Kind
<1> DEFINE v == [app.values EXCEPT !.choice = c]
           x == [World EXCEPT !.app.values = v]
<1>1. v \in Documents
  BY WorldFacts DEF Apps, Documents
<1>2. [World EXCEPT !.app.values.choice = c] = x
  BY WorldFacts DEF World
<1>3. PICK y \in Save(x) : disk' = y.disk /\ app' = y.app /\ past' = y.past
  BY <1>2 DEF SetChoice, Become
<1>4. x \in Worlds /\ Good(x) /\ x.app.account = World.app.account
  BY <1>1, WorldFacts, SetValues
<1> HIDE DEF x
<1>5. Good(y) /\ Kept(x, y)
  BY <1>3, <1>4, SaveIsGood
<1>6. Alive(World, y)
  BY <1>4, <1>5 DEF Kept, Alive
<1> QED
  BY <1>3, <1>5, <1>6, AliveNext DEF SetChoice

LEMMA SetKeepSignedInStep ==
  ASSUME IInv, NEW b \in BOOLEAN, SetKeepSignedIn(b)
  PROVE  Kind
<1> DEFINE v == [app.values EXCEPT !.keep = b]
           x == [World EXCEPT !.app.values = v]
<1>1. v \in Documents
  BY WorldFacts DEF Apps, Documents
<1>2. [World EXCEPT !.app.values.keep = b] = x
  BY WorldFacts DEF World
<1>3. x \in Worlds /\ Good(x) /\ x.app.account = World.app.account
  BY <1>1, WorldFacts, SetValues
<1>4. PICK z \in Save(x) :
        \E y \in IF z.app.up
                 THEN (IF ~b THEN ClearSavedCredentials(z)
                       ELSE IF z.app.account # None THEN SaveCredentials(z) ELSE {z})
                      \cup (IF CanFault(z) THEN {Torn(z)} ELSE {})
                 ELSE {z} : disk' = y.disk /\ app' = y.app /\ past' = y.past
  <2>1. \E y \in UNION {IF z.app.up
                         THEN (IF ~b THEN ClearSavedCredentials(z)
                               ELSE IF z.app.account # None THEN SaveCredentials(z) ELSE {z})
                              \cup (IF CanFault(z) THEN {Torn(z)} ELSE {})
                         ELSE {z} : z \in Save(x)} :
           disk' = y.disk /\ app' = y.app /\ past' = y.past
    BY <1>2 DEF SetKeepSignedIn, Become, Then
  <2> HIDE DEF x
  <2> QED
    BY <2>1
<1>5. PICK y \in IF z.app.up
                 THEN (IF ~b THEN ClearSavedCredentials(z)
                       ELSE IF z.app.account # None THEN SaveCredentials(z) ELSE {z})
                      \cup (IF CanFault(z) THEN {Torn(z)} ELSE {})
                 ELSE {z} : disk' = y.disk /\ app' = y.app /\ past' = y.past
  BY <1>4
<1> HIDE DEF x
<1>6. Good(z) /\ Fair(z) /\ z \in Worlds /\ Kept(x, z)
  BY <1>3, <1>4, SaveIsGood DEF Good, Fair
<1>7. CASE y = z
  <2>1. Good(y) /\ Alive(World, y)
    BY <1>3, <1>6, <1>7 DEF Kept, Alive
  <2> QED
    BY <1>5, <2>1, AliveNext DEF SetKeepSignedIn
<1>8. CASE z.app.up /\ y \in ClearSavedCredentials(z) \cup SaveCredentials(z)
  <2>1. Good(y) /\ Kept(z, y)
    BY <1>6, <1>8, ClearIsGood, SaveCredentialsIsGood
  <2>2. Alive(World, y)
    BY <1>3, <1>6, <1>8, <2>1 DEF Kept, Alive
  <2> QED
    BY <1>5, <2>1, <2>2, AliveNext DEF SetKeepSignedIn
<1>9. CASE CanFault(z) /\ y = Torn(z)
  <2>1. Good(y) /\ ~y.app.up
    BY <1>6, <1>9, TornIsGood DEF Fair
  <2>2. Alive(World, y)
    BY <2>1 DEF Alive
  <2> QED
    BY <1>5, <2>1, <2>2, AliveNext DEF SetKeepSignedIn
<1> QED
  BY <1>5, <1>7, <1>8, <1>9

\* The session as it is stored, before its credentials are.
LEMMA SetSession ==
  ASSUME NEW x \in Worlds, Saved(x), NEW a \in Accounts \cup {None}
  PROVE  LET y == [x EXCEPT !.app.account = a, !.past.last = a]
         IN  /\ y \in Worlds /\ Fair(y) /\ y.app.up = x.app.up /\ y.app.account = a
             /\ y.past.last = a
<1> DEFINE p == [x.past EXCEPT !.last = a]
           b == [x.app EXCEPT !.account = a]
           y == [x EXCEPT !.app = b, !.past = p]
<1>1. /\ p \in Pasts /\ p.last = a /\ p.recent = x.past.recent /\ p.durable = x.past.durable
      /\ b \in Apps /\ b.account = a /\ b.up = x.app.up
  BY DEF Worlds, Pasts, Apps
<1>2. [x EXCEPT !.app.account = a, !.past.last = a] = y
  BY DEF Worlds
<1> HIDE DEF p, b
<1>3. y \in Worlds /\ y.app = b /\ y.past = p /\ y.disk = x.disk
  BY <1>1 DEF Worlds
<1> HIDE DEF y
<1>4. Fair(y)
  BY <1>1, <1>3 DEF Fair, Honest, Saved
<1> QED
  BY <1>1, <1>2, <1>3, <1>4

LEMMA SetAuthStep ==
  ASSUME IInv, NEW a \in Accounts, SetAuth(a)
  PROVE  Kind
<1> DEFINE x == [World EXCEPT !.app.account = a, !.past.last = a]
<1>1. x \in Worlds /\ Fair(x) /\ x.app.up /\ x.app.account = a
  BY WorldFacts, SetSession DEF SetAuth
<1>2. PICK y \in SaveCredentials(x) \cup ClearSavedCredentials(x) :
        disk' = y.disk /\ app' = y.app /\ past' = y.past
  BY DEF SetAuth, Become
<1> HIDE DEF x
<1>3. Good(y) /\ Kept(x, y)
  BY <1>1, <1>2, SaveCredentialsIsGood, ClearIsGood
<1>4. Alive(World, y)
  BY <1>1, <1>3, AccountsAssumption DEF Alive, Kept, None
<1> QED
  BY <1>2, <1>3, <1>4, AliveNext DEF SetAuth

LEMMA ClearAuthStep ==
  ASSUME IInv, ClearAuth
  PROVE  Kind
<1> DEFINE x == [World EXCEPT !.app.account = None, !.past.last = None]
<1>1. x \in Worlds /\ Fair(x) /\ x.app.up /\ x.past.last = None
  BY WorldFacts, SetSession DEF ClearAuth
<1>2. PICK y \in ClearSavedCredentials(x) : disk' = y.disk /\ app' = y.app /\ past' = y.past
  BY DEF ClearAuth, Become
<1> HIDE DEF x
<1>3. Good(y) /\ Kept(x, y)
  BY <1>1, <1>2, ClearIsGood
<1>4. app.up /\ past.last # None
  BY WorldFacts DEF ClearAuth, Honest
<1>5. app'.up => past'.last # past.last
  BY <1>1, <1>2, <1>3, <1>4 DEF Kept
<1> QED
  BY <1>2, <1>3, <1>4, <1>5, GoodNext DEF Kind, KeepsSession, FindsSettings

LEMMA MarkSetupCompleteStep ==
  ASSUME IInv, MarkSetupComplete
  PROVE  Kind
<1>1. /\ disk' = [disk EXCEPT !.marker = TRUE] /\ app' = app /\ past' = past /\ app.up
  BY DEF MarkSetupComplete
<1>2. /\ disk' \in Disks /\ disk'.primary = disk.primary /\ disk'.backup = disk.backup
      /\ disk'.env = disk.env /\ disk'.store = disk.store
  BY <1>1, WorldFacts DEF Disks
<1> DEFINE d == disk'
<1>3. PICK y : y = [disk |-> d, app |-> app, past |-> past]
  OBVIOUS
<1>4. y \in Worlds /\ Alike(World, y) /\ disk' = y.disk /\ app' = y.app /\ past' = y.past
  BY <1>1, <1>2, <1>3, WorldFacts
     DEF Worlds, Alike, SameFiles, SameSession, SameStores, SameHistory
<1>5. Good(y) /\ Kept(World, y)
  BY <1>4, WorldFacts, AlikeIsGood
<1> QED
  BY <1>1, <1>4, <1>5, AliveNext DEF Kept, Alive

\* What only the launcher's own timers and watches are about.
LEMMA AppNext ==
  ASSUME IInv, app.up, app' \in Apps, app'.up = app.up, app'.account = app.account,
         app'.values = app.values, app'.available = app.available, UNCHANGED <<disk, past>>
  PROVE  Kind
<1> DEFINE a == app'
<1>1. PICK y : y = [disk |-> disk, app |-> a, past |-> past]
  OBVIOUS
<1>2. /\ y \in Worlds /\ Alike(World, y)
      /\ disk' = y.disk /\ app' = y.app /\ past' = y.past
  BY <1>1, WorldFacts DEF Worlds, Alike, SameFiles, SameSession, SameStores, SameHistory
<1>3. Good(y) /\ Kept(World, y)
  BY <1>2, WorldFacts, AlikeIsGood
<1> QED
  BY <1>2, <1>3, AliveNext DEF Kept, Alive

LEMMA ScheduleReloadStep ==
  ASSUME IInv, ScheduleReload
  PROVE  Kind
<1>1. app' = [app EXCEPT !.event = FALSE, !.timer = TRUE] /\ UNCHANGED <<disk, past>>
  BY DEF ScheduleReload
<1>2. /\ app' \in Apps /\ app'.up = app.up /\ app'.account = app.account
      /\ app'.values = app.values /\ app'.available = app.available
  BY <1>1, WorldFacts DEF Apps
<1> QED
  BY <1>1, <1>2, AppNext DEF ScheduleReload

LEMMA ReloadNext ==
  ASSUME IInv, app.up, NEW x \in Worlds, Alike(World, x), NEW force \in BOOLEAN,
         Become(ReloadFromDisk(Watching(x), force))
  PROVE  Kind
<1>1. PICK y \in ReloadFromDisk(Watching(x), force) :
        disk' = y.disk /\ app' = y.app /\ past' = y.past
  BY DEF Become
<1>2. Good(x) /\ x.app.up /\ x.app.account = app.account
  BY WorldFacts, AlikeIsGood DEF Alike, SameSession
<1>3. /\ Watching(x) \in Worlds /\ Good(Watching(x)) /\ Watching(x).app.up
      /\ Watching(x).app.account = app.account
  BY <1>2, WatchingFacts, WatchedOrRemembered DEF Alike, SameSession
<1>4. Good(y) /\ Alive(Watching(x), y)
  BY <1>1, <1>3, ReloadIsGood
<1>5. Alive(World, y)
  BY <1>3, <1>4, WorldFacts DEF Alive
<1> QED
  BY <1>1, <1>4, <1>5, AliveNext

LEMMA ReloadTimerStep ==
  ASSUME IInv, ReloadTimer
  PROVE  Kind
<1> DEFINE a == [app EXCEPT !.timer = FALSE]
           x == [World EXCEPT !.app.timer = FALSE]
<1>1. /\ a \in Apps /\ a.up = app.up /\ a.account = app.account /\ a.values = app.values
      /\ a.available = app.available
  BY WorldFacts DEF Apps
<1>2. x = [World EXCEPT !.app = a]
  BY WorldFacts DEF World
<1> HIDE DEF a
<1>3. x \in Worlds /\ Alike(World, x)
  BY <1>1, <1>2, WorldFacts, AppFacts
<1>4. app.up /\ Become(ReloadFromDisk(Watching(x), FALSE))
  BY DEF ReloadTimer
<1> HIDE DEF x
<1> QED
  BY <1>3, <1>4, ReloadNext

LEMMA IntegrityTimerStep ==
  ASSUME IInv, IntegrityTimer
  PROVE  Kind
<1>1. Alike(World, World)
  BY DEF Alike, SameFiles, SameSession, SameStores, SameHistory
<1> QED
  BY <1>1, ReloadNext, WorldFacts DEF IntegrityTimer

LEMMA QuitStep ==
  ASSUME IInv, Quit
  PROVE  Kind
<1>1. PICK y : y = Dead(World)
  OBVIOUS
<1>2. /\ y \in Worlds /\ y.disk = disk /\ y.past = past /\ ~y.app.up /\ y.app.account = None
      /\ disk' = y.disk /\ app' = y.app /\ past' = y.past
  BY <1>1, WorldFacts, DeadFacts DEF Quit, Become
<1>3. Good(y)
  BY <1>2, WorldFacts DEF Good, Fair, Honest, Owned, Saved, Leftover
<1> QED
  BY <1>2, <1>3, AliveNext DEF Quit, Alive

(***************************************************************************)
(* Starting                                                                *)
(***************************************************************************)
LEMMA LoadedIsFindable ==
  ASSUME IInv
  PROVE  Normal(Loaded(World)) \in Findable /\ Loaded(World) \in Documents
<1>1. /\ disk.primary \in Documents \cup {Gone, Bad} /\ disk.backup \in Documents \cup {Gone}
      /\ past.durable \in Documents \cup {Gone}
  BY WorldFacts DEF Disks, Pasts
<1>2. /\ disk.primary \in Documents => disk.primary \in past.recent \cup {past.durable}
      /\ disk.backup # Gone => disk.backup \in past.recent \cup {past.durable}
      /\ past.durable # Gone => disk.backup # Gone
  BY WorldFacts DEF Saved
<1>3. Normal(Defaults) = Defaults
  BY DEF Normal, Defaults
<1>4. Loaded(World) = IF disk.primary \in Documents THEN disk.primary
                      ELSE IF disk.marker /\ disk.backup # Gone THEN disk.backup
                      ELSE Defaults
  BY WorldFacts DEF Loaded
<1>5. CASE disk.primary \in Documents
  BY <1>2, <1>4, <1>5, DocumentFacts DEF Findable
<1>6. CASE disk.primary \notin Documents /\ disk.marker /\ disk.backup # Gone
  BY <1>1, <1>2, <1>4, <1>6 DEF Findable
<1>7. CASE disk.primary \notin Documents /\ ~(disk.marker /\ disk.backup # Gone)
  BY <1>2, <1>3, <1>4, <1>7, DocumentFacts DEF Findable
<1> QED
  BY <1>5, <1>6, <1>7

\* The launcher as its constructor begins.
LEMMA BegunIsGood ==
  ASSUME IInv, NEW available \in {TRUE} \cup {b \in {FALSE} : CanFault(World)}
  PROVE  LET x == [World EXCEPT !.app.up = TRUE, !.app.values = Normal(Loaded(World)),
                                !.app.available = available,
                                !.past.faults = IF available THEN @ ELSE @ + 1]
         IN  /\ x \in Worlds /\ Good(x) /\ x.app.up /\ x.app.values = Normal(Loaded(World))
<1> DEFINE v == Normal(Loaded(World))
           n == IF available THEN past.faults ELSE past.faults + 1
           a == [app EXCEPT !.up = TRUE, !.values = v, !.available = available]
           p == [past EXCEPT !.faults = n]
           y == [World EXCEPT !.app = a, !.past = p]
<1>1. v \in Documents /\ available \in BOOLEAN
  BY LoadedIsFindable, DocumentFacts
<1>2. n \in 0 .. MaxFaults
  <2>1. past.faults \in 0 .. MaxFaults /\ (CanFault(World) => past.faults < MaxFaults)
    BY WorldFacts DEF Pasts, CanFault
  <2>2. CASE available
    BY <2>1, <2>2
  <2>3. CASE ~available
    <3>1. CanFault(World)
      BY <2>3
    <3> QED
      BY <2>1, <2>3, <3>1, FaultsAssumption
  <2> QED
    BY <2>2, <2>3
<1>3. [World EXCEPT !.app.up = TRUE, !.app.values = v, !.app.available = available,
                    !.past.faults = IF available THEN @ ELSE @ + 1] = y
  BY WorldFacts DEF World
<1> HIDE DEF v, n
<1>4. /\ a \in Apps /\ a.up = TRUE /\ a.values = v /\ a.account = app.account
      /\ p \in Pasts /\ p.last = past.last /\ p.stale = past.stale
      /\ p.recent = past.recent /\ p.durable = past.durable
  BY <1>1, <1>2, WorldFacts DEF Apps, Pasts
<1> HIDE DEF a, p
<1>5. y \in Worlds /\ y.app = a /\ y.past = p /\ y.disk = disk
  BY <1>4, WorldFacts DEF Worlds, World
<1> HIDE DEF y
<1>6. Good(y)
  BY <1>4, <1>5, WorldFacts DEF Good, Fair, Honest, Owned, Saved, Leftover
<1> QED
  BY <1>3, <1>4, <1>5, <1>6 DEF v

\* The session that a start finds, if the user wants to stay signed in.
LEMMA StartSession ==
  ASSUME NEW x \in Worlds, Good(x), x.app.up,
         NEW y, y \in (IF x.app.values.keep THEN {Adopt(z) : z \in LoadCredentials(x)}
                       ELSE ClearSavedCredentials(x))
  PROVE  /\ Good(y) /\ (y.app.up => y.app.values = x.app.values)
<1>1. CASE ~x.app.values.keep
  BY <1>1, ClearIsGood DEF Good, Kept
<1>2. CASE x.app.values.keep
  <2>1. PICK z \in LoadCredentials(x) : y = Adopt(z)
    BY <1>2
  <2>2. z \in Worlds
    BY LoadFacts
  <2>3. [z EXCEPT !.app.account = z.app.account] = z
    BY <2>2 DEF Worlds, Apps
  <2>4. y = Adopt([z EXCEPT !.app.account = z.app.account])
    BY <2>1, <2>3
  <2> QED
    BY <2>4, FoundIsGood
<1> QED
  BY <1>1, <1>2

LEMMA StartStep ==
  ASSUME IInv, Start
  PROVE  Kind
<1>1. PICK available \in {TRUE} \cup {b \in {FALSE} : CanFault(World)} :
        LET x == [World EXCEPT !.app.up = TRUE, !.app.values = Normal(Loaded(World)),
                               !.app.available = available,
                               !.past.faults = IF available THEN @ ELSE @ + 1]
            Adopted(z) == {Adopt(z)}
            Session == IF x.app.values.keep
                       THEN UNION {Adopted(z) : z \in LoadCredentials(x)}
                       ELSE ClearSavedCredentials(x)
            Write(z) == IF disk.primary \in Documents \/ disk.marker THEN Save(z) ELSE {z}
            Watch(z) == {[Watching(z) EXCEPT !.app.seen = z.disk.primary]}
        IN  Become(Then(Then(Session, Write), Watch))
  BY DEF Start
<1>2. PICK x \in Worlds :
        /\ x = [World EXCEPT !.app.up = TRUE, !.app.values = Normal(Loaded(World)),
                             !.app.available = available,
                             !.past.faults = IF available THEN @ ELSE @ + 1]
        /\ Good(x) /\ x.app.up /\ x.app.values = Normal(Loaded(World))
  BY BegunIsGood
<1>3. PICK S : S = IF x.app.values.keep THEN {Adopt(z) : z \in LoadCredentials(x)}
                   ELSE ClearSavedCredentials(x)
  OBVIOUS
<1>4. PICK T : T = UNION {IF z.app.up
                          THEN (IF disk.primary \in Documents \/ disk.marker THEN Save(z) ELSE {z})
                               \cup (IF CanFault(z) THEN {Torn(z)} ELSE {})
                          ELSE {z} : z \in S}
  OBVIOUS
<1>5. PICK z \in T :
        \E y \in IF z.app.up
                 THEN {[Watching(z) EXCEPT !.app.seen = z.disk.primary]}
                      \cup (IF CanFault(z) THEN {Torn(z)} ELSE {})
                 ELSE {z} : disk' = y.disk /\ app' = y.app /\ past' = y.past
  <2>1. (IF x.app.values.keep THEN UNION {{Adopt(z)} : z \in LoadCredentials(x)}
         ELSE ClearSavedCredentials(x)) = S
    BY <1>3
  <2>2. \E y \in UNION {IF z.app.up
                        THEN {[Watching(z) EXCEPT !.app.seen = z.disk.primary]}
                             \cup (IF CanFault(z) THEN {Torn(z)} ELSE {})
                        ELSE {z} : z \in T} : disk' = y.disk /\ app' = y.app /\ past' = y.past
    BY <1>1, <1>2, <1>4, <2>1 DEF Become, Then
  <2> QED
    BY <2>2
<1>6. PICK y \in IF z.app.up
                 THEN {[Watching(z) EXCEPT !.app.seen = z.disk.primary]}
                      \cup (IF CanFault(z) THEN {Torn(z)} ELSE {})
                 ELSE {z} : disk' = y.disk /\ app' = y.app /\ past' = y.past
  BY <1>5
<1>7. PICK s \in S :
        z \in IF s.app.up
              THEN (IF disk.primary \in Documents \/ disk.marker THEN Save(s) ELSE {s})
                   \cup (IF CanFault(s) THEN {Torn(s)} ELSE {})
              ELSE {s}
  BY <1>4
<1>8. s \in Worlds /\ Good(s) /\ Fair(s) /\ (s.app.up => s.app.values = x.app.values)
  BY <1>2, <1>3, <1>7, StartSession DEF Good, Fair
<1>9. z \in Worlds /\ Good(z) /\ Fair(z) /\ (z.app.up => z.app.values = x.app.values)
  <2>1. CASE z = s
    BY <1>8, <2>1
  <2>2. CASE s.app.up /\ z \in Save(s)
    BY <1>8, <2>2, SaveIsGood DEF Good, Fair, Kept
  <2>3. CASE CanFault(s) /\ z = Torn(s)
    BY <1>8, <2>3, TornIsGood DEF Good, Fair
  <2> QED
    BY <1>7, <2>1, <2>2, <2>3
<1>10. Good(y) /\ (y.app.up => y.app.values = x.app.values)
  <2>1. CASE y = z
    BY <1>9, <2>1
  <2>2. CASE CanFault(z) /\ y = Torn(z)
    BY <1>9, <2>2, TornIsGood DEF Good, Fair
  <2>3. CASE y = [Watching(z) EXCEPT !.app.seen = z.disk.primary]
    <3> DEFINE w == Watching(z)
               a == [w.app EXCEPT !.seen = z.disk.primary]
    <3>1. w \in Worlds /\ Good(w) /\ Alike(z, w)
      BY <1>9, WatchingFacts, WatchedOrRemembered
    <3>2. z.disk.primary \in Documents \cup {Gone, Bad}
      BY <1>9 DEF Worlds, Disks
    <3>3. y = [w EXCEPT !.app.seen = z.disk.primary]
      BY <2>3
    <3> HIDE DEF w
    <3>4. /\ a \in Apps /\ a.up = w.app.up /\ a.account = w.app.account
          /\ a.values = w.app.values /\ a.available = w.app.available
      BY <3>1, <3>2 DEF Worlds, Apps
    <3>5. y = [w EXCEPT !.app = a]
      BY <3>1, <3>3 DEF Worlds
    <3> HIDE DEF a
    <3>6. y \in Worlds /\ Alike(w, y)
      BY <3>1, <3>4, <3>5, AppFacts
    <3>7. Good(y)
      BY <3>1, <3>6, AlikeIsGood
    <3> QED
      BY <1>9, <3>1, <3>6, <3>7 DEF Alike, SameSession
  <2> QED
    BY <1>6, <2>1, <2>2, <2>3
<1>11. IInv'
  BY <1>6, <1>10, GoodNext
<1>12. ~app.up /\ (app'.up => app'.values \in Findable)
  BY <1>2, <1>6, <1>10, LoadedIsFindable DEF Start
<1> QED
  BY <1>11, <1>12 DEF Kind, KeepsSession, FindsSettings

(***************************************************************************)
(* Resetting                                                               *)
(***************************************************************************)
LEMMA ResetRefusedStep ==
  ASSUME IInv, ResetRefused
  PROVE  Kind
<1> DEFINE f == Faulty(World)
<1>1. CanFault(World) /\ app.up
  BY DEF ResetRefused
<1>2. PICK rewritten \in {TRUE} \cup {b \in {FALSE} : CanFault(f) /\ disk.marker} :
        Become({Watching([(IF rewritten THEN f ELSE Faulty(f)) EXCEPT
                  !.disk.marker = @ /\ rewritten,
                  !.past.absorbed = @ \/ disk.primary # app.seen,
                  !.app.timer = FALSE, !.app.event = FALSE, !.app.unreadable = 0])})
  BY DEF ResetRefused
<1>3. f \in Worlds /\ SameFiles(World, f) /\ SameSession(World, f) /\ SameStores(World, f)
      /\ f.past.stale = past.stale
  BY <1>1, WorldFacts, FaultyFacts
<1> HIDE DEF f
<1>4. PICK g \in Worlds : /\ g = IF rewritten THEN f ELSE Faulty(f)
                          /\ SameFiles(World, g) /\ Steady(World, g)
  <2>1. CASE rewritten
    BY <1>3, <2>1, WorldFacts DEF Steady
  <2>2. CASE ~rewritten
    <3>1. CanFault(f)
      BY <2>2
    <3>2. /\ Faulty(f) \in Worlds /\ SameFiles(f, Faulty(f)) /\ SameSession(f, Faulty(f))
          /\ SameStores(f, Faulty(f)) /\ Faulty(f).past.stale = f.past.stale
      BY <1>3, <3>1, FaultyFacts
    <3> QED
      BY <1>3, <2>2, <3>2, WorldFacts DEF SameFiles, SameSession, SameStores, Steady
  <2> QED
    BY <2>1, <2>2
<1>5. PICK m \in BOOLEAN : m = (g.disk.marker /\ rewritten)
  BY DEF Worlds, Disks
<1>6. PICK b \in BOOLEAN : b = (g.past.absorbed \/ disk.primary # app.seen)
  BY DEF Worlds, Pasts
<1> DEFINE d == [g.disk EXCEPT !.marker = m]
           p == [g.past EXCEPT !.absorbed = b]
           a == [g.app EXCEPT !.timer = FALSE, !.event = FALSE, !.unreadable = 0]
           h == [g EXCEPT !.disk = d, !.past = p, !.app = a]
<1>7. /\ d \in Disks /\ d.primary = g.disk.primary /\ d.backup = g.disk.backup
      /\ d.env = g.disk.env /\ d.store = g.disk.store
      /\ p \in Pasts /\ p.last = g.past.last /\ p.stale = g.past.stale
      /\ p.recent = g.past.recent /\ p.durable = g.past.durable
      /\ a \in Apps /\ a.up = g.app.up /\ a.account = g.app.account
      /\ a.values = g.app.values /\ a.available = g.app.available
  <2>1. /\ d \in Disks /\ d.primary = g.disk.primary /\ d.backup = g.disk.backup
        /\ d.env = g.disk.env /\ d.store = g.disk.store
    BY DEF Worlds, Disks
  <2>2. /\ p \in Pasts /\ p.last = g.past.last /\ p.stale = g.past.stale
        /\ p.recent = g.past.recent /\ p.durable = g.past.durable
    BY DEF Worlds, Pasts
  <2>3. /\ a \in Apps /\ a.up = g.app.up /\ a.account = g.app.account
        /\ a.values = g.app.values /\ a.available = g.app.available
    <3>1. g.app \in Apps /\ 0 \in 0 .. 2
      BY DEF Worlds
    <3> QED
      BY <3>1 DEF Apps
  <2> QED
    BY <2>1, <2>2, <2>3
<1>8. [g EXCEPT !.disk.marker = @ /\ rewritten,
                !.past.absorbed = @ \/ disk.primary # app.seen,
                !.app.timer = FALSE, !.app.event = FALSE, !.app.unreadable = 0] = h
  BY <1>5, <1>6 DEF Worlds
<1> HIDE DEF d, p, a
<1>9. h \in Worlds /\ h.disk = d /\ h.past = p /\ h.app = a
  BY <1>7 DEF Worlds
<1>10. PICK y : y = Watching(h)
  OBVIOUS
<1>11. disk' = y.disk /\ app' = y.app /\ past' = y.past
  BY <1>2, <1>4, <1>8, <1>10 DEF Become
<1> HIDE DEF h
<1>12. SameFiles(World, h) /\ Steady(World, h)
  BY <1>4, <1>7, <1>9 DEF SameFiles, Steady, SameSession, SameStores
<1>13. Good(h) /\ Kept(World, h)
  BY <1>9, <1>12, WorldFacts, FilesSaved, SteadyIsGood
<1>14. y \in Worlds /\ Good(y) /\ Kept(h, y)
  BY <1>9, <1>10, <1>13, WatchingFacts, AlikeIsGood
<1>15. Alive(World, y)
  BY <1>10, <1>9, <1>13, WatchingFacts DEF Kept, Alive, Alike, SameSession
<1> QED
  BY <1>1, <1>11, <1>14, <1>15, AliveNext

LEMMA ResetCutOffStep ==
  ASSUME IInv, ResetCutOff
  PROVE  Kind
<1> DEFINE d == [disk EXCEPT !.marker = FALSE]
           x == [World EXCEPT !.disk.marker = FALSE]
<1>1. /\ d \in Disks /\ d.primary = disk.primary /\ d.backup = disk.backup
      /\ d.env = disk.env /\ d.store = disk.store
  BY WorldFacts DEF Disks
<1>2. x = [World EXCEPT !.disk = d]
  BY WorldFacts DEF Worlds
<1> HIDE DEF d
<1>3. x \in Worlds /\ x.disk = d /\ x.app = app /\ x.past = past
  BY <1>1, <1>2, WorldFacts DEF Worlds
<1>4. CanFault(x) /\ app.up /\ Become({Dead(Faulty(x))})
  BY <1>3, WorldFacts DEF ResetCutOff, CanFault
<1> HIDE DEF x
<1>5. PICK f \in Worlds : /\ f = Faulty(x) /\ f.disk = d /\ SameFiles(x, f)
                         /\ f.past.last = past.last /\ f.past.stale = past.stale
  BY <1>3, <1>4, FaultyFacts DEF SameSession
<1>6. PICK y \in Worlds : /\ y = Dead(f) /\ y.disk = d /\ y.past = f.past /\ ~y.app.up
                         /\ y.app.account = None
  BY <1>5, DeadFacts
<1>7. disk' = y.disk /\ app' = y.app /\ past' = y.past
  BY <1>4, <1>5, <1>6 DEF Become
<1>8. Saved(y)
  BY <1>1, <1>3, <1>5, <1>6, WorldFacts DEF Saved, SameFiles
<1>9. Owned(y)
  BY <1>1, <1>5, <1>6, WorldFacts DEF Good, Owned, Leftover
<1>10. Good(y)
  BY <1>6, <1>8, <1>9 DEF Good, Fair, Honest
<1> QED
  BY <1>4, <1>6, <1>7, <1>10, AliveNext DEF Alive

\* config.json has been removed; then the rest of the data is, or stays.
LEMMA RemovedIsSaved ==
  ASSUME NEW x \in Worlds, Saved(x), x.disk.primary = Gone, x.past.durable = Gone,
         NEW y, y \in {[x EXCEPT !.disk.backup = Gone, !.past.recent = {}]}
                      \cup IF x.disk.backup # Gone /\ CanFault(x) THEN {Faulty(x)} ELSE {}
  PROVE  /\ y \in Worlds /\ Saved(y) /\ SameSession(x, y) /\ SameStores(x, y)
         /\ y.past.faults \in {x.past.faults, x.past.faults + 1}
<1>1. \/ y = [x EXCEPT !.disk.backup = Gone, !.past.recent = {}]
      \/ CanFault(x) /\ y = Faulty(x)
  OBVIOUS
<1>2. CASE y = [x EXCEPT !.disk.backup = Gone, !.past.recent = {}]
  <2> DEFINE d == [x.disk EXCEPT !.backup = Gone]
             p == [x.past EXCEPT !.recent = {}]
  <2>1. /\ d \in Disks /\ d.primary = Gone /\ d.backup = Gone /\ d.env = x.disk.env
        /\ d.store = x.disk.store
        /\ p \in Pasts /\ p.last = x.past.last /\ p.durable = Gone
        /\ p.faults = x.past.faults
    BY DEF Worlds, Disks, Pasts
  <2>2. y = [x EXCEPT !.disk = d, !.past = p]
    BY <1>2 DEF Worlds
  <2> HIDE DEF d, p
  <2>3. y \in Worlds /\ y.disk = d /\ y.past = p /\ y.app = x.app
    BY <2>1, <2>2 DEF Worlds
  <2> QED
    BY <2>1, <2>3, DocumentFacts DEF Saved, SameSession, SameStores
<1>3. CASE CanFault(x) /\ y = Faulty(x)
  BY <1>3, FaultyFacts, FilesSaved
<1> QED
  BY <1>1, <1>2, <1>3

\* How a reset ends: nobody is signed in, and what has stayed is known.
LEMMA ResetEndsGood ==
  ASSUME NEW x \in Worlds, x.app.account = None, x.past.last = None,
         NEW z \in Worlds, Saved(z), SameSession(x, z),
         z.past.faults \in {x.past.faults, x.past.faults + 1, x.past.faults + 2,
                            x.past.faults + 3},
         z.past.faults = x.past.faults /\ z.app.available => ~Leftover(z)
  PROVE  LET y == [Settled(x, z) EXCEPT !.app.values = Defaults, !.app.seen = Gone,
                                        !.app.failed = FALSE]
         IN  Good(y) /\ y.past.last = None
<1> DEFINE s == IF z.past.faults > x.past.faults \/ ~z.app.available THEN Leftover(z) ELSE FALSE
           w == [z EXCEPT !.past.stale = s]
           a == [w.app EXCEPT !.values = Defaults, !.seen = Gone, !.failed = FALSE]
           y == [w EXCEPT !.app.values = Defaults, !.app.seen = Gone, !.app.failed = FALSE]
<1>1. s \in BOOLEAN
  BY LeftoverFacts
<1>2. s \/ ~Leftover(z)
  <2>1. x.past.faults \in Nat
    BY DEF Worlds, Pasts
  <2> QED
    BY <2>1
<1>3. Settled(x, z) = w
  BY DEF Settled
<1> HIDE DEF s
<1>4. w \in Worlds /\ w.past.stale = s /\ SameFiles(z, w) /\ SameSession(z, w) /\ SameStores(z, w)
  BY <1>1, StaleFacts
<1> HIDE DEF w
<1>5. a \in Apps /\ a.account = None
  BY <1>4, DocumentFacts DEF Worlds, Apps, SameSession
<1>6. y = [w EXCEPT !.app = a]
  BY <1>4 DEF Worlds
<1> HIDE DEF a
<1>7. y \in Worlds /\ y.disk = w.disk /\ y.past = w.past /\ y.app = a
  BY <1>4, <1>5, <1>6 DEF Worlds
<1> HIDE DEF y
<1>8. Saved(y)
  BY <1>4, <1>7 DEF SameFiles, Saved
<1>9. Leftover(y) = Leftover(z)
  BY <1>4, <1>7 DEF SameSession, SameStores, Leftover
<1>10. Owned(y) /\ Honest(y) /\ y.past.last = None
  <2>1. y.past.last = None
    BY <1>4, <1>7 DEF SameSession
  <2>2. y.past.stale = s
    BY <1>4, <1>7
  <2>3. Owned(y)
    BY <1>2, <1>9, <2>2 DEF Owned
  <2> QED
    BY <1>5, <1>7, <2>1, <2>3 DEF Honest
<1> QED
  BY <1>3, <1>7, <1>8, <1>10 DEF Good, Fair, y

\* EXCEPT, one field after the other.
LEMMA Rebuilt ==
  ASSUME NEW w \in Worlds, NEW b \in Apps, NEW q \in Pasts
  PROVE  [w EXCEPT !.app = b, !.past = q] = [disk |-> w.disk, app |-> b, past |-> q]
<1> DEFINE u == [w EXCEPT !.app = b, !.past = q]
<1>1. u \in Worlds /\ u.disk = w.disk /\ u.app = b /\ u.past = q
  BY DEF Worlds
<1> HIDE DEF u
<1>2. u = [disk |-> w.disk, app |-> b, past |-> q]
  BY <1>1, WorldFields
<1> QED
  BY <1>2 DEF u

\* The wiping of the credentials and the data, up to its last step.
LEMMA Wiped ==
  ASSUME NEW x \in Worlds, Saved(x), x.app.up, x.disk.primary = Gone, x.past.durable = Gone,
         NEW a \in ClearStore(x),
         NEW b, b \in (IF a.app.up THEN RemoveEnv(a) \cup (IF CanFault(a) THEN {Torn(a)} ELSE {})
                       ELSE {a}),
         NEW z, z \in (IF b.app.up
                       THEN ({[b EXCEPT !.disk.backup = Gone, !.past.recent = {}]}
                             \cup IF b.disk.backup # Gone /\ CanFault(b) THEN {Faulty(b)} ELSE {})
                            \cup (IF CanFault(b) THEN {Torn(b)} ELSE {})
                       ELSE {b})
  PROVE  \/ Good(z) /\ ~z.app.up
         \/ /\ z \in Worlds /\ Saved(z) /\ SameSession(x, z)
            /\ z.past.faults \in {x.past.faults, x.past.faults + 1, x.past.faults + 2,
                                  x.past.faults + 3}
            /\ z.past.faults = x.past.faults /\ z.app.available => ~Leftover(z)
<1>1. /\ a \in Worlds /\ SameFiles(x, a) /\ SameSession(x, a) /\ a.app.up /\ Saved(a)
      /\ \/ a.disk.store = None /\ a.past.faults = x.past.faults
         \/ a.past.faults = x.past.faults + 1
         \/ a.past.faults = x.past.faults /\ ~a.app.available
  BY ClearStoreFacts, FilesSaved DEF SameSession
<1>2. CASE CanFault(a) /\ b = Torn(a)
  BY <1>1, <1>2, TornIsGood
<1>3. CASE b \in RemoveEnv(a)
  <2>1. /\ b \in Worlds /\ SameFiles(a, b) /\ SameSession(a, b) /\ b.disk.store = a.disk.store
        /\ \/ b.disk.env = None /\ b.past.faults = a.past.faults
           \/ b.past.faults = a.past.faults + 1
    BY <1>1, <1>3, RemoveEnvFacts
  <2>2. Saved(b) /\ SameSession(x, b) /\ b.disk.primary = Gone /\ b.past.durable = Gone /\ b.app.up
    BY <1>1, <2>1, FilesSaved DEF SameFiles, SameSession
  <2>3. CASE CanFault(b) /\ z = Torn(b)
    BY <2>1, <2>2, <2>3, TornIsGood
  <2>4. CASE z \in {[b EXCEPT !.disk.backup = Gone, !.past.recent = {}]}
                   \cup IF b.disk.backup # Gone /\ CanFault(b) THEN {Faulty(b)} ELSE {}
    <3>1. /\ z \in Worlds /\ Saved(z) /\ SameSession(b, z) /\ SameStores(b, z)
          /\ z.past.faults \in {b.past.faults, b.past.faults + 1}
      BY <2>1, <2>2, <2>4, RemovedIsSaved
    <3>2. SameSession(x, z) /\ z.app.available = a.app.available
      BY <2>1, <2>2, <3>1 DEF SameSession
    <3>3. x.past.faults \in Nat
      BY DEF Worlds, Pasts
    <3>4. z.past.faults \in {x.past.faults, x.past.faults + 1, x.past.faults + 2,
                             x.past.faults + 3}
      BY <1>1, <2>1, <3>1, <3>3
    <3>5. z.past.faults = x.past.faults /\ z.app.available
            => z.disk.env = None /\ z.disk.store = None
      BY <1>1, <2>1, <3>1, <3>2, <3>3 DEF SameStores
    <3> QED
      BY <3>1, <3>2, <3>4, <3>5, LeftoverFacts
  <2> QED
    BY <2>2, <2>3, <2>4
<1> QED
  BY <1>1, <1>2, <1>3

LEMMA ResetStep ==
  ASSUME IInv, Reset
  PROVE  Kind
<1> DEFINE d == [disk EXCEPT !.marker = FALSE, !.primary = Gone]
           a == [app EXCEPT !.account = None, !.timer = FALSE, !.event = FALSE,
                            !.watched = FALSE, !.unreadable = 0]
           p == [past EXCEPT !.last = None, !.durable = Gone, !.absorbed = FALSE,
                             !.recent = {disk.backup} \ {Gone}]
           RemoveData(z) == {[z EXCEPT !.disk.backup = Gone, !.past.recent = {}]}
             \cup IF z.disk.backup # Gone /\ CanFault(z) THEN {Faulty(z)} ELSE {}
<1>1. app.up
  BY DEF Reset
<1>2. disk.backup \in Documents \cup {Gone}
  BY WorldFacts DEF Disks
<1>3. /\ d \in Disks /\ d.primary = Gone /\ d.backup = disk.backup
      /\ a \in Apps /\ a.up = TRUE /\ a.account = None
      /\ p \in Pasts /\ p.last = None /\ p.durable = Gone /\ p.recent = {disk.backup} \ {Gone}
  <2>1. {disk.backup} \ {Gone} \in SUBSET Documents
    BY <1>2
  <2>2. 0 \in 0 .. 2
    OBVIOUS
  <2>3. /\ d \in Disks /\ d.primary = Gone /\ d.backup = disk.backup
    BY WorldFacts DEF Disks
  <2>4. a \in Apps /\ a.up = TRUE /\ a.account = None
    BY <1>1, <2>2, WorldFacts DEF Apps
  <2>5. p \in Pasts /\ p.last = None /\ p.durable = Gone /\ p.recent = {disk.backup} \ {Gone}
    BY <2>1, WorldFacts DEF Pasts
  <2> QED
    BY <2>3, <2>4, <2>5
<1>4. PICK x : x = [disk |-> d, app |-> a, past |-> p]
  OBVIOUS
<1>5. [World EXCEPT !.disk.marker = FALSE, !.disk.primary = Gone,
                    !.app = [@ EXCEPT !.account = None, !.timer = FALSE, !.event = FALSE,
                                      !.watched = FALSE, !.unreadable = 0],
                    !.past = [@ EXCEPT !.last = None, !.durable = Gone, !.absorbed = FALSE,
                                       !.recent = {disk.backup} \ {Gone}]] = x
  <2>1. PICK w : w = [World EXCEPT !.disk.marker = FALSE, !.disk.primary = Gone]
    OBVIOUS
  <2>2. w = [disk |-> d, app |-> app, past |-> past]
    BY <2>1, WorldFacts DEF World, Disks
  <2> HIDE DEF d
  <2>3. [w EXCEPT !.app = [@ EXCEPT !.account = None, !.timer = FALSE, !.event = FALSE,
                                    !.watched = FALSE, !.unreadable = 0],
                  !.past = [@ EXCEPT !.last = None, !.durable = Gone, !.absorbed = FALSE,
                                     !.recent = {disk.backup} \ {Gone}]]
          = [w EXCEPT !.app = a, !.past = p]
    BY <2>2
  <2> HIDE DEF a, p
  <2>4. w \in Worlds /\ w.disk = d
    BY <1>3, <2>2, WorldFacts DEF Worlds
  <2>5. [w EXCEPT !.app = a, !.past = p] = x
    BY <1>3, <1>4, <2>4, Rebuilt
  <2> QED
    BY <2>1, <2>3, <2>5
<1> HIDE DEF d, a, p
<1>6. /\ x \in Worlds /\ Fair(x) /\ x.app.up /\ x.app.account = None /\ x.past.last = None
      /\ x.past.durable = Gone /\ x.disk.primary = Gone
  BY <1>2, <1>3, <1>4, DocumentFacts DEF Worlds, Fair, Honest, Saved
<1>7. PICK R : R = Then(Then(ClearStore(x), RemoveEnv), RemoveData)
  OBVIOUS
<1>8. PICK z \in R :
        \E y \in IF z.app.up
                 THEN {[Settled(x, z) EXCEPT !.app.values = Defaults, !.app.seen = Gone,
                                             !.app.failed = FALSE]}
                      \cup (IF CanFault(z) THEN {Torn(z)} ELSE {})
                 ELSE {z} : disk' = y.disk /\ app' = y.app /\ past' = y.past
  <2>1. \E y \in UNION {IF z.app.up
                        THEN {[Settled(x, z) EXCEPT !.app.values = Defaults, !.app.seen = Gone,
                                                    !.app.failed = FALSE]}
                             \cup (IF CanFault(z) THEN {Torn(z)} ELSE {})
                        ELSE {z} : z \in R} : disk' = y.disk /\ app' = y.app /\ past' = y.past
    BY <1>5, <1>7 DEF Reset, Become, Then
  <2> QED
    BY <2>1
<1>9. PICK y \in IF z.app.up
                 THEN {[Settled(x, z) EXCEPT !.app.values = Defaults, !.app.seen = Gone,
                                             !.app.failed = FALSE]}
                      \cup (IF CanFault(z) THEN {Torn(z)} ELSE {})
                 ELSE {z} : disk' = y.disk /\ app' = y.app /\ past' = y.past
  BY <1>8
<1>10. Good(y) /\ (y.app.up => y.past.last = None)
  <2>1. PICK b \in Then(ClearStore(x), RemoveEnv) :
          z \in IF b.app.up
                THEN ({[b EXCEPT !.disk.backup = Gone, !.past.recent = {}]}
                      \cup IF b.disk.backup # Gone /\ CanFault(b) THEN {Faulty(b)} ELSE {})
                     \cup (IF CanFault(b) THEN {Torn(b)} ELSE {})
                ELSE {b}
    BY <1>7, <1>8 DEF Then
  <2>2. PICK c \in ClearStore(x) :
          b \in IF c.app.up THEN RemoveEnv(c) \cup (IF CanFault(c) THEN {Torn(c)} ELSE {})
                ELSE {c}
    BY <2>1 DEF Then
  <2>3. \/ Good(z) /\ ~z.app.up
        \/ /\ z \in Worlds /\ Saved(z) /\ SameSession(x, z)
           /\ z.past.faults \in {x.past.faults, x.past.faults + 1, x.past.faults + 2,
                                 x.past.faults + 3}
           /\ z.past.faults = x.past.faults /\ z.app.available => ~Leftover(z)
    BY <1>6, <2>1, <2>2, Wiped DEF Fair
  <2>4. CASE y = z /\ ~z.app.up
    BY <1>6, <2>3, <2>4 DEF SameSession
  <2>5. CASE z.app.up /\ CanFault(z) /\ y = Torn(z)
    BY <2>3, <2>5, TornIsGood
  <2>6. CASE z.app.up /\ y = [Settled(x, z) EXCEPT !.app.values = Defaults, !.app.seen = Gone,
                                                   !.app.failed = FALSE]
    BY <1>6, <2>3, <2>6, ResetEndsGood
  <2> QED
    BY <1>9, <2>4, <2>5, <2>6
<1>11. IInv'
  BY <1>9, <1>10, GoodNext
<1>12. past.last = None => app.account = None
  BY WorldFacts DEF Honest
<1> QED
  BY <1>1, <1>9, <1>10, <1>11, <1>12 DEF Kind, KeepsSession, FindsSettings

(***************************************************************************)
(* What others do to the files                                             *)
(***************************************************************************)
LEMMA OutsideNext ==
  ASSUME IInv, NEW x \in Worlds, Saved(x),
         x.app.up = app.up, x.app.account = app.account,
         x.past.last = past.last, x.past.stale = past.stale, x.past.faults = past.faults,
         x.disk.store = disk.store, x.disk.env \in {disk.env, None},
         Outside(x)
  PROVE  Kind
<1> DEFINE f == Faulty(x)
<1>1. CanFault(x)
  BY WorldFacts DEF Outside, CanFault
<1>2. /\ f \in Worlds /\ f.disk = x.disk /\ f.app = x.app /\ SameFiles(x, f)
      /\ f.past.last = past.last /\ f.past.stale = past.stale
  BY <1>1, FaultyFacts DEF SameSession
<1>3. PICK e \in BOOLEAN : e = (f.app.event \/ (app.up /\ app.watched))
  OBVIOUS
<1> HIDE DEF f
<1> DEFINE a == [f.app EXCEPT !.event = e]
<1>4. a \in Apps /\ a.up = app.up /\ a.account = app.account
  BY <1>2 DEF Worlds, Apps
<1>5. [f EXCEPT !.app.event = @ \/ (app.up /\ app.watched)] = [f EXCEPT !.app = a]
  BY <1>2, <1>3 DEF Worlds
<1>6. PICK y : y = [f EXCEPT !.app = a]
  OBVIOUS
<1>7. disk' = y.disk /\ app' = y.app /\ past' = y.past
  BY <1>5, <1>6 DEF Outside, Become, f
<1> HIDE DEF a
<1>8. y \in Worlds /\ y.disk = x.disk /\ y.app = a /\ y.past = f.past
  BY <1>2, <1>4, <1>6 DEF Worlds
<1>9. Honest(y) /\ Saved(y)
  BY <1>2, <1>4, <1>8, WorldFacts, FilesSaved DEF Honest, SameFiles, Saved
<1>10. Owned(y)
  <2>1. Leftover(y) => Leftover(World)
    BY <1>2, <1>8, WorldFacts DEF Leftover
  <2> QED
    BY <1>2, <1>8, <2>1, WorldFacts DEF Good, Owned
<1>11. IInv'
  BY <1>7, <1>8, <1>9, <1>10, GoodNext DEF Good, Fair
<1>12. app'.up = app.up /\ app'.account = app.account
  BY <1>4, <1>7, <1>8
<1> QED
  BY <1>11, <1>12 DEF Kind, KeepsSession, FindsSettings

\* config.json as others leave it.
LEMMA SetPrimary ==
  ASSUME NEW x \in Worlds, NEW v \in Documents \cup {Gone, Bad}
  PROVE  LET y == [x EXCEPT !.disk.primary = v]
         IN  /\ y \in Worlds /\ y.app = x.app /\ y.past = x.past /\ y.disk.primary = v
             /\ y.disk.backup = x.disk.backup /\ SameStores(x, y)
<1>1. LET d == [x.disk EXCEPT !.primary = v]
      IN  /\ d \in Disks /\ d.primary = v /\ d.backup = x.disk.backup
          /\ d.env = x.disk.env /\ d.store = x.disk.store
  BY DEF Worlds, Disks
<1>2. [x EXCEPT !.disk.primary = v] = [x EXCEPT !.disk = [x.disk EXCEPT !.primary = v]]
  BY DEF Worlds
<1>3. LET y == [x EXCEPT !.disk.primary = v]
      IN  /\ y \in Worlds /\ y.disk = [x.disk EXCEPT !.primary = v]
          /\ y.app = x.app /\ y.past = x.past
  BY <1>1, <1>2 DEF Worlds
<1> QED
  BY <1>1, <1>3 DEF SameStores

LEMMA SpoiltStep ==
  ASSUME IInv, NEW v \in {Gone, Bad}, Outside([World EXCEPT !.disk.primary = v])
  PROVE  Kind
<1> DEFINE x == [World EXCEPT !.disk.primary = v]
<1>1. /\ x \in Worlds /\ x.app = app /\ x.past = past /\ x.disk.primary = v
      /\ x.disk.backup = disk.backup /\ x.disk.env = disk.env /\ x.disk.store = disk.store
  BY WorldFacts, SetPrimary DEF SameStores
<1>2. Outside(x)
  OBVIOUS
<1> HIDE DEF x
<1>3. Saved(x)
  BY <1>1, WorldFacts, DocumentFacts DEF Saved
<1> QED
  BY <1>1, <1>2, <1>3, OutsideNext

LEMMA EditConfigStep ==
  ASSUME IInv, EditConfig
  PROVE  Kind
<1>1. PICK c \in Choices, b \in BOOLEAN :
        LET d == [choice |-> c, keep |-> b]
        IN  Outside([World EXCEPT !.disk.primary = d, !.past.recent = @ \cup {d}])
  BY DEF EditConfig
<1>2. PICK d \in Documents : d = [choice |-> c, keep |-> b]
  BY DEF Documents
<1> DEFINE w == [World EXCEPT !.disk.primary = d]
           p == [past EXCEPT !.recent = @ \cup {d}]
           x == [w EXCEPT !.past = p]
<1>3. /\ w \in Worlds /\ w.app = app /\ w.past = past /\ w.disk.primary = d
      /\ w.disk.backup = disk.backup /\ w.disk.env = disk.env /\ w.disk.store = disk.store
  BY WorldFacts, SetPrimary DEF SameStores
<1>4. [World EXCEPT !.disk.primary = d, !.past.recent = @ \cup {d}] = x
  BY WorldFacts DEF World
<1>5. /\ p \in Pasts /\ p.recent = past.recent \cup {d} /\ p.durable = past.durable
      /\ p.last = past.last /\ p.stale = past.stale /\ p.faults = past.faults
  BY WorldFacts DEF Pasts
<1> HIDE DEF w, p
<1>6. x \in Worlds /\ x.disk = w.disk /\ x.app = w.app /\ x.past = p
  BY <1>3, <1>5 DEF Worlds
<1>7. Outside(x)
  BY <1>1, <1>2, <1>4
<1> HIDE DEF x
<1>8. Saved(x)
  BY <1>3, <1>5, <1>6, WorldFacts DEF Saved
<1> QED
  BY <1>3, <1>5, <1>6, <1>7, <1>8, OutsideNext

LEMMA DeleteDirectoryStep ==
  ASSUME IInv, DeleteDirectory
  PROVE  Kind
<1> DEFINE d == [disk EXCEPT !.primary = Gone, !.backup = Gone, !.env = None]
           a == [app EXCEPT !.watched = FALSE]
           p == [past EXCEPT !.durable = Gone, !.recent = {}]
<1>1. PICK w : w = [World EXCEPT !.disk = [@ EXCEPT !.primary = Gone, !.backup = Gone,
                                                    !.env = None],
                                 !.app.watched = FALSE]
  OBVIOUS
<1>2. w = [disk |-> d, app |-> a, past |-> past]
  BY <1>1, WorldFacts DEF World
<1>3. /\ d \in Disks /\ d.primary = Gone /\ d.backup = Gone /\ d.env = None
      /\ d.store = disk.store
      /\ a \in Apps /\ a.up = app.up /\ a.account = app.account
  BY WorldFacts DEF Disks, Apps
<1>4. /\ p \in Pasts /\ p.durable = Gone /\ p.last = past.last /\ p.stale = past.stale
      /\ p.faults = past.faults
  BY WorldFacts DEF Pasts
<1> HIDE DEF d, a
<1>5. w \in Worlds /\ w.disk = d /\ w.app = a /\ w.past = past
  BY <1>2, <1>3, WorldFacts DEF Worlds
<1>6. [w EXCEPT !.past.durable = Gone, !.past.recent = {}] = [w EXCEPT !.past = p]
  BY <1>5 DEF Worlds
<1>7. PICK x : x = [w EXCEPT !.past = p]
  OBVIOUS
<1>8. Outside(x)
  BY <1>1, <1>6, <1>7 DEF DeleteDirectory
<1> HIDE DEF p
<1>9. x \in Worlds /\ x.disk = d /\ x.app = a /\ x.past = p
  BY <1>4, <1>5, <1>7 DEF Worlds
<1>10. Saved(x)
  BY <1>3, <1>4, <1>9, DocumentFacts DEF Saved
<1> QED
  BY <1>3, <1>4, <1>8, <1>9, <1>10, OutsideNext

(***************************************************************************)
(* The theorems                                                            *)
(***************************************************************************)
LEMMA InitGood == Init => IInv
<1> SUFFICES ASSUME Init PROVE IInv
  OBVIOUS
<1>1. disk \in Disks /\ disk.primary = Gone /\ disk.backup = Gone
      /\ disk.env = None /\ disk.store = None
  BY DEF Init, Disks
<1>2. app \in Apps /\ app.account = None
  <2>1. 0 \in 0 .. 2
    OBVIOUS
  <2> QED
    BY <2>1, DocumentFacts DEF Init, Apps
<1>3. past \in Pasts /\ past.last = None /\ past.durable = Gone
  BY FaultsAssumption DEF Init, Pasts
<1>4. /\ World \in Worlds
      /\ World.disk = disk /\ World.app = app /\ World.past = past
  BY <1>1, <1>2, <1>3 DEF World, Worlds
<1> QED
  BY <1>1, <1>2, <1>3, <1>4, DocumentFacts DEF IInv, Good, Fair, Honest, Owned, Leftover, Saved

LEMMA StepKind == IInv /\ [Next]_vars => Kind
<1> SUFFICES ASSUME IInv, [Next]_vars PROVE Kind
  OBVIOUS
<1>1. CASE \E c \in Choices : SetChoice(c)
  BY <1>1, SetChoiceStep
<1>2. CASE \E b \in BOOLEAN : SetKeepSignedIn(b)
  BY <1>2, SetKeepSignedInStep
<1>3. CASE \E a \in Accounts : SetAuth(a)
  BY <1>3, SetAuthStep
<1>4. CASE ClearAuth
  BY <1>4, ClearAuthStep
<1>5. CASE MarkSetupComplete
  BY <1>5, MarkSetupCompleteStep
<1>6. CASE ScheduleReload
  BY <1>6, ScheduleReloadStep
<1>7. CASE ReloadTimer
  BY <1>7, ReloadTimerStep
<1>8. CASE IntegrityTimer
  BY <1>8, IntegrityTimerStep
<1>9. CASE Start
  BY <1>9, StartStep
<1>10. CASE ResetRefused
  BY <1>10, ResetRefusedStep
<1>11. CASE Reset
  BY <1>11, ResetStep
<1>12. CASE Quit
  BY <1>12, QuitStep
<1>13. CASE EditConfig
  BY <1>13, EditConfigStep
<1>14. CASE DamageConfig
  BY <1>14, SpoiltStep DEF DamageConfig
<1>15. CASE DeleteConfig
  BY <1>15, SpoiltStep DEF DeleteConfig
<1>16. CASE DeleteDirectory
  BY <1>16, DeleteDirectoryStep
<1>18. CASE ResetCutOff
  BY <1>18, ResetCutOffStep
<1>17. CASE UNCHANGED vars
  BY <1>17 DEF vars, IInv, World, Kind, KeepsSession, FindsSettings
<1> QED
  BY <1>1, <1>2, <1>3, <1>4, <1>5, <1>6, <1>7, <1>8, <1>9, <1>10, <1>11, <1>12, <1>13, <1>14,
     <1>15, <1>16, <1>17, <1>18 DEF Next

\* The inductive invariant: the world is good after every operation, fault and death.
THEOREM SettingsInvariant == Spec => []IInv
<1>1. IInv /\ [Next]_vars => IInv'
  BY StepKind DEF Kind
<1> QED
  BY InitGood, <1>1, PTL DEF Spec

\* Whoever is signed in is the user who signed in last (AccountIsLast): neither a restart nor a
\* reload, a restored backup or a store that fails to answer brings an earlier account back.
THEOREM AccountIsLastAlways == Spec => []AccountIsLast
<1>1. IInv => AccountIsLast
  BY WorldFacts DEF AccountIsLast, TypeOK, Honest
<1> QED
  BY <1>1, SettingsInvariant, PTL

\* Nothing but a sign-out, a reset and the end of the launcher ends a session (SessionKept).
THEOREM SessionKeptAlways == Spec => SessionKept
<1>1. IInv /\ [Next]_vars =>
        [app.up /\ app'.up /\ past'.last = past.last =>
           app'.account # None \/ app.account = None]_vars
  BY StepKind DEF Kind, KeepsSession
<1> QED
  BY <1>1, SettingsInvariant, PTL DEF Spec, SessionKept

\* A start finds the settings that were last saved, or newer ones (StartFindsSettings).
THEOREM StartFindsSettingsAlways == Spec => StartFindsSettings
<1>1. IInv /\ [Next]_vars =>
        [~app.up /\ app'.up =>
           app'.values \in {Normal(d) : d \in past.recent \cup {IF past.durable = Gone THEN Defaults
                                                                ELSE past.durable}}
                           \cup {d \in {Defaults} : ~disk.marker}]_vars
  BY StepKind DEF Kind, FindsSettings, Findable
<1> QED
  BY <1>1, SettingsInvariant, PTL DEF Spec, StartFindsSettings
=============================================================================
