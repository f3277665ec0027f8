------------------------ MODULE IntegrityWatchProofs ------------------------
(***************************************************************************)
(* What holds of the watcher for every game, any builds and manifests, and *)
(* any number of changes, suspensions and fresh starts.                    *)
(***************************************************************************)
EXTENDS IntegrityWatch, FiniteSetTheorems, TLAPS

(***************************************************************************)
(* The inductive invariant                                                 *)
(***************************************************************************)
Content == {None} \cup (UNION {Contents[f] : f \in Files})
                  \cup (UNION {Range(Manifest[b]) : b \in Builds})
Tables  == UNION {[S -> Content] : S \in SUBSET Files}
Changes == [kind : {"missing", "modified", "unexpected"}, file : Files]

Worlds    == [file : [Files -> Content], build : Builds]
Contexts  == [state : {"none", "fetching", "verifying", "ready"}, build : Builds \cup {None},
              hashes : Tables, reported : SUBSET Changes, scanning : BOOLEAN, again : BOOLEAN]
Watchers  == [suspended : BOOLEAN, timer : BOOLEAN, context : Contexts]
Systems   == [files : SUBSET Files, directory : BOOLEAN,
              events : SUBSET (Files \cup {DirectoryChanged, Rescan})]
Jobs      == [id : Nat, kind : {"fetch", "verify", "scan", "file"}, current : BOOLEAN,
              hashes : Tables, left : SUBSET Files, walked : BOOLEAN, found : SUBSET Changes]
Histories == [told : SUBSET Changes, was : SUBSET Changes, byFile : SUBSET Files,
              byDirectory : SUBSET Files]

Typed ==
  /\ disk \in Worlds /\ watcher \in Watchers /\ system \in Systems
  /\ jobs \subseteq Jobs /\ IsFiniteSet(jobs) /\ history \in Histories

\* The manifest of the context is there, and the files have been compared with it at once.
Begun == context.state \in {"verifying", "ready"}

\* What there is of a context that is not ready, and what a ready one watches.
ContextStands ==
  /\ watcher.suspended => context.state = "none"
  /\ context.state = "fetching" => context.build \in Builds
  /\ ~Ready =>
       /\ system.files = {} /\ ~system.directory /\ system.events \subseteq {Rescan}
       /\ history.told = {} /\ history.byDirectory = {}
       /\ context.reported = {} /\ ~context.scanning /\ ~context.again
  /\ Ready =>
       /\ system.directory
       /\ system.files \cup (system.events \cap Files) \subseteq DOMAIN context.hashes

\* A job of this generation compares with what the context compares with, and has found
\* nothing that was not so.
Sincere(j) ==
  /\ j.left \subseteq DOMAIN j.hashes
  /\ FilesOf(j.found) \subseteq FilesOf(history.was)
  /\ j.kind = "fetch" => j.walked /\ j.left = {} /\ j.found = {}
  /\ j.kind = "verify" => Begun /\ j.hashes = context.hashes
  /\ j.kind = "scan" => Ready /\ j.hashes = context.hashes
  /\ j.kind = "file" =>
       /\ Ready /\ j.walked /\ FilesOf(j.found) \subseteq DOMAIN j.hashes
       /\ \E f \in DOMAIN context.hashes : j.hashes = Restrict(context.hashes, {f})

JobsSincere == \A j \in jobs : j.current => Sincere(j)

\* What is told was so; so is what could be found now.
ReportsTrue ==
  /\ context.reported \subseteq history.told
  /\ FilesOf(history.told) \subseteq FilesOf(history.was)
  /\ Begun => FilesOf(Wrong(context.hashes, disk)) \subseteq FilesOf(history.was)

Scan(j) == j.current /\ j.kind = "scan"

\* One scan at a time.
OneScan ==
  /\ \A j, k \in jobs : Scan(j) /\ Scan(k) => j = k
  /\ context.scanning <=> \E j \in jobs : Scan(j)
  /\ context.again => context.scanning

\* A scan is still to be made, or one is under way that cannot miss f.
WillFind(j, f) ==
  Scan(j) /\ (j.found # {} \/ f \in j.left \/ (~j.walked /\ f \notin DOMAIN context.hashes))
Coming(f) ==
  \/ DirectoryChanged \in system.events \/ Rescan \in system.events \/ context.again
  \/ \E j \in jobs : WillFind(j, f)

ArrivalsComing ==
  Ready /\ history.told = {} => \A f \in history.byDirectory \cap Wronged : Coming(f)

IInv ==
  Typed /\ ContextStands /\ JobsSincere /\ ReportsTrue /\ OneScan /\ ArrivalsComing

(***************************************************************************)
(* The operators                                                           *)
(***************************************************************************)

LEMMA TableFacts ==
  ASSUME NEW h \in Tables
  PROVE  /\ DOMAIN h \subseteq Files /\ h = [f \in DOMAIN h |-> h[f]]
         /\ \A f \in DOMAIN h : h[f] \in Content
         /\ \A f \in DOMAIN h : Restrict(h, {f}) \in Tables /\ DOMAIN Restrict(h, {f}) = {f}
<1>1. PICK S \in SUBSET Files : h \in [S -> Content]
  BY DEF Tables
<1>2. ASSUME NEW f \in S
      PROVE  Restrict(h, {f}) \in Tables /\ DOMAIN Restrict(h, {f}) = {f}
  <2>1. Restrict(h, {f}) \in [{f} -> Content] /\ {f} \in SUBSET Files
    BY <1>1, <1>2 DEF Restrict
  <2> QED BY <2>1 DEF Tables
<1> QED BY <1>1, <1>2

LEMMA NoHashesTable == NoHashes \in Tables
<1>1. NoHashes \in [{} -> Content] /\ {} \in SUBSET Files
  BY DEF NoHashes
<1> QED BY <1>1 DEF Tables

LEMMA FilesOfFacts ==
  ASSUME NEW A, NEW B
  PROVE  /\ \A c \in A : c.file \in FilesOf(A)
         /\ A \subseteq B => FilesOf(A) \subseteq FilesOf(B)
         /\ FilesOf(A \cup B) = FilesOf(A) \cup FilesOf(B)
         /\ (FilesOf(A) = {} <=> A = {})
BY DEF FilesOf

LEMMA ChangeFacts ==
  ASSUME NEW f \in Files
  PROVE  /\ Missing(f) \in Changes /\ Modified(f) \in Changes /\ Unexpected(f) \in Changes
         /\ Missing(f).file = f /\ Modified(f).file = f /\ Unexpected(f).file = f
BY DEF Missing, Modified, Unexpected, Changes

LEMMA VerdictFacts ==
  ASSUME NEW h \in Tables, NEW d \in Worlds, NEW f \in DOMAIN h
  PROVE  /\ Verdict(h, d, f) \subseteq Changes
         /\ FilesOf(Verdict(h, d, f)) \subseteq {f}
         /\ (Verdict(h, d, f) = {} <=> Installed(d, f) /\ d.file[f] = h[f])
<1>1. f \in Files
  BY TableFacts
<1> QED BY <1>1, ChangeFacts DEF Verdict, FilesOf

\* The files that a verification finds fault with: of those it expects, the ones that are not
\* there or not as they should be, and whatever is there and not expected.
LEMMA WrongFacts ==
  ASSUME NEW h \in Tables, NEW d \in Worlds
  PROVE  /\ Wrong(h, d) \subseteq Changes /\ UnexpectedFiles(h, d) \subseteq Wrong(h, d)
         /\ \A f \in DOMAIN h : Verdict(h, d, f) \subseteq Wrong(h, d)
         /\ \A f \in DOMAIN h : f \in FilesOf(Wrong(h, d)) => Verdict(h, d, f) # {}
         /\ \A f : f \notin DOMAIN h /\ f \in FilesOf(Wrong(h, d)) =>
                     Unexpected(f) \in UnexpectedFiles(h, d)
<1>1. DOMAIN h \subseteq Files
  BY TableFacts
<1>2. ASSUME NEW c \in UnexpectedFiles(h, d)
      PROVE  c \in Changes /\ c.file \notin DOMAIN h /\ c = Unexpected(c.file)
  <2>1. PICK f \in Files : c = Unexpected(f) /\ f \notin DOMAIN h
    BY DEF UnexpectedFiles
  <2> QED BY <2>1, ChangeFacts
<1>3. ASSUME NEW f \in DOMAIN h
      PROVE  Verdict(h, d, f) \subseteq Changes /\ \A c \in Verdict(h, d, f) : c.file = f
  BY VerdictFacts DEF FilesOf
<1>4. ASSUME NEW c \in Wrong(h, d)
      PROVE  \/ c \in UnexpectedFiles(h, d)
             \/ \E f \in DOMAIN h : c \in Verdict(h, d, f)
  BY DEF Wrong
<1>5. /\ UnexpectedFiles(h, d) \subseteq Wrong(h, d)
      /\ \A f \in DOMAIN h : Verdict(h, d, f) \subseteq Wrong(h, d)
  BY DEF Wrong
<1>6. Wrong(h, d) \subseteq Changes
  BY <1>2, <1>3, <1>4
<1>7. ASSUME NEW f \in DOMAIN h, f \in FilesOf(Wrong(h, d))
      PROVE  Verdict(h, d, f) # {}
  <2>1. PICK c \in Wrong(h, d) : c.file = f
    BY <1>7 DEF FilesOf
  <2> QED BY <2>1, <1>2, <1>3, <1>4
<1>8. ASSUME NEW f, f \notin DOMAIN h, f \in FilesOf(Wrong(h, d))
      PROVE  Unexpected(f) \in UnexpectedFiles(h, d)
  <2>1. PICK c \in Wrong(h, d) : c.file = f
    BY <1>8 DEF FilesOf
  <2> QED BY <2>1, <1>8, <1>2, <1>3, <1>4
<1> QED BY <1>5, <1>6, <1>7, <1>8

\* What is wrong with a file follows from the file and from whether DXVK is installed.
LEMMA WrongAlike ==
  ASSUME NEW h \in Tables, NEW d \in Worlds, NEW e \in Worlds, NEW f \in Files,
         d.file[f] = e.file[f], Installed(d, Dxvk) <=> Installed(e, Dxvk)
  PROVE  f \in FilesOf(Wrong(h, d)) => f \in FilesOf(Wrong(h, e))
<1>1. CASE f \in DOMAIN h
  <2>1. Verdict(h, d, f) = Verdict(h, e, f)
    BY DEF Verdict, Installed
  <2>2. Verdict(h, e, f) \subseteq Wrong(h, e) /\ FilesOf(Verdict(h, e, f)) \subseteq {f}
    BY <1>1, WrongFacts, VerdictFacts
  <2>3. f \in FilesOf(Wrong(h, d)) => \E c \in Wrong(h, e) : c.file = f
    BY <1>1, <2>1, <2>2, WrongFacts DEF FilesOf
  <2> QED BY <2>3 DEF FilesOf
<1>2. CASE f \notin DOMAIN h
  <2>1. Unexpected(f) \in UnexpectedFiles(h, d) => Unexpected(f) \in UnexpectedFiles(h, e)
    <3>1. DxvkFiles(h, d) = DxvkFiles(h, e)
      BY DEF DxvkFiles
    <3>2. ASSUME Unexpected(f) \in UnexpectedFiles(h, d)
          PROVE  Unexpected(f) \in UnexpectedFiles(h, e)
      <4>1. PICK g \in Files : /\ Unexpected(f) = Unexpected(g) /\ Installed(d, g)
                               /\ g \notin DOMAIN h \cup Allowed \cup DxvkFiles(h, d)
        BY <3>2 DEF UnexpectedFiles
      <4>2. g = f
        BY <4>1, ChangeFacts
      <4> QED BY <3>1, <4>1, <4>2 DEF UnexpectedFiles, Installed
    <3> QED BY <3>2
  <2>2. Unexpected(f) \in UnexpectedFiles(h, e) => f \in FilesOf(Wrong(h, e))
    BY WrongFacts, ChangeFacts, FilesOfFacts
  <2> QED BY <1>2, <2>1, <2>2, WrongFacts
<1> QED BY <1>1, <1>2

\* What a manifest asks for is a table of the game's files, and a complete game has them.
LEMMA ExpectedFacts ==
  ASSUME NEW b \in Builds, NEW d
  PROVE  Expected(b, d) \in Tables
<1> DEFINE manifest == Manifest[b]
           moved    == IF Installed(d, Dxvk) THEN DOMAIN manifest \cap DOMAIN Backup ELSE {}
           all      == (DOMAIN manifest \ moved) \cup {Backup[g] : g \in moved}
           wanted(f) == IF \E g \in moved : Backup[g] = f
                        THEN manifest[CHOOSE g \in moved : Backup[g] = f] ELSE manifest[f]
<1>1. Expected(b, d) = [f \in all |-> wanted(f)]
  BY DEF Expected
<1>2. moved \subseteq DOMAIN manifest /\ moved \subseteq DOMAIN Backup
  OBVIOUS
<1>3. all \in SUBSET Files
  <2>1. \A g \in moved : Backup[g] \in Files
    BY <1>2, FilesAssumption DEF Range
  <2> QED BY <2>1, FilesAssumption
<1>4. ASSUME NEW g \in DOMAIN manifest
      PROVE  manifest[g] \in Content
  <2>1. manifest[g] \in Range(Manifest[b])
    BY DEF Range
  <2> QED BY <2>1 DEF Content
<1>5. ASSUME NEW f \in all
      PROVE  wanted(f) \in Content
  <2>1. CASE \E g \in moved : Backup[g] = f
    <3>1. (CHOOSE g \in moved : Backup[g] = f) \in moved
      BY <2>1
    <3> QED BY <2>1, <3>1, <1>2, <1>4
  <2>2. CASE ~\E g \in moved : Backup[g] = f
    <3>1. f \in DOMAIN manifest
      BY <2>2
    <3> QED BY <2>2, <3>1, <1>4
  <2> QED BY <2>1, <2>2
<1> HIDE DEF all, wanted, moved
<1>6. [f \in all |-> wanted(f)] \in [all -> Content]
  BY <1>5
<1> QED BY <1>1, <1>3, <1>6 DEF Tables

LEMMA CompleteFacts ==
  ASSUME NEW b \in Builds, NEW d, d.file[Dxvk] \in Content
  PROVE  Complete(b, d) \in Worlds
<1> DEFINE h == Expected(b, d)
           files == [f \in Files |-> IF f \in DOMAIN h THEN h[f]
                                     ELSE IF f = Dxvk THEN d.file[f] ELSE None]
<1>1. h \in Tables
  BY ExpectedFacts
<1> HIDE DEF h
<1>2. \A f \in DOMAIN h : h[f] \in Content
  BY <1>1, TableFacts
<1>3. files \in [Files -> Content]
  BY <1>2 DEF Content
<1>4. Complete(b, d) = [file |-> files, build |-> b]
  BY DEF Complete, h
<1> HIDE DEF files
<1> QED BY <1>3, <1>4 DEF Worlds

\* There is always a number for another job.
LEMMA JobFacts ==
  ASSUME Typed, NEW kind \in {"fetch", "verify", "scan", "file"}, NEW h \in Tables,
         NEW left \in SUBSET Files
  PROVE  /\ Job(kind, h, left) \in Jobs
         /\ Job(kind, h, left).current /\ Job(kind, h, left).kind = kind
         /\ Job(kind, h, left).hashes = h /\ Job(kind, h, left).left = left
         /\ Job(kind, h, left).found = {}
         /\ (Job(kind, h, left).walked <=> kind \in {"fetch", "file"})
<1> DEFINE n == Cardinality(jobs)
           named == [i \in 1 .. n + 1 |-> CHOOSE j \in jobs : j.id = i]
<1>1. n \in Nat /\ IsFiniteSet(jobs)
  BY FS_CardinalityType DEF Typed
<1>2. IsFiniteSet(1 .. n + 1) /\ Cardinality(1 .. n + 1) = n + 1
  BY <1>1, FS_Interval
<1>3. \E i \in 1 .. n + 1 : \A j \in jobs : j.id # i
  <2> SUFFICES ASSUME \A i \in 1 .. n + 1 : \E j \in jobs : j.id = i
               PROVE  FALSE
    OBVIOUS
  <2>1. \A i \in 1 .. n + 1 : named[i] \in jobs /\ named[i].id = i
    OBVIOUS
  <2>2. named \in [1 .. n + 1 -> jobs]
    BY <2>1
  <2> HIDE DEF named
  <2>3. Cardinality(jobs) < Cardinality(1 .. n + 1)
    BY <1>1, <1>2
  <2>4. \E x, y \in 1 .. n + 1 : x # y /\ named[x] = named[y]
    BY <1>1, <1>2, <2>2, <2>3, FS_PigeonHole
  <2> QED BY <2>1, <2>4
<1>4. FreeId \in 1 .. n + 1
  BY <1>3 DEF FreeId
<1>5. FreeId \in Nat
  BY <1>1, <1>4
<1> DEFINE w == kind \in {"fetch", "file"}
<1>6. w \in BOOLEAN /\ (w <=> kind \in {"fetch", "file"})
  OBVIOUS
<1>7. Job(kind, h, left) = [id |-> FreeId, kind |-> kind, current |-> TRUE, hashes |-> h,
                            left |-> left, walked |-> w, found |-> {}]
  BY DEF Job
<1> HIDE DEF w
<1> QED BY <1>5, <1>6, <1>7 DEF Jobs

(***************************************************************************)
(* What the steps have in common                                           *)
(***************************************************************************)

\* What is in the typed parts of the state.
LEMMA TypedFacts ==
  ASSUME Typed
  PROVE  /\ disk.file \in [Files -> Content] /\ disk.build \in Builds
         /\ watcher.suspended \in BOOLEAN /\ watcher.timer \in BOOLEAN /\ context \in Contexts
         /\ context.state \in {"none", "fetching", "verifying", "ready"}
         /\ context.hashes \in Tables /\ context.reported \subseteq Changes
         /\ context.scanning \in BOOLEAN /\ context.again \in BOOLEAN
         /\ system.files \subseteq Files /\ system.directory \in BOOLEAN
         /\ system.events \subseteq Files \cup {DirectoryChanged, Rescan}
         /\ history.told \subseteq Changes /\ history.was \subseteq Changes
         /\ history.byFile \subseteq Files /\ history.byDirectory \subseteq Files
BY DEF Typed, Worlds, Watchers, Contexts, Systems, Histories, context

\* A job of this generation goes on being sincere as long as the context is the same, or
\* further on, and nothing is taken back of what was wrong.
LEMMA SincereKept ==
  ASSUME NEW j, Sincere(j), history.was \subseteq history'.was,
         Begun => Begun', Ready => Ready', context'.hashes = context.hashes
  PROVE  Sincere(j)'
<1>1. FilesOf(history.was) \subseteq FilesOf(history.was)'
  BY FilesOfFacts DEF FilesOf
<1> QED BY <1>1 DEF Sincere

\* Nothing that the scans and the arrivals wait for is lost.
LEMMA OneScanKept ==
  ASSUME OneScan, \A j : Scan(j) => (j \in jobs' <=> j \in jobs),
         context'.scanning <=> context.scanning, context'.again <=> context.again
  PROVE  OneScan'
BY DEF OneScan, Scan

LEMMA ArrivalsKept ==
  ASSUME ArrivalsComing, Ready, Ready', history'.told = {} => history.told = {},
         history'.byDirectory = history.byDirectory, disk' = disk,
         context'.hashes = context.hashes, context.again => context'.again,
         system.events \cap {DirectoryChanged, Rescan} \subseteq system'.events,
         \A j \in jobs : Scan(j) => j \in jobs'
  PROVE  ArrivalsComing'
<1>1. Wronged' = Wronged
  BY DEF Wronged
<1>2. \A f : Coming(f) => Coming(f)'
  BY DEF Coming, WillFind, Scan
<1> QED BY <1>1, <1>2 DEF ArrivalsComing

\* A change is told: what the watcher has reported stays told, and it is true.
LEMMA ToldFacts ==
  ASSUME Typed, ReportsTrue, NEW changes \in SUBSET Changes,
         FilesOf(changes) \subseteq FilesOf(history.was), history' = Told(changes)
  PROVE  /\ history' \in Histories
         /\ history'.was = history.was /\ history'.byFile = history.byFile
         /\ history'.byDirectory = history.byDirectory
         /\ history.told \subseteq history'.told
         /\ context.reported \cup changes \subseteq history'.told
         /\ FilesOf(history'.told) \subseteq FilesOf(history'.was)
         /\ history'.told = {} => history.told = {} /\ changes = {}
<1>1. history' = [history EXCEPT !.told = history.told \cup (changes \ context.reported)]
  BY DEF Told
<1>2. /\ history' \in Histories
      /\ history'.was = history.was /\ history'.byFile = history.byFile
      /\ history'.byDirectory = history.byDirectory
      /\ history'.told = history.told \cup (changes \ context.reported)
  BY <1>1 DEF Typed, Histories
<1>3. context.reported \subseteq history.told
  BY DEF ReportsTrue
<1>4. history'.told = history.told \cup changes
  BY <1>2, <1>3
<1>5. FilesOf(history.told \cup changes) = FilesOf(history.told) \cup FilesOf(changes)
  BY FilesOfFacts
<1>6. FilesOf(history'.told) = FilesOf(history.told) \cup FilesOf(changes)
  BY <1>4, <1>5
<1>7. FilesOf(history.told) \subseteq FilesOf(history.was)
  BY DEF ReportsTrue
<1> QED BY <1>2, <1>3, <1>4, <1>6, <1>7

\* The context a report has been made in.
LEMMA ReportingFacts ==
  ASSUME NEW c \in Contexts, NEW changes \in SUBSET Changes
  PROVE  /\ Reporting(c, changes) \in Contexts
         /\ Reporting(c, changes) = [c EXCEPT !.reported = c.reported \cup changes]
         /\ Reporting(c, changes).state = c.state /\ Reporting(c, changes).build = c.build
         /\ Reporting(c, changes).hashes = c.hashes
         /\ Reporting(c, changes).reported = c.reported \cup changes
         /\ (Reporting(c, changes).scanning <=> c.scanning)
         /\ (Reporting(c, changes).again <=> c.again)
BY DEF Reporting, Contexts

LEMMA WatcherFacts ==
  ASSUME Typed, NEW c \in Contexts, watcher' = [watcher EXCEPT !.context = c]
  PROVE  watcher' \in Watchers /\ context' = c /\ (watcher'.suspended <=> watcher.suspended)
BY DEF Typed, Watchers, context

\* Nothing that the invariant looks at changes, or the context ends.
LEMMA SameInv ==
  ASSUME IInv, UNCHANGED <<disk, system, jobs, history>>, watcher' \in Watchers,
         context' = context, watcher'.suspended => watcher.suspended
  PROVE  IInv'
<1>1. (Ready' <=> Ready) /\ (Begun' <=> Begun)
  BY DEF Ready, Begun
<1>2. Typed' /\ ContextStands'
  BY <1>1 DEF IInv, Typed, ContextStands
<1>3. JobsSincere' /\ ReportsTrue' /\ OneScan'
  BY <1>1 DEF IInv, JobsSincere, Sincere, ReportsTrue, OneScan, Scan, Begun
<1>4. ArrivalsComing'
  <2>1. Wronged' = Wronged
    BY <1>1 DEF Wronged
  <2>2. \A f : Coming(f) => Coming(f)'
    BY DEF Coming, WillFind, Scan
  <2> QED BY <1>1, <2>1, <2>2 DEF IInv, ArrivalsComing
<1> QED BY <1>2, <1>3, <1>4 DEF IInv

(***************************************************************************)
(* The watcher begins anew                                                 *)
(***************************************************************************)

LEMMA OutdatedFacts ==
  ASSUME Typed
  PROVE  /\ Outdated(jobs) \subseteq Jobs /\ IsFiniteSet(Outdated(jobs))
         /\ \A j \in Outdated(jobs) : ~j.current
<1> DEFINE T == Outdated(jobs)
           f == [j \in jobs |-> [j EXCEPT !.current = FALSE]]
<1>1. \A j \in jobs : [j EXCEPT !.current = FALSE] \in Jobs /\ ~[j EXCEPT !.current = FALSE].current
  BY DEF Typed, Jobs
<1>2. T = {[j EXCEPT !.current = FALSE] : j \in jobs}
  BY DEF Outdated
<1>3. f \in Surjection(jobs, T)
  BY <1>2 DEF Surjection
<1>4. IsFiniteSet(T)
  <2> HIDE DEF T, f
  <2> QED BY <1>3, FS_Surjection DEF Typed
<1> QED BY <1>1, <1>2, <1>4

LEMMA ClearedFacts ==
  ASSUME Typed
  PROVE  /\ Cleared \in Systems /\ Cleared.files = {} /\ ~Cleared.directory
         /\ Cleared.events \subseteq {Rescan}
BY DEF Typed, Cleared, Unwatched, Systems

LEMMA NoContextFacts ==
  /\ NoContext \in Contexts /\ NoContext.state = "none" /\ NoContext.reported = {}
  /\ ~NoContext.scanning /\ ~NoContext.again
  /\ NoHistory \in Histories /\ NoHistory.told = {} /\ NoHistory.byDirectory = {}
BY NoHashesTable DEF NoContext, Contexts, NoHistory, Histories

LEMMA BeginsAnew ==
  ASSUME Typed, disk' = disk, system' = Cleared, history' = NoHistory,
         watcher' \in Watchers, context'.state \in {"none", "fetching"},
         context'.reported = {}, ~context'.scanning, ~context'.again,
         watcher'.suspended => context'.state = "none",
         context'.state = "fetching" => context'.build \in Builds,
         jobs' \subseteq Jobs, IsFiniteSet(jobs'),
         \A j \in jobs' : j.current => j.kind = "fetch" /\ j.walked /\ j.left = {} /\ j.found = {}
  PROVE  IInv'
<1>1. Typed'
  BY ClearedFacts, NoContextFacts DEF Typed
<1>2. ~Ready' /\ ~Begun'
  BY DEF Ready, Begun
<1>3. ContextStands'
  BY <1>2, ClearedFacts, NoContextFacts DEF ContextStands
<1>4. JobsSincere'
  BY FilesOfFacts DEF JobsSincere, Sincere, FilesOf
<1>5. ReportsTrue'
  BY <1>2, NoContextFacts DEF ReportsTrue, FilesOf
<1>6. OneScan'
  BY DEF OneScan, Scan
<1>7. ArrivalsComing'
  BY <1>2 DEF ArrivalsComing
<1> QED BY <1>1, <1>3, <1>4, <1>5, <1>6, <1>7 DEF IInv

LEMMA SuspendInv ==
  ASSUME IInv, Suspend
  PROVE  IInv'
<1>1. Typed
  BY DEF IInv
<1>2. watcher' = [suspended |-> TRUE, timer |-> FALSE, context |-> NoContext]
  BY DEF Suspend
<1>3. watcher' \in Watchers /\ context' = NoContext
  BY <1>2, NoContextFacts DEF Watchers, context
<1>4. jobs' = Outdated(jobs)
  BY DEF Suspend
<1>5. jobs' \subseteq Jobs /\ IsFiniteSet(jobs') /\ \A j \in jobs' : ~j.current
  BY <1>1, <1>4, OutdatedFacts
<1> QED BY <1>1, <1>3, <1>5, BeginsAnew, NoContextFacts DEF Suspend

LEMMA RefreshedInv ==
  ASSUME IInv, Refreshed, ~watcher.suspended, disk' = disk
  PROVE  IInv'
<1> DEFINE c == [NoContext EXCEPT !.state = "fetching", !.build = disk.build]
           k == Job("fetch", NoHashes, {})
<1>1. Typed
  BY DEF IInv
<1>2. /\ c \in Contexts /\ c.state = "fetching" /\ c.build \in Builds /\ c.reported = {}
      /\ ~c.scanning /\ ~c.again
  <2>1. disk.build \in Builds
    BY <1>1, TypedFacts
  <2> QED BY <2>1, NoHashesTable DEF NoContext, Contexts
<1>3. /\ watcher' = [watcher EXCEPT !.timer = FALSE, !.context = c]
      /\ jobs' = Outdated(jobs) \cup {k} /\ system' = Cleared /\ history' = NoHistory
  BY DEF Refreshed
<1> HIDE DEF c
<1>4. watcher' \in Watchers /\ context' = c /\ ~watcher'.suspended
  BY <1>1, <1>2, <1>3 DEF Typed, Watchers, context
<1>5. k \in Jobs /\ k.kind = "fetch" /\ k.walked /\ k.left = {} /\ k.found = {}
  BY <1>1, NoHashesTable, JobFacts
<1> HIDE DEF k
<1>6. jobs' \subseteq Jobs /\ IsFiniteSet(jobs')
  BY <1>1, <1>3, <1>5, OutdatedFacts, FS_AddElement
<1>7. \A j \in jobs' : j.current => j.kind = "fetch" /\ j.walked /\ j.left = {} /\ j.found = {}
  BY <1>1, <1>3, <1>5, OutdatedFacts
<1> QED BY <1>1, <1>2, <1>3, <1>4, <1>6, <1>7, BeginsAnew

LEMMA TimersInv ==
  ASSUME IInv, TimerFires \/ RefreshNow \/ Resume \/ ConfigChanged
  PROVE  IInv'
<1>1. Typed
  BY DEF IInv
<1>2. CASE TimerFires /\ ~watcher.suspended
  BY <1>2, RefreshedInv DEF TimerFires
<1>3. CASE RefreshNow
  BY <1>3, RefreshedInv DEF RefreshNow
<1>4. CASE \/ TimerFires /\ watcher.suspended
           \/ Resume \/ ConfigChanged
  <2>1. /\ UNCHANGED <<disk, system, jobs, history>>
        /\ \/ watcher' = [watcher EXCEPT !.timer = FALSE]
           \/ watcher' = [watcher EXCEPT !.suspended = FALSE, !.timer = TRUE]
           \/ watcher' = [watcher EXCEPT !.timer = TRUE]
    BY <1>4 DEF TimerFires, Resume, ConfigChanged
  <2>2. /\ watcher' \in Watchers /\ context' = context
        /\ watcher'.suspended => watcher.suspended
    BY <1>1, <2>1 DEF Typed, Watchers, context
  <2> QED BY <2>1, <2>2, SameInv
<1> QED BY <1>2, <1>3, <1>4

(***************************************************************************)
(* The threads that read                                                   *)
(***************************************************************************)

LEMMA JobGoesOn ==
  ASSUME IInv, UNCHANGED <<disk, watcher, system, history>>,
         NEW j \in jobs, j.current, NEW k \in Jobs, k.current, k.kind = j.kind, Sincere(k),
         jobs' = (jobs \ {j}) \cup {k},
         \A f \in Wronged : WillFind(j, f) => WillFind(k, f)
  PROVE  IInv'
<1>1. /\ context' = context /\ (Ready' <=> Ready) /\ (Begun' <=> Begun) /\ Wronged' = Wronged
      /\ Typed
  BY DEF context, Ready, Begun, Wronged, IInv
<1>2. Typed'
  BY <1>1, FS_RemoveElement, FS_AddElement DEF Typed
<1>3. ContextStands' /\ ReportsTrue'
  BY <1>1 DEF IInv, ContextStands, ReportsTrue
<1>4. JobsSincere'
  BY <1>1, SincereKept DEF IInv, JobsSincere
<1>5. OneScan'
  BY <1>1 DEF IInv, OneScan, Scan
<1>6. ArrivalsComing'
  <2>1. ASSUME NEW f \in Wronged, Coming(f)
        PROVE  Coming(f)'
    <3>1. \A i \in jobs : WillFind(i, f) => \E l \in jobs' : WillFind(l, f)
      OBVIOUS
    <3>2. \A l : WillFind(l, f)' <=> WillFind(l, f)
      BY <1>1 DEF WillFind, Scan
    <3> QED BY <1>1, <2>1, <3>1, <3>2 DEF Coming
  <2> QED BY <1>1, <2>1 DEF IInv, ArrivalsComing
<1> QED BY <1>2, <1>3, <1>4, <1>5, <1>6 DEF IInv

\* What is wrong now has been wrong since the watcher began.
LEMMA FindsTrue ==
  ASSUME IInv, Begun
  PROVE  /\ \A f \in DOMAIN context.hashes :
              FilesOf(Verdict(context.hashes, disk, f)) \subseteq FilesOf(history.was)
         /\ FilesOf(UnexpectedFiles(context.hashes, disk)) \subseteq FilesOf(history.was)
<1>1. Typed /\ context.hashes \in Tables /\ disk \in Worlds
  BY TypedFacts DEF IInv, Typed
<1>2. FilesOf(Wrong(context.hashes, disk)) \subseteq FilesOf(history.was)
  BY DEF IInv, ReportsTrue
<1>3. /\ \A f \in DOMAIN context.hashes :
           Verdict(context.hashes, disk, f) \subseteq Wrong(context.hashes, disk)
      /\ UnexpectedFiles(context.hashes, disk) \subseteq Wrong(context.hashes, disk)
  BY <1>1, WrongFacts
<1> QED BY <1>2, <1>3 DEF FilesOf

LEMMA ReadInv ==
  ASSUME IInv, NEW j \in jobs, NEW f \in Files, ReadFile(j, f)
  PROVE  IInv'
<1> DEFINE v == Verdict(j.hashes, disk, f)
           k == [j EXCEPT !.left = j.left \ {f}, !.found = j.found \cup v]
<1>1. Typed /\ j \in Jobs /\ j.current /\ f \in j.left /\ disk \in Worlds
  BY DEF IInv, Typed, ReadFile, Relevant
<1>2. Sincere(j)
  BY <1>1 DEF IInv, JobsSincere
<1>3. j.hashes \in Tables /\ f \in DOMAIN j.hashes
  BY <1>1, <1>2 DEF Sincere, Jobs
<1>4. v \subseteq Changes /\ FilesOf(v) \subseteq {f}
  BY <1>1, <1>3, VerdictFacts
<1>5. FilesOf(v) \subseteq FilesOf(history.was)
  <2>1. j.kind \in {"verify", "scan", "file"}
    BY <1>1, <1>2 DEF Sincere, Jobs
  <2>2. CASE j.kind \in {"verify", "scan"}
    <3>1. Begun /\ j.hashes = context.hashes
      BY <1>2, <2>2 DEF Sincere, Ready, Begun
    <3> QED BY <1>3, <3>1, FindsTrue
  <2>3. CASE j.kind = "file"
    <3>1. PICK g \in DOMAIN context.hashes : j.hashes = Restrict(context.hashes, {g})
      BY <1>2, <2>3 DEF Sincere
    <3>2. f = g /\ j.hashes[f] = context.hashes[f]
      BY <1>3, <3>1 DEF Restrict
    <3>3. v = Verdict(context.hashes, disk, f)
      BY <3>2 DEF Verdict
    <3>4. Begun
      BY <1>2, <2>3 DEF Sincere, Ready, Begun
    <3> QED BY <3>1, <3>2, <3>3, <3>4, FindsTrue
  <2> QED BY <2>1, <2>2, <2>3
<1> HIDE DEF v
<1>6. /\ k \in Jobs /\ k.current /\ k.kind = j.kind /\ k.hashes = j.hashes
      /\ (k.walked <=> j.walked) /\ k.left = j.left \ {f} /\ k.found = j.found \cup v
  BY <1>1, <1>4 DEF Jobs
<1>7. jobs' = (jobs \ {j}) \cup {k} /\ UNCHANGED <<disk, watcher, system, history>>
  BY DEF ReadFile, v
<1> HIDE DEF k
<1>8. FilesOf(j.found \cup v) = FilesOf(j.found) \cup FilesOf(v)
  BY FilesOfFacts
<1>9. Sincere(k)
  BY <1>1, <1>2, <1>3, <1>4, <1>5, <1>6, <1>8 DEF Sincere
<1>10. ASSUME NEW g \in Wronged, WillFind(j, g)
       PROVE  WillFind(k, g)
  <2>1. CASE g # f
    BY <1>6, <1>10, <2>1 DEF WillFind, Scan
  <2>2. CASE g = f
    <3>1. Ready /\ j.hashes = context.hashes
      BY <1>2, <1>10 DEF WillFind, Scan, Sincere
    <3>2. f \in FilesOf(Wrong(context.hashes, disk))
      BY <2>2, <3>1 DEF Wronged
    <3>3. v # {}
      BY <1>1, <1>3, <3>1, <3>2, WrongFacts DEF v
    <3> QED BY <1>6, <1>10, <3>3 DEF WillFind, Scan
  <2> QED BY <2>1, <2>2
<1> QED BY <1>1, <1>6, <1>7, <1>9, <1>10, JobGoesOn

LEMMA WalkInv ==
  ASSUME IInv, NEW j \in jobs, WalkDirectory(j)
  PROVE  IInv'
<1> DEFINE v == UnexpectedFiles(j.hashes, disk)
           k == [j EXCEPT !.walked = TRUE, !.found = j.found \cup v]
<1>1. Typed /\ j \in Jobs /\ j.current /\ j.left = {} /\ ~j.walked /\ disk \in Worlds
  BY DEF IInv, Typed, WalkDirectory, Relevant
<1>2. Sincere(j)
  BY <1>1 DEF IInv, JobsSincere
<1>3. Begun /\ j.hashes = context.hashes /\ j.hashes \in Tables
  BY <1>1, <1>2 DEF Sincere, Jobs, Ready, Begun
<1>4. v \subseteq Changes /\ FilesOf(v) \subseteq FilesOf(history.was)
  BY <1>1, <1>3, WrongFacts, FindsTrue
<1> HIDE DEF v
<1>5. /\ k \in Jobs /\ k.current /\ k.kind = j.kind /\ k.hashes = j.hashes
      /\ k.walked /\ k.left = {} /\ k.found = j.found \cup v
  BY <1>1, <1>4 DEF Jobs
<1>6. jobs' = (jobs \ {j}) \cup {k} /\ UNCHANGED <<disk, watcher, system, history>>
  BY DEF WalkDirectory, v
<1> HIDE DEF k
<1>7. FilesOf(j.found \cup v) = FilesOf(j.found) \cup FilesOf(v)
  BY FilesOfFacts
<1>8. Sincere(k)
  BY <1>1, <1>2, <1>4, <1>5, <1>7 DEF Sincere
<1>9. ASSUME NEW g \in Wronged, WillFind(j, g)
      PROVE  WillFind(k, g)
  <2>1. CASE j.found # {}
    BY <1>5, <1>9, <2>1 DEF WillFind, Scan
  <2>2. CASE j.found = {}
    <3>1. g \notin DOMAIN context.hashes /\ Ready
      BY <1>1, <1>2, <1>9, <2>2 DEF WillFind, Scan, Sincere
    <3>2. g \in FilesOf(Wrong(context.hashes, disk))
      BY <3>1 DEF Wronged
    <3>3. v # {}
      BY <1>1, <1>3, <3>1, <3>2, WrongFacts DEF v
    <3> QED BY <1>5, <1>9, <3>3 DEF WillFind, Scan
  <2> QED BY <2>1, <2>2
<1> QED BY <1>1, <1>5, <1>6, <1>8, <1>9, JobGoesOn

LEMMA DroppedInv ==
  ASSUME IInv, NEW j \in jobs, Dropped(j)
  PROVE  IInv'
<1>1. /\ jobs' = jobs \ {j} /\ ~j.current /\ UNCHANGED <<disk, watcher, system, history>>
      /\ context' = context /\ (Ready' <=> Ready) /\ (Begun' <=> Begun)
  BY DEF Dropped, Relevant, context, Ready, Begun
<1>2. Typed'
  BY <1>1, FS_RemoveElement DEF IInv, Typed
<1>3. ContextStands' /\ ReportsTrue'
  BY <1>1 DEF IInv, ContextStands, ReportsTrue
<1>4. JobsSincere'
  BY <1>1, SincereKept DEF IInv, JobsSincere
<1>5. \A i : Scan(i) => (i \in jobs' <=> i \in jobs)
  BY <1>1 DEF Scan
<1>6. OneScan'
  BY <1>1, <1>5, OneScanKept DEF IInv
<1>7. ArrivalsComing'
  <2>1. CASE Ready
    BY <1>1, <1>5, <2>1, ArrivalsKept DEF IInv
  <2>2. CASE ~Ready
    BY <1>1, <2>2 DEF ArrivalsComing
  <2> QED BY <2>1, <2>2
<1> QED BY <1>2, <1>3, <1>4, <1>6, <1>7 DEF IInv

(***************************************************************************)
(* The event loop                                                          *)
(***************************************************************************)

LEMMA ManifestInv ==
  ASSUME IInv, NEW j \in jobs, ManifestArrives(j)
  PROVE  IInv'
<1>1. /\ Typed /\ j.kind = "fetch" /\ UNCHANGED <<disk, system, used>>
  BY DEF IInv, ManifestArrives, Answered
<1>2. CASE jobs' = jobs \ {j} /\ UNCHANGED <<watcher, history>>
  <2>1. context' = context /\ (Ready' <=> Ready) /\ (Begun' <=> Begun)
    BY <1>2 DEF context, Ready, Begun
  <2>2. Typed'
    BY <1>1, <1>2, FS_RemoveElement DEF Typed
  <2>3. ContextStands' /\ ReportsTrue'
    BY <1>1, <1>2, <2>1 DEF IInv, ContextStands, ReportsTrue
  <2>4. JobsSincere'
    BY <1>2, <2>1, SincereKept DEF IInv, JobsSincere
  <2>5. \A i : Scan(i) => (i \in jobs' <=> i \in jobs)
    BY <1>1, <1>2 DEF Scan
  <2>6. OneScan'
    BY <2>1, <2>5, OneScanKept DEF IInv
  <2>7. ArrivalsComing'
    <3>1. CASE Ready
      BY <1>1, <1>2, <2>1, <2>5, <3>1, ArrivalsKept DEF IInv
    <3>2. CASE ~Ready
      BY <2>1, <3>2 DEF ArrivalsComing
    <3> QED BY <3>1, <3>2
  <2> QED BY <2>2, <2>3, <2>4, <2>6, <2>7 DEF IInv
<1>3. CASE ~(jobs' = jobs \ {j} /\ UNCHANGED <<watcher, history>>)
  <2> DEFINE h == Expected(context.build, disk)
             c == [context EXCEPT !.state = "verifying", !.hashes = h]
  <2>1. /\ context.state = "fetching"
        /\ watcher' = [watcher EXCEPT !.context.state = "verifying", !.context.hashes = h]
        /\ jobs' = (jobs \ {j}) \cup {Job("verify", h, DOMAIN h)}
        /\ history' = [history EXCEPT !.was = Wrong(h, disk)]
    BY <1>3 DEF ManifestArrives
  <2>2. context.build \in Builds /\ ~Ready /\ ~Begun
    BY <2>1 DEF IInv, ContextStands, Ready, Begun
  <2>3. h \in Tables /\ DOMAIN h \in SUBSET Files
    BY <2>2, ExpectedFacts, TableFacts
  <2> HIDE DEF h
  <2>4. PICK k \in Jobs : /\ jobs' = (jobs \ {j}) \cup {k} /\ k.current /\ k.kind = "verify"
                         /\ k.hashes = h /\ k.left = DOMAIN h /\ k.found = {}
    BY <1>1, <2>1, <2>3, JobFacts
  <2>5. /\ c \in Contexts /\ c.state = "verifying" /\ c.hashes = h
        /\ c.reported = context.reported /\ (c.scanning <=> context.scanning)
        /\ (c.again <=> context.again)
    BY <1>1, <2>3, TypedFacts DEF Contexts
  <2>6. watcher' \in Watchers /\ context' = c /\ ~watcher'.suspended
    <3>1. watcher' = [watcher EXCEPT !.context = c]
      BY <1>1, <2>1 DEF Typed, Watchers, context
    <3>2. ~watcher.suspended
      BY <2>1 DEF IInv, ContextStands
    <3> HIDE DEF c
    <3> QED BY <1>1, <2>5, <3>1, <3>2, WatcherFacts
  <2> HIDE DEF c
  <2>7. Wrong(h, disk) \subseteq Changes
    BY <1>1, <2>3, WrongFacts DEF Typed
  <2>8. /\ history' \in Histories /\ history'.was = Wrong(h, disk)
        /\ history'.told = history.told /\ history'.byDirectory = history.byDirectory
    BY <1>1, <2>1, <2>7 DEF Typed, Histories
  <2>9. Typed'
    BY <1>1, <2>4, <2>6, <2>8, FS_RemoveElement, FS_AddElement DEF Typed
  <2>10. ~Ready' /\ Begun'
    BY <2>5, <2>6 DEF Ready, Begun
  <2>11. ContextStands'
    BY <1>1, <2>2, <2>5, <2>6, <2>8, <2>10 DEF IInv, ContextStands
  <2>12. JobsSincere'
    <3>1. ASSUME NEW i \in jobs, i.current
          PROVE  Sincere(i)'
      <4>1. Sincere(i) /\ i \in Jobs
        BY <1>1, <3>1 DEF IInv, JobsSincere, Typed
      <4>2. i.kind = "fetch"
        BY <4>1, <2>2 DEF Sincere, Jobs
      <4> QED BY <4>1, <4>2 DEF Sincere, FilesOf
    <3>2. Sincere(k)'
      BY <2>4, <2>5, <2>6, <2>10 DEF Sincere, FilesOf
    <3> QED BY <2>4, <3>1, <3>2 DEF JobsSincere
  <2>13. ReportsTrue'
    BY <1>1, <2>2, <2>5, <2>6, <2>8 DEF IInv, ReportsTrue, ContextStands, FilesOf
  <2>14. \A i : Scan(i) => (i \in jobs' <=> i \in jobs)
    BY <1>1, <2>4 DEF Scan
  <2>15. OneScan'
    BY <2>5, <2>6, <2>14, OneScanKept DEF IInv
  <2>16. ArrivalsComing'
    BY <2>10 DEF ArrivalsComing
  <2> QED BY <2>9, <2>11, <2>12, <2>13, <2>15, <2>16 DEF IInv
<1> QED BY <1>2, <1>3

\* A change that is true is reported, and whatever else the context, the watches and the jobs
\* become is in order.
LEMMA ReportInv ==
  ASSUME IInv, Ready, UNCHANGED disk, NEW changes \in SUBSET Changes,
         FilesOf(changes) \subseteq FilesOf(history.was), history' = Told(changes),
         NEW c \in Contexts, watcher' = [watcher EXCEPT !.context = c],
         c.state = context.state, c.hashes = context.hashes,
         c.reported \subseteq context.reported \cup changes,
         c.scanning <=> context.scanning, c.again <=> context.again,
         system' \in Systems, system'.directory,
         system'.files \subseteq DOMAIN context.hashes,
         system'.events \cap Files \subseteq DOMAIN context.hashes,
         system.events \cap {DirectoryChanged, Rescan} \subseteq system'.events,
         jobs' \subseteq Jobs, IsFiniteSet(jobs'),
         \A j \in jobs' : j.current => j \in jobs \/ Sincere(j),
         \A j : Scan(j) => (j \in jobs' <=> j \in jobs)
  PROVE  IInv'
<1>1. Typed /\ ReportsTrue
  BY DEF IInv
<1>2. watcher' \in Watchers /\ context' = c /\ (watcher'.suspended <=> watcher.suspended)
  BY <1>1, WatcherFacts
<1>3. Ready' /\ Begun' /\ Begun
  BY <1>2 DEF Ready, Begun
<1>4. Typed'
  BY <1>1, <1>2, ToldFacts DEF Typed
<1>5. ContextStands'
  BY <1>2, <1>3 DEF IInv, ContextStands, Ready
<1>6. JobsSincere'
  <2>1. history.was \subseteq history'.was
    BY <1>1, ToldFacts
  <2>2. ASSUME NEW j \in jobs', j.current
        PROVE  Sincere(j)
    BY <2>2 DEF IInv, JobsSincere
  <2> QED BY <1>2, <1>3, <2>1, <2>2, SincereKept DEF JobsSincere
<1>7. ReportsTrue'
  <2>1. /\ context.reported \cup changes \subseteq history'.told
        /\ FilesOf(history'.told) \subseteq FilesOf(history'.was) /\ history'.was = history.was
    BY <1>1, ToldFacts
  <2> QED BY <1>1, <1>2, <1>3, <2>1 DEF ReportsTrue
<1>8. OneScan'
  BY <1>2, OneScanKept DEF IInv
<1>9. ArrivalsComing'
  <2>1. (history'.told = {} => history.told = {}) /\ history'.byDirectory = history.byDirectory
    BY <1>1, ToldFacts
  <2> QED BY <1>2, <1>3, <2>1, ArrivalsKept DEF IInv
<1> QED BY <1>4, <1>5, <1>6, <1>7, <1>8, <1>9 DEF IInv

LEMMA VerificationInv ==
  ASSUME IInv, NEW j \in jobs, VerificationEnds(j)
  PROVE  IInv'
<1> DEFINE b == [context EXCEPT !.state = "ready"]
           c == Reporting(b, j.found)
<1>1. /\ Typed /\ j \in Jobs /\ j.current /\ j.kind = "verify" /\ Begun /\ Sincere(j)
      /\ j.found \subseteq Changes /\ FilesOf(j.found) \subseteq FilesOf(history.was)
  BY DEF IInv, Typed, JobsSincere, VerificationEnds, Answered, Relevant, Sincere, Jobs
<1>2. /\ c \in Contexts /\ c.state = "ready" /\ c.hashes = context.hashes
      /\ c.reported = context.reported \cup j.found
      /\ (c.scanning <=> context.scanning) /\ (c.again <=> context.again)
  <2>1. /\ b \in Contexts /\ b.state = "ready" /\ b.hashes = context.hashes
        /\ b.reported = context.reported
        /\ (b.scanning <=> context.scanning) /\ (b.again <=> context.again)
    BY <1>1, TypedFacts DEF Contexts
  <2> HIDE DEF b
  <2> QED BY <1>1, <2>1, ReportingFacts
<1>3. watcher' = [watcher EXCEPT !.context = c] /\ history' = Told(j.found)
      /\ jobs' = jobs \ {j} /\ UNCHANGED disk
  BY DEF VerificationEnds, context
<1> HIDE DEF c
<1>4. watcher' \in Watchers /\ context' = c /\ (watcher'.suspended <=> watcher.suspended)
  BY <1>1, <1>2, <1>3, WatcherFacts
<1>5. PICK files \in Watchable(Present) :
        system' = [system EXCEPT !.files = files, !.directory = TRUE]
  BY DEF VerificationEnds
<1>6. files \subseteq DOMAIN context.hashes /\ files \subseteq Files
  BY <1>1, TypedFacts, TableFacts DEF Watchable, Present
<1>7. /\ system' \in Systems /\ system'.files = files /\ system'.directory
      /\ system'.events = system.events
  BY <1>1, <1>5, <1>6 DEF Typed, Systems
<1>8. Ready' /\ Begun'
  BY <1>2, <1>4 DEF Ready, Begun
<1>9. Typed'
  BY <1>1, <1>3, <1>4, <1>7, ToldFacts, FS_RemoveElement DEF Typed, IInv
<1>10. ContextStands'
  <2>1. system.events \cap Files \subseteq DOMAIN context.hashes
    BY FilesAssumption DEF IInv, ContextStands
  <2>2. ~watcher.suspended
    BY <1>1 DEF IInv, ContextStands, Begun
  <2> QED BY <1>2, <1>4, <1>6, <1>7, <1>8, <2>1, <2>2 DEF ContextStands, Ready
<1>11. JobsSincere'
  <2>1. history.was \subseteq history'.was
    BY <1>1, <1>3, ToldFacts DEF IInv
  <2> QED BY <1>2, <1>3, <1>4, <1>8, <2>1, SincereKept DEF IInv, JobsSincere
<1>12. ReportsTrue'
  <2>1. /\ context.reported \cup j.found \subseteq history'.told
        /\ FilesOf(history'.told) \subseteq FilesOf(history'.was) /\ history'.was = history.was
    BY <1>1, <1>3, ToldFacts DEF IInv
  <2> QED BY <1>1, <1>2, <1>3, <1>4, <2>1 DEF IInv, ReportsTrue
<1>13. \A i : Scan(i) => (i \in jobs' <=> i \in jobs)
  BY <1>1, <1>3 DEF Scan
<1>14. OneScan'
  BY <1>2, <1>4, <1>13, OneScanKept DEF IInv
<1>15. ArrivalsComing'
  <2>1. (history'.told = {} => history.told = {}) /\ history'.byDirectory = history.byDirectory
    BY <1>1, <1>3, ToldFacts DEF IInv
  <2>2. CASE Ready
    BY <1>2, <1>3, <1>4, <1>7, <1>8, <1>13, <2>1, <2>2, ArrivalsKept DEF IInv
  <2>3. CASE ~Ready
    BY <2>1, <2>3 DEF IInv, ContextStands, ArrivalsComing
  <2> QED BY <2>2, <2>3
<1> QED BY <1>9, <1>10, <1>11, <1>12, <1>14, <1>15 DEF IInv

\* What the file system has noticed is of files that are watched and expected.
LEMMA EventFacts ==
  ASSUME Typed, NEW e
  PROVE  /\ [system EXCEPT !.events = system.events \ {e}] \in Systems
         /\ [system EXCEPT !.events = system.events \ {e}].files = system.files
         /\ ([system EXCEPT !.events = system.events \ {e}].directory <=> system.directory)
         /\ [system EXCEPT !.events = system.events \ {e}].events = system.events \ {e}
BY DEF Typed, Systems

LEMMA InspectFileInv ==
  ASSUME IInv, NEW f \in Files, InspectFile(f)
  PROVE  IInv'
<1> DEFINE h == context.hashes
           change == CASE ~Ready -> {}
                       [] Ready /\ ~Installed(disk, f) -> {Missing(f)}
                       [] OTHER -> IF Size(disk.file[f]) # Size(h[f]) THEN {Modified(f)} ELSE {}
           c == Reporting(context, change)
<1>1. Typed /\ f \in system.events /\ h \in Tables /\ disk \in Worlds /\ context \in Contexts
  BY TypedFacts DEF IInv, InspectFile, Typed
<1>2. Ready /\ f \in DOMAIN h
  BY <1>1, FilesAssumption DEF IInv, ContextStands
<1>3. change \in SUBSET Changes /\ FilesOf(change) \subseteq FilesOf(history.was)
  <2> DEFINE v == Verdict(h, disk, f)
  <2>1. FilesOf(v) \subseteq FilesOf(history.was) /\ v \subseteq Changes /\ FilesOf(v) \subseteq {f}
    BY <1>1, <1>2, FindsTrue, VerdictFacts DEF Ready, Begun
  <2>2. change = {} \/ (change \in {{Missing(f)}, {Modified(f)}} /\ v # {})
    <3>1. CASE ~Installed(disk, f)
      <4>1. change = {Missing(f)}
        BY <1>2, <3>1
      <4> QED BY <3>1, <4>1, <1>1, <1>2, VerdictFacts
    <3>2. CASE Installed(disk, f) /\ Size(disk.file[f]) # Size(h[f])
      <4>1. change = {Modified(f)}
        BY <1>2, <3>2
      <4>2. disk.file[f] # h[f]
        BY <3>2
      <4> QED BY <4>1, <4>2, <1>1, <1>2, VerdictFacts
    <3>3. CASE Installed(disk, f) /\ Size(disk.file[f]) = Size(h[f])
      BY <1>2, <3>3
    <3> QED BY <3>1, <3>2, <3>3
  <2> HIDE DEF change, v
  <2>3. CASE change = {}
    BY <2>3 DEF FilesOf
  <2>4. CASE change \in {{Missing(f)}, {Modified(f)}} /\ v # {}
    <3>1. FilesOf(v) = {f}
      BY <2>1, <2>4, FilesOfFacts
    <3>2. change \subseteq Changes /\ FilesOf(change) = {f}
      BY <2>4, ChangeFacts DEF FilesOf
    <3> QED BY <2>1, <3>1, <3>2
  <2> QED BY <2>2, <2>3, <2>4
<1>4. /\ system' = [system EXCEPT !.events = system.events \ {f}]
      /\ watcher' = [watcher EXCEPT !.context = c] /\ history' = Told(change) /\ UNCHANGED disk
      /\ jobs' \in {jobs, jobs \cup {Job("file", Restrict(h, {f}), {f})}}
  BY <1>2 DEF InspectFile, context
<1> HIDE DEF change
<1>5. /\ c \in Contexts /\ c.state = context.state /\ c.hashes = h
      /\ c.reported = context.reported \cup change
      /\ (c.scanning <=> context.scanning) /\ (c.again <=> context.again)
  BY <1>1, <1>3, ReportingFacts
<1> HIDE DEF c
<1>6. /\ system' \in Systems /\ system'.directory /\ system'.files \subseteq DOMAIN h
      /\ system'.events \cap Files \subseteq DOMAIN h
      /\ system.events \cap {DirectoryChanged, Rescan} \subseteq system'.events
  BY <1>1, <1>2, <1>4, EventFacts, FilesAssumption DEF IInv, ContextStands
<1>7. /\ jobs' \subseteq Jobs /\ IsFiniteSet(jobs')
      /\ \A i \in jobs' : i.current => i \in jobs \/ Sincere(i)
      /\ \A i : Scan(i) => (i \in jobs' <=> i \in jobs)
  <2>1. CASE jobs' = jobs
    BY <1>1, <2>1 DEF Typed
  <2>2. CASE jobs' = jobs \cup {Job("file", Restrict(h, {f}), {f})}
    <3>1. Restrict(h, {f}) \in Tables /\ DOMAIN Restrict(h, {f}) = {f}
      BY <1>1, <1>2, TableFacts
    <3>2. PICK k \in Jobs : /\ jobs' = jobs \cup {k} /\ k.current /\ k.kind = "file" /\ k.walked
                            /\ k.hashes = Restrict(h, {f}) /\ k.left = {f} /\ k.found = {}
      BY <1>1, <2>2, <3>1, JobFacts
    <3>3. Sincere(k)
      BY <1>2, <3>1, <3>2 DEF Sincere, FilesOf
    <3>4. jobs' \subseteq Jobs /\ IsFiniteSet(jobs')
      BY <1>1, <3>2, FS_AddElement DEF Typed
    <3>5. \A i : Scan(i) => (i \in jobs' <=> i \in jobs)
      BY <3>2 DEF Scan
    <3> QED BY <3>2, <3>3, <3>4, <3>5
  <2> QED BY <1>4, <2>1, <2>2
<1> QED BY <1>2, <1>3, <1>4, <1>5, <1>6, <1>7, ReportInv

LEMMA FileHashedInv ==
  ASSUME IInv, NEW j \in jobs, NEW f \in Files, f \in DOMAIN j.hashes, FileHashed(j, f)
  PROVE  IInv'
<1>1. /\ Typed /\ j \in Jobs /\ j.current /\ j.kind = "file" /\ Sincere(j) /\ Ready
      /\ FilesOf(j.found) \subseteq FilesOf(history.was)
      /\ FilesOf(j.found) \subseteq DOMAIN j.hashes
      /\ context \in Contexts
  BY TypedFacts DEF IInv, Typed, JobsSincere, FileHashed, Answered, Relevant, Sincere, Jobs
<1>2. DOMAIN j.hashes = {f} /\ f \in DOMAIN context.hashes
  <2>1. PICK g \in DOMAIN context.hashes : j.hashes = Restrict(context.hashes, {g})
    BY <1>1 DEF Sincere
  <2>2. DOMAIN j.hashes = {g}
    BY <2>1 DEF Restrict
  <2> QED BY <2>1, <2>2
<1>3. jobs' = jobs \ {j} /\ UNCHANGED disk
  BY DEF FileHashed
<1>4. /\ jobs' \subseteq Jobs /\ IsFiniteSet(jobs')
      /\ \A i \in jobs' : i.current => i \in jobs
      /\ \A i : Scan(i) => (i \in jobs' <=> i \in jobs)
  BY <1>1, <1>3, FS_RemoveElement DEF Typed, Scan
<1>5. CASE j.found # {}
  <2> DEFINE c == Reporting(context, {Modified(f)})
  <2>1. {Modified(f)} \in SUBSET Changes /\ FilesOf({Modified(f)}) = {f}
    BY ChangeFacts DEF FilesOf
  <2>2. FilesOf({Modified(f)}) \subseteq FilesOf(history.was)
    <3>1. FilesOf(j.found) = {f}
      BY <1>1, <1>2, <1>5, FilesOfFacts
    <3> QED BY <1>1, <2>1, <3>1
  <2>3. /\ watcher' = [watcher EXCEPT !.context = c] /\ history' = Told({Modified(f)})
        /\ UNCHANGED system
    BY <1>5 DEF FileHashed, context
  <2>4. /\ c \in Contexts /\ c.state = context.state /\ c.hashes = context.hashes
        /\ c.reported = context.reported \cup {Modified(f)}
        /\ (c.scanning <=> context.scanning) /\ (c.again <=> context.again)
    BY <1>1, <2>1, ReportingFacts
  <2> HIDE DEF c
  <2>5. /\ system' \in Systems /\ system'.directory
        /\ system'.files \subseteq DOMAIN context.hashes
        /\ system'.events \cap Files \subseteq DOMAIN context.hashes
        /\ system.events \cap {DirectoryChanged, Rescan} \subseteq system'.events
    BY <1>1, <2>3 DEF IInv, Typed, ContextStands
  <2> QED BY <1>1, <1>3, <1>4, <2>1, <2>2, <2>3, <2>4, <2>5, ReportInv
<1>6. CASE j.found = {}
  <2> DEFINE c == [context EXCEPT !.reported = context.reported \ {Missing(f), Modified(f)}]
  <2>1. watcher' = [watcher EXCEPT !.context = c] /\ UNCHANGED history
    BY <1>1, <1>6 DEF FileHashed, context, Typed, Watchers
  <2>2. PICK files \in Watchable({f} \cap Present) :
          system' = [system EXCEPT !.files = system.files \cup files]
    BY <1>6 DEF FileHashed
  <2>3. /\ c \in Contexts /\ c.state = context.state /\ c.hashes = context.hashes
        /\ c.reported \subseteq context.reported
        /\ (c.scanning <=> context.scanning) /\ (c.again <=> context.again)
    BY <1>1 DEF Contexts
  <2> HIDE DEF c
  <2>4. {} \in SUBSET Changes /\ FilesOf({}) \subseteq FilesOf(history.was) /\ history' = Told({})
    BY <1>1, <2>1 DEF FilesOf, Told, Typed, Histories
  <2>5. files \subseteq DOMAIN context.hashes /\ files \subseteq Files
    BY <1>2 DEF Watchable, Present
  <2>6. /\ system' \in Systems /\ system'.directory
        /\ system'.files \subseteq DOMAIN context.hashes
        /\ system'.events \cap Files \subseteq DOMAIN context.hashes
        /\ system.events \cap {DirectoryChanged, Rescan} \subseteq system'.events
    BY <1>1, <2>2, <2>5 DEF IInv, Typed, ContextStands, Systems
  <2> QED BY <1>1, <1>3, <1>4, <2>1, <2>3, <2>4, <2>6, ReportInv
<1> QED BY <1>5, <1>6

LEMMA InspectDirectoryInv ==
  ASSUME IInv, NEW event \in {DirectoryChanged, Rescan}, InspectDirectory(event)
  PROVE  IInv'
<1>1. /\ Typed /\ event \in system.events /\ context \in Contexts /\ context.hashes \in Tables
      /\ system' = [system EXCEPT !.events = system.events \ {event}]
      /\ UNCHANGED <<disk, history>>
  BY TypedFacts DEF IInv, InspectDirectory
<1>2. /\ system' \in Systems /\ system'.files = system.files
      /\ (system'.directory <=> system.directory) /\ system'.events = system.events \ {event}
  BY <1>1, EventFacts
<1>3. CASE Ready /\ ~context.scanning
  <2> DEFINE c == [context EXCEPT !.scanning = TRUE]
  <2>1. watcher' = [watcher EXCEPT !.context = c]
    BY <1>1, <1>3 DEF InspectDirectory, context, Typed, Watchers
  <2>2. /\ c \in Contexts /\ c.state = context.state /\ c.hashes = context.hashes
        /\ c.reported = context.reported /\ c.scanning /\ (c.again <=> context.again)
        /\ c.build = context.build
    BY <1>1 DEF Contexts
  <2> HIDE DEF c
  <2>3. watcher' \in Watchers /\ context' = c /\ (watcher'.suspended <=> watcher.suspended)
    BY <1>1, <2>1, <2>2, WatcherFacts
  <2>4. DOMAIN context.hashes \in SUBSET Files
    BY <1>1, TableFacts
  <2>5. PICK k \in Jobs : /\ jobs' = jobs \cup {k} /\ k.current /\ k.kind = "scan" /\ ~k.walked
                          /\ k.hashes = context.hashes /\ k.left = DOMAIN context.hashes
                          /\ k.found = {}
    <3>1. jobs' = jobs \cup {Job("scan", context.hashes, DOMAIN context.hashes)}
      BY <1>3 DEF InspectDirectory
    <3> QED BY <1>1, <2>4, <3>1, JobFacts
  <2>6. Typed'
    BY <1>1, <1>2, <2>3, <2>5, FS_AddElement DEF Typed
  <2>7. Ready' /\ Begun' /\ Begun
    BY <1>3, <2>2, <2>3 DEF Ready, Begun
  <2>8. ContextStands' /\ ReportsTrue'
    BY <1>1, <1>2, <1>3, <2>2, <2>3, <2>7 DEF IInv, ContextStands, ReportsTrue, Ready
  <2>9. JobsSincere'
    <3>1. Sincere(k)
      BY <1>3, <2>5 DEF Sincere, FilesOf
    <3> QED BY <1>1, <2>2, <2>3, <2>5, <2>7, <3>1, SincereKept DEF IInv, JobsSincere
  <2>10. OneScan'
    BY <1>3, <2>2, <2>3, <2>5 DEF IInv, OneScan, Scan
  <2>11. ArrivalsComing'
    <3>1. \A f : WillFind(k, f)'
      BY <2>2, <2>3, <2>5 DEF WillFind, Scan
    <3> QED BY <2>5, <3>1 DEF ArrivalsComing, Coming
  <2> QED BY <2>6, <2>8, <2>9, <2>10, <2>11 DEF IInv
<1>4. CASE ~Ready
  <2>1. UNCHANGED jobs /\ watcher' = [watcher EXCEPT !.context.again = context.again \/ Ready]
    BY <1>4 DEF InspectDirectory, context
  <2>2. ~context.again
    BY <1>4 DEF IInv, ContextStands
  <2>3. context.again = FALSE /\ (context.again \/ Ready) = FALSE
    BY <1>1, <1>4, <2>2, TypedFacts
  <2>4. watcher' = [watcher EXCEPT !.context.again = FALSE]
    BY <2>1, <2>3
  <2>5. watcher' = watcher
    BY <1>1, <2>3, <2>4 DEF Typed, Watchers, context, Contexts
  <2>6. context' = context /\ ~Ready' /\ (Begun' <=> Begun)
    BY <1>4, <2>5 DEF context, Ready, Begun
  <2>7. Typed'
    BY <1>1, <1>2, <2>1, <2>5 DEF Typed
  <2>8. ContextStands' /\ ReportsTrue'
    BY <1>1, <1>2, <1>4, <2>5, <2>6 DEF IInv, ContextStands, ReportsTrue
  <2>9. JobsSincere' /\ OneScan' /\ ArrivalsComing'
    BY <1>1, <1>4, <2>1, <2>6, SincereKept, OneScanKept DEF IInv, JobsSincere, ArrivalsComing
  <2> QED BY <2>7, <2>8, <2>9 DEF IInv
<1>5. CASE Ready /\ context.scanning
  <2> DEFINE c == [context EXCEPT !.again = TRUE]
  <2>1. UNCHANGED jobs /\ watcher' = [watcher EXCEPT !.context.again = context.again \/ Ready]
    BY <1>5 DEF InspectDirectory, context
  <2>2. (context.again \/ Ready) = TRUE
    BY <1>5
  <2>3. watcher' = [watcher EXCEPT !.context.again = TRUE]
    BY <2>1, <2>2
  <2>4. watcher' = [watcher EXCEPT !.context = c]
    BY <1>1, <2>3 DEF Typed, Watchers, context
  <2>5. /\ c \in Contexts /\ c.state = context.state /\ c.hashes = context.hashes
        /\ c.reported = context.reported /\ (c.scanning <=> context.scanning) /\ c.again
        /\ c.build = context.build
    BY <1>1 DEF Contexts
  <2> HIDE DEF c
  <2>6. watcher' \in Watchers /\ context' = c /\ (watcher'.suspended <=> watcher.suspended)
    BY <1>1, <2>4, <2>5, WatcherFacts
  <2>7. Ready' /\ Begun' /\ Begun
    BY <1>5, <2>5, <2>6 DEF Ready, Begun
  <2>8. Typed'
    BY <1>1, <1>2, <2>1, <2>6 DEF Typed
  <2>9. ContextStands' /\ ReportsTrue'
    BY <1>1, <1>2, <1>5, <2>5, <2>6, <2>7 DEF IInv, ContextStands, ReportsTrue, Ready
  <2>10. JobsSincere'
    BY <1>1, <2>1, <2>5, <2>6, <2>7, SincereKept DEF IInv, JobsSincere
  <2>11. OneScan' /\ ArrivalsComing'
    BY <1>5, <2>1, <2>5, <2>6 DEF IInv, OneScan, Scan, ArrivalsComing, Coming
  <2> QED BY <2>8, <2>9, <2>10, <2>11 DEF IInv
<1> QED BY <1>3, <1>4, <1>5

LEMMA ScanInv ==
  ASSUME IInv, NEW j \in jobs, ScanEnds(j)
  PROVE  IInv'
<1> DEFINE b == [context EXCEPT !.scanning = FALSE, !.again = FALSE,
                                !.reported = context.reported \cap j.found]
           c == Reporting(b, j.found)
<1>1. /\ Typed /\ j \in Jobs /\ Scan(j) /\ j.walked /\ j.left = {} /\ Sincere(j) /\ Ready
      /\ j.found \subseteq Changes /\ FilesOf(j.found) \subseteq FilesOf(history.was)
      /\ context \in Contexts /\ context.again \in BOOLEAN
  BY TypedFacts DEF IInv, Typed, JobsSincere, ScanEnds, Answered, Finished, Relevant, Sincere,
                    Jobs, Scan
<1>2. /\ c \in Contexts /\ c.state = "ready" /\ c.hashes = context.hashes
      /\ c.reported \subseteq context.reported \cup j.found /\ ~c.scanning /\ ~c.again
  <2>1. /\ b \in Contexts /\ b.state = "ready" /\ b.hashes = context.hashes
        /\ b.reported = context.reported \cap j.found /\ ~b.scanning /\ ~b.again
    BY <1>1 DEF Contexts, Ready
  <2> HIDE DEF b
  <2> QED BY <1>1, <2>1, ReportingFacts
<1>3. watcher' = [watcher EXCEPT !.context = c] /\ history' = Told(j.found)
      /\ jobs' = jobs \ {j} /\ UNCHANGED disk
  BY DEF ScanEnds, context
<1> HIDE DEF c
<1>4. watcher' \in Watchers /\ context' = c /\ (watcher'.suspended <=> watcher.suspended)
  BY <1>1, <1>2, <1>3, WatcherFacts
<1>5. /\ system' \in Systems /\ system'.directory
      /\ system'.files \subseteq DOMAIN context.hashes
      /\ system'.events \cap Files \subseteq DOMAIN context.hashes
      /\ system.events \subseteq system'.events
      /\ j.found = {} /\ context.again => Rescan \in system'.events
  <2>1. CASE j.found # {}
    BY <1>1, <2>1 DEF IInv, ContextStands, ScanEnds, Typed
  <2>2. CASE j.found = {}
    <3>1. PICK files \in Watchable(Present) :
            system' = [system EXCEPT !.files = system.files \cup files,
                                     !.events = system.events \cup Repeats(context)]
      BY <2>2 DEF ScanEnds
    <3>2. files \subseteq DOMAIN context.hashes /\ files \subseteq Files
      BY <1>1, TypedFacts, TableFacts DEF Watchable, Present
    <3>3. Repeats(context) \subseteq {Rescan} /\ (context.again => Rescan \in Repeats(context))
      BY <1>1 DEF Repeats
    <3>4. /\ system' \in Systems /\ system'.files = system.files \cup files
          /\ (system'.directory <=> system.directory)
          /\ system'.events = system.events \cup Repeats(context)
      BY <1>1, <3>1, <3>2, <3>3 DEF Typed, Systems
    <3> QED BY <1>1, <3>2, <3>3, <3>4, FilesAssumption DEF IInv, ContextStands
  <2> QED BY <2>1, <2>2
<1>6. Ready' /\ Begun' /\ Begun
  BY <1>1, <1>2, <1>4 DEF Ready, Begun
<1>7. Typed'
  BY <1>1, <1>3, <1>4, <1>5, ToldFacts, FS_RemoveElement DEF Typed, IInv
<1>8. ContextStands'
  BY <1>1, <1>2, <1>4, <1>5, <1>6 DEF IInv, ContextStands, Ready
<1>9. JobsSincere'
  <2>1. history.was \subseteq history'.was
    BY <1>1, <1>3, ToldFacts DEF IInv
  <2> QED BY <1>2, <1>3, <1>4, <1>6, <2>1, SincereKept DEF IInv, JobsSincere
<1>10. ReportsTrue'
  <2>1. /\ context.reported \cup j.found \subseteq history'.told
        /\ FilesOf(history'.told) \subseteq FilesOf(history'.was) /\ history'.was = history.was
    BY <1>1, <1>3, ToldFacts DEF IInv
  <2> QED BY <1>2, <1>3, <1>4, <1>6, <2>1 DEF IInv, ReportsTrue
<1>11. OneScan'
  BY <1>1, <1>2, <1>3, <1>4 DEF IInv, OneScan, Scan
<1>12. ArrivalsComing'
  <2> SUFFICES ASSUME history'.told = {}, NEW f \in history'.byDirectory, f \in Wronged'
               PROVE  Coming(f)'
    BY DEF ArrivalsComing
  <2>1. j.found = {} /\ history.told = {} /\ history'.byDirectory = history.byDirectory
    BY <1>1, <1>3, ToldFacts DEF IInv
  <2>2. f \in Wronged
    BY <1>2, <1>3, <1>4, <1>6, <1>1 DEF Wronged
  <2>3. Coming(f)
    BY <1>1, <2>1, <2>2 DEF IInv, ArrivalsComing
  <2>4. \A k \in jobs : WillFind(k, f) => k = j
    BY <1>1 DEF IInv, OneScan, WillFind
  <2>5. ~WillFind(j, f)
    BY <1>1, <2>1 DEF WillFind
  <2> QED BY <1>5, <2>1, <2>3, <2>4, <2>5 DEF Coming
<1> QED BY <1>7, <1>8, <1>9, <1>10, <1>11, <1>12 DEF IInv

(***************************************************************************)
(* The files change                                                        *)
(***************************************************************************)

LEMMA EditInv ==
  ASSUME IInv, Edit
  PROVE  IInv'
<1>1. Typed /\ UNCHANGED <<watcher, jobs>> /\ context' = context /\ context.hashes \in Tables
      /\ (Ready' <=> Ready) /\ (Begun' <=> Begun)
  BY TypedFacts DEF IInv, Edit, context, Ready, Begun
<1>2. PICK f \in Files, inplace \in BOOLEAN, content \in Content :
        /\ inplace => Installed(disk, f) /\ content # None
        /\ Changed(f, content, inplace)
  <2>1. PICK f \in Files, inplace \in BOOLEAN :
          \E content \in Contents[f] \cup {None} :
            /\ inplace => Installed(disk, f) /\ content # None
            /\ Changed(f, content, inplace)
    BY DEF Edit
  <2>2. Contents[f] \cup {None} \subseteq Content
    BY DEF Content
  <2> QED BY <2>1, <2>2
<1> DEFINE byFile == Installed(disk, f) /\ f \in system.files
           byDir  == ~inplace /\ system.directory
           noted  == (IF byFile THEN {f} ELSE {}) \cup (IF byDir THEN {DirectoryChanged} ELSE {})
           files  == IF inplace THEN system.files ELSE system.files \ {f}
           d      == [disk EXCEPT !.file[f] = content]
           one    == IF byFile /\ Ready THEN history.byFile \cup {f} ELSE history.byFile \ {f}
           two    == IF byDir /\ Ready THEN history.byDirectory \cup {f}
                                       ELSE history.byDirectory \ {f}
           wrong  == IF context.state \in {"none", "fetching"} THEN history.was
                     ELSE history.was \cup Wrong(context.hashes, d)
<1>3. /\ disk' = d
      /\ system' = [system EXCEPT !.files = files, !.events = system.events \cup noted]
  BY <1>2 DEF Changed
<1>4. history' = [history EXCEPT !.byFile = one, !.byDirectory = two, !.was = wrong]
  BY <1>2 DEF Changed
<1>5. /\ d \in Worlds /\ \A g \in Files : g # f => d.file[g] = disk.file[g]
      /\ d.file[f] = content
  BY <1>1 DEF Typed, Worlds
<1> HIDE DEF d
<1>6. Wrong(context.hashes, d) \subseteq Changes
  BY <1>1, <1>5, WrongFacts
<1>7. /\ history' \in Histories /\ history'.told = history.told /\ history'.was = wrong
      /\ history'.byDirectory = two
  <2>1. one \subseteq Files /\ two \subseteq Files /\ wrong \subseteq Changes
    BY <1>1, <1>6, TypedFacts
  <2> HIDE DEF one, two, wrong
  <2> QED BY <1>1, <1>4, <2>1 DEF Typed, Histories
<1>8. /\ history.was \subseteq history'.was
      /\ Begun => Wrong(context.hashes, d) \subseteq history'.was
  BY <1>7 DEF Begun
<1>9. /\ system' \in Systems /\ system'.files = files
      /\ (system'.directory <=> system.directory)
      /\ system'.events = system.events \cup noted
  <2>1. files \subseteq Files /\ noted \subseteq Files \cup {DirectoryChanged, Rescan}
    BY <1>1, TypedFacts
  <2> HIDE DEF files, noted
  <2> QED BY <1>1, <1>3, <2>1 DEF Typed, Systems
<1>10. Typed'
  BY <1>1, <1>3, <1>5, <1>7, <1>9 DEF Typed
<1>11. ContextStands'
  <2>1. CASE Ready
    <3>1. byFile => f \in DOMAIN context.hashes
      BY <2>1 DEF IInv, ContextStands
    <3>2. files \subseteq system.files
      OBVIOUS
    <3>3. noted \cap Files \subseteq DOMAIN context.hashes
      BY <3>1, FilesAssumption
    <3> HIDE DEF files, noted
    <3> QED BY <1>1, <1>9, <2>1, <3>2, <3>3 DEF IInv, ContextStands
  <2>2. CASE ~Ready
    <3>1. noted = {} /\ files = {} /\ two = {}
      BY <2>2 DEF IInv, ContextStands
    <3> QED BY <1>1, <1>7, <1>9, <2>2, <3>1 DEF IInv, ContextStands
  <2> QED BY <2>1, <2>2
<1>12. JobsSincere'
  BY <1>1, <1>8, SincereKept DEF IInv, JobsSincere
<1>13. ReportsTrue'
  <2>1. FilesOf(history.was) \subseteq FilesOf(history'.was)
    BY <1>8 DEF FilesOf
  <2>2. Begun => FilesOf(Wrong(context.hashes, d)) \subseteq FilesOf(history'.was)
    BY <1>8 DEF FilesOf
  <2> QED BY <1>1, <1>3, <1>7, <2>1, <2>2 DEF IInv, ReportsTrue
<1>14. OneScan'
  BY <1>1, OneScanKept DEF IInv
<1>15. ArrivalsComing'
  <2> SUFFICES ASSUME Ready, history.told = {}, NEW g \in two, g \in Wronged'
               PROVE  Coming(g)'
    BY <1>1, <1>7 DEF ArrivalsComing
  <2>1. CASE ~inplace
    <3>1. system.directory
      BY DEF IInv, ContextStands
    <3>2. DirectoryChanged \in system'.events
      BY <1>9, <2>1, <3>1
    <3> QED BY <3>2 DEF Coming
  <2>2. CASE inplace
    <3>1. g \in history.byDirectory /\ g # f /\ g \in Files
      BY <1>1, <2>2, TypedFacts
    <3>2. g \in FilesOf(Wrong(context.hashes, d))
      BY <1>1, <1>3 DEF Wronged
    <3>3. Installed(d, Dxvk) <=> Installed(disk, Dxvk)
      BY <1>2, <1>5, <2>2, FilesAssumption DEF Installed
    <3>4. g \in FilesOf(Wrong(context.hashes, disk))
      BY <1>1, <1>5, <3>1, <3>2, <3>3, WrongAlike DEF Typed
    <3>5. Coming(g)
      BY <3>1, <3>4 DEF IInv, ArrivalsComing, Wronged
    <3> QED BY <1>1, <1>9, <3>5 DEF Coming, WillFind, Scan
  <2> QED BY <2>1, <2>2
<1> QED BY <1>10, <1>11, <1>12, <1>13, <1>14, <1>15 DEF IInv

LEMMA LauncherWritesInv ==
  ASSUME IInv, LauncherWrites
  PROVE  IInv'
<1>1. /\ UNCHANGED <<watcher, system, jobs, history>> /\ context' = context /\ Typed
      /\ context.state = "none"
  BY DEF IInv, LauncherWrites, ContextStands, context
<1>2. ~Ready /\ ~Ready' /\ ~Begun /\ ~Begun'
  BY <1>1 DEF Ready, Begun
<1>3. PICK b \in Builds : disk' = Complete(b, disk)
  BY DEF LauncherWrites
<1>4. disk.file[Dxvk] \in Content
  BY <1>1, TypedFacts, FilesAssumption
<1>5. Typed'
  BY <1>1, <1>3, <1>4, CompleteFacts DEF Typed
<1>6. ContextStands' /\ ReportsTrue'
  BY <1>1, <1>2 DEF IInv, ContextStands, ReportsTrue
<1>7. JobsSincere' /\ OneScan' /\ ArrivalsComing'
  BY <1>1, <1>2, SincereKept, OneScanKept DEF IInv, JobsSincere, ArrivalsComing
<1> QED BY <1>5, <1>6, <1>7 DEF IInv

(***************************************************************************)
(* The theorems                                                            *)
(***************************************************************************)

LEMMA InitInv ==
  ASSUME Init
  PROVE  IInv
<1>1. PICK dxvk \in Contents[Dxvk] \cup {None} :
        disk = Complete(First, [file  |-> [f \in Files |-> IF f = Dxvk THEN dxvk ELSE None],
                                build |-> First])
  BY DEF Init
<1> DEFINE e == [file |-> [f \in Files |-> IF f = Dxvk THEN dxvk ELSE None], build |-> First]
<1>2. e.file[Dxvk] \in Content
  BY FilesAssumption DEF Content
<1> HIDE DEF e
<1>3. disk \in Worlds
  BY <1>1, <1>2, CompleteFacts, FilesAssumption DEF e
<1>4. /\ watcher \in Watchers /\ context = NoContext /\ ~watcher.suspended /\ jobs = {}
      /\ history = NoHistory /\ system = Unwatched
  BY NoContextFacts DEF Init, Watchers, context
<1>5. /\ system \in Systems /\ system.files = {} /\ ~system.directory /\ system.events = {}
  BY <1>4 DEF Unwatched, Systems
<1>6. ~Ready /\ ~Begun /\ context.state # "fetching"
  BY <1>4, NoContextFacts DEF Ready, Begun
<1>7. Typed
  BY <1>3, <1>4, <1>5, NoContextFacts, FS_EmptySet DEF Typed
<1>8. ContextStands /\ ReportsTrue
  BY <1>4, <1>5, <1>6, NoContextFacts DEF ContextStands, ReportsTrue, FilesOf
<1>9. JobsSincere /\ OneScan /\ ArrivalsComing
  BY <1>4, <1>6, NoContextFacts DEF JobsSincere, OneScan, ArrivalsComing
<1> QED BY <1>7, <1>8, <1>9 DEF IInv

LEMMA NextInv ==
  ASSUME IInv, [Next]_vars
  PROVE  IInv'
<1>1. CASE Suspend
  BY <1>1, SuspendInv
<1>2. CASE TimerFires \/ RefreshNow \/ Resume \/ ConfigChanged
  BY <1>2, TimersInv
<1>3. CASE Work
  BY <1>3, ReadInv, WalkInv DEF Work
<1>4. CASE Answer
  <2>1. PICK j \in jobs : \/ ManifestArrives(j) \/ VerificationEnds(j) \/ ScanEnds(j)
                          \/ Dropped(j)
                          \/ \E f \in Files : f \in DOMAIN j.hashes /\ FileHashed(j, f)
    BY <1>4 DEF Answer
  <2> QED BY <2>1, ManifestInv, VerificationInv, ScanInv, DroppedInv, FileHashedInv
<1>5. CASE Inspect
  BY <1>5, InspectFileInv, InspectDirectoryInv DEF Inspect
<1>6. CASE Edit
  BY <1>6, EditInv
<1>7. CASE LauncherWrites
  BY <1>7, LauncherWritesInv
<1>8. CASE UNCHANGED vars
  <2>1. /\ UNCHANGED <<disk, system, jobs, history, watcher>> /\ context' = context
        /\ watcher' \in Watchers
    BY <1>8 DEF vars, context, IInv, Typed
  <2> QED BY <2>1, SameInv
<1> QED BY <1>1, <1>2, <1>3, <1>4, <1>5, <1>6, <1>7, <1>8 DEF Next

(* What the watcher, the file system under it and the threads that read    *)
(* files have in common at any time, whatever is changed, suspended or     *)
(* begun anew meanwhile (GameIntegrityWatcher).                            *)
THEOREM WatcherInvariant == Spec => []IInv
<1>1. Init => IInv
  BY InitInv
<1>2. IInv /\ [Next]_vars => IInv'
  BY NextInv
<1> QED BY <1>1, <1>2, PTL DEF Spec

(* No file is reported that has not been wrong since the watcher began     *)
(* anew: the answer of an earlier generation is told to nobody             *)
(* (report_change, generation, set_suspended).                             *)
THEOREM NoFalseAlarmAlways == Spec => []NoFalseAlarm
<1>1. IInv => NoFalseAlarm
  <2> SUFFICES ASSUME IInv PROVE NoFalseAlarm
    OBVIOUS
  <2>1. Typed /\ FilesOf(history.told) \subseteq FilesOf(history.was)
    BY DEF IInv, ReportsTrue
  <2>2. history.told \cup history.was \subseteq Changes
    BY <2>1, TypedFacts
  <2>3. FilesOf(history.told \cup history.was) \subseteq Files
    BY <2>2 DEF FilesOf, Changes
  <2> QED BY <2>1, <2>3, TypedFacts DEF NoFalseAlarm, TypeOK
<1> QED BY <1>1, WatcherInvariant, PTL

(* What has come to the directory, or gone, is found: while it is wrong    *)
(* and nothing has been told, a scan is due, is asked for once more, or    *)
(* is under way and cannot miss it (inspect_directory, its pending scans). *)
THEOREM ArrivalsToldAlways == Spec => []ArrivalsTold
<1>1. IInv => ArrivalsTold
  <2> SUFFICES ASSUME IInv, history.told = {}, Quiet, NEW f \in history.byDirectory, f \in Wronged
               PROVE  FALSE
    BY DEF ArrivalsTold
  <2>1. Coming(f)
    BY DEF IInv, ArrivalsComing, Quiet
  <2>2. \A j \in jobs : ~Scan(j)
    BY DEF Quiet, Scan
  <2>3. ~context.again
    BY <2>2 DEF IInv, OneScan
  <2> QED BY <2>1, <2>2, <2>3 DEF Coming, WillFind, Quiet
<1> QED BY <1>1, WatcherInvariant, PTL
=============================================================================
