---------------------------- MODULE IntegrityWatch ----------------------------
(***************************************************************************)
(* GameIntegrityWatcher: while nothing of the launcher writes to a game,   *)
(* its files are compared with the manifest of the build once, and watched *)
(* from then on.  The watcher lives on the thread of the user interface;   *)
(* the manifest is fetched, and files are read, elsewhere, and meanwhile   *)
(* the files change, the watcher is suspended, or it begins anew.          *)
(*                                                                         *)
(* One game: the two contexts of the class share nothing but generation,   *)
(* and are always made and cleared together.  The game's files are in one  *)
(* directory.                                                              *)
(***************************************************************************)
EXTENDS Naturals, FiniteSets, Functions

CONSTANTS
  Files,      \* names of files there may be in the game's directory
  Contents,   \* Contents[f]: what may be in file f
  Size(_),    \* the length of a content
  Builds,     \* versions of the game
  First,      \* the one that is installed to begin with
  Manifest,   \* Manifest[b]: for the files of build b, their contents
  Allowed,    \* files that are nobody's business: settings, logs
  Dxvk,       \* the file whose presence says that DXVK is installed
  Backup,     \* Backup[f]: where DXVK puts the file of the game that it replaces
  MaxEdits,   \* changes of files by others (a bound)
  MaxTurns    \* suspensions, requests to begin anew (a bound)

None == "none"

\* Events of the system: the name of a file, or that something in the directory has come or
\* gone, or the timer that repeats a scan, which is none of the file system's.
DirectoryChanged == "directory changed"
Rescan == "rescan"

ASSUME FilesAssumption ==
  /\ Files \cap {DirectoryChanged, Rescan} = {}
  /\ First \in Builds
  /\ Dxvk \in Files /\ Allowed \subseteq Files
  /\ DOMAIN Backup \subseteq Files /\ Range(Backup) \subseteq Files
  /\ \A b \in Builds : DOMAIN Manifest[b] \subseteq Files \ {Dxvk}
  /\ \A f \in Files : None \notin Contents[f]
ASSUME WatchBoundsAssumption == MaxEdits \in Nat /\ MaxTurns \in Nat

VARIABLES
  disk,      \* the files, and the build that version.json names
  watcher,   \* GameIntegrityWatcher
  system,    \* QFileSystemWatcher: what is watched, and what has been noticed
  jobs,      \* requests and verifications that run elsewhere, or whose end is queued
  history,   \* what has been signalled, what was wrong, and what was noticed
  used       \* edits and turns so far

vars == <<disk, watcher, system, jobs, history, used>>

(***************************************************************************)
(* What the files should be                                                *)
(***************************************************************************)
Installed(d, f) == d.file[f] # None

\* apply_manifest(): with DXVK installed, the files that it replaces are expected elsewhere.
Expected(b, d) ==
  LET manifest == Manifest[b]
      moved    == IF Installed(d, Dxvk) THEN DOMAIN manifest \cap DOMAIN Backup ELSE {}
  IN [f \in (DOMAIN manifest \ moved) \cup {Backup[g] : g \in moved} |->
        IF \E g \in moved : Backup[g] = f
        THEN manifest[CHOOSE g \in moved : Backup[g] = f] ELSE manifest[f]]

Missing(f)    == [kind |-> "missing", file |-> f]
Modified(f)   == [kind |-> "modified", file |-> f]
Unexpected(f) == [kind |-> "unexpected", file |-> f]

\* The files of a build, and those of others, as d has them.
Complete(b, d) ==
  LET hashes == Expected(b, d)
  IN [file  |-> [f \in Files |-> IF f \in DOMAIN hashes THEN hashes[f]
                                 ELSE IF f = Dxvk THEN d.file[f] ELSE None],
      build |-> b]

\* (mutant of Verdict: what is in the file does not matter)
VerdictByPresence(hashes, d, f) == IF Installed(d, f) THEN {} ELSE {Missing(f)}
\* What a verification says of one file that the manifest names.
Verdict(hashes, d, f) ==
  IF ~Installed(d, f) THEN {Missing(f)}
  ELSE IF d.file[f] # hashes[f] THEN {Modified(f)} ELSE {}

\* unexpected_files()
DxvkFiles(hashes, d) ==
  IF Installed(d, Dxvk) /\ DOMAIN hashes \cap Range(Backup) # {}
  THEN {Dxvk} \cup DOMAIN Backup ELSE {}
UnexpectedFiles(hashes, d) ==
  {Unexpected(f) : f \in {g \in Files : Installed(d, g)}
                          \ (DOMAIN hashes \cup Allowed \cup DxvkFiles(hashes, d))}

Wrong(hashes, d) ==
  (UNION {Verdict(hashes, d, f) : f \in DOMAIN hashes}) \cup UnexpectedFiles(hashes, d)

FilesOf(changes) == {c.file : c \in changes}

(***************************************************************************)
(* State                                                                   *)
(***************************************************************************)
NoHashes == [f \in {} |-> None]

\* state: none, or the manifest is fetched, or the files are verified, or ready.
NoContext == [state |-> "none", build |-> None, hashes |-> NoHashes, reported |-> {},
              scanning |-> FALSE, again |-> FALSE]

Unwatched == [files |-> {}, directory |-> FALSE, events |-> {}]

NoHistory == [told |-> {}, was |-> {}, byFile |-> {}, byDirectory |-> {}]

Init ==
  /\ \E dxvk \in Contents[Dxvk] \cup {None} :
       disk = Complete(First, [file  |-> [f \in Files |-> IF f = Dxvk THEN dxvk ELSE None],
                               build |-> First])
  /\ watcher = [suspended |-> FALSE, timer |-> TRUE, context |-> NoContext]
  /\ system = Unwatched
  /\ jobs = {}
  /\ history = NoHistory
  /\ used = [edits |-> 0, turns |-> 0]

context == watcher.context
Ready   == context.state = "ready"

TypeOK ==
  /\ disk.build \in Builds
  /\ context.state \in {"none", "fetching", "verifying", "ready"}
  /\ system.files \subseteq Files
  /\ system.events \subseteq Files \cup {DirectoryChanged, Rescan}
  /\ FilesOf(history.told \cup history.was) \subseteq Files

(***************************************************************************)
(* Jobs.  current says that the generation has not changed since the job   *)
(* began.                                                                  *)
(***************************************************************************)
FreeId == CHOOSE i \in 1 .. Cardinality(jobs) + 1 : \A j \in jobs : j.id # i

Job(kind, hashes, left) ==
  [id |-> FreeId, kind |-> kind, current |-> TRUE, hashes |-> hashes, left |-> left,
   walked |-> kind \in {"fetch", "file"}, found |-> {}]

\* (mutant of Relevant: the generation is not compared)
RelevantAnyway(j) == context.state # "none"
\* The answer of a job is for this context.
Relevant(j) == j.current

Finished(j) == j.left = {} /\ j.walked

\* ++generation
Outdated(js) == {[j EXCEPT !.current = FALSE] : j \in js}

\* One file is looked at and hashed.
ReadFile(j, f) ==
  /\ Relevant(j) /\ f \in j.left
  /\ jobs' = (jobs \ {j}) \cup
             {[j EXCEPT !.left = @ \ {f}, !.found = @ \cup Verdict(j.hashes, disk, f)]}
  /\ UNCHANGED <<disk, watcher, system, history, used>>

\* The directory is walked, after the files have been read.
WalkDirectory(j) ==
  /\ Relevant(j) /\ j.left = {} /\ ~j.walked
  /\ jobs' = (jobs \ {j}) \cup
             {[j EXCEPT !.walked = TRUE, !.found = @ \cup UnexpectedFiles(j.hashes, disk)]}
  /\ UNCHANGED <<disk, watcher, system, history, used>>

(***************************************************************************)
(* The watcher                                                             *)
(***************************************************************************)
\* clear_watchers(): what the file system has noticed and nobody handled is gone with it.
Cleared == [Unwatched EXCEPT !.events = system.events \cap {Rescan}]

\* report_change()
Reporting(c, changes) == [c EXCEPT !.reported = @ \cup changes]
Told(changes) == [history EXCEPT !.told = @ \cup (changes \ context.reported)]

Turn == used.turns < MaxTurns /\ used' = [used EXCEPT !.turns = @ + 1]

Suspend ==
  /\ ~watcher.suspended
  /\ Turn
  /\ watcher' = [suspended |-> TRUE, timer |-> FALSE, context |-> NoContext]
  /\ jobs' = Outdated(jobs)
  /\ system' = Cleared
  /\ history' = NoHistory
  /\ UNCHANGED disk

Resume ==
  /\ watcher.suspended
  /\ watcher' = [watcher EXCEPT !.suspended = FALSE, !.timer = TRUE]
  /\ UNCHANGED <<disk, system, jobs, history, used>>

\* refresh() and load_context()
Refreshed ==
  /\ watcher' = [watcher EXCEPT !.timer = FALSE,
                                !.context = [NoContext EXCEPT !.state = "fetching",
                                                              !.build = disk.build]]
  /\ jobs' = Outdated(jobs) \cup {Job("fetch", NoHashes, {})}
  /\ system' = Cleared
  /\ history' = NoHistory

TimerFires ==
  /\ watcher.timer
  /\ IF watcher.suspended
     THEN /\ watcher' = [watcher EXCEPT !.timer = FALSE]
          /\ UNCHANGED <<jobs, system, history>>
     ELSE Refreshed
  /\ UNCHANGED <<disk, used>>

\* The launcher has started, or its language has been chosen: refresh() at once.
RefreshNow == /\ ~watcher.suspended
              /\ Turn
              /\ Refreshed
              /\ UNCHANGED disk

\* The configuration has changed: the timer is started, also in a suspension.
ConfigChanged == /\ ~watcher.timer
                 /\ Turn
                 /\ watcher' = [watcher EXCEPT !.timer = TRUE]
                 /\ UNCHANGED <<disk, system, jobs, history>>

Answered(kind, j) == j \in jobs /\ j.kind = kind /\ Finished(j)
\* The answer of an earlier generation is dropped whenever it comes; what its job has read
\* since makes no difference, and is left out.
Dropped(j) == /\ ~Relevant(j)
              /\ jobs' = jobs \ {j}
              /\ UNCHANGED <<disk, watcher, system, history, used>>

\* The answer to fetch_manifest(), then apply_manifest(); the request or the manifest may be
\* of no use, and nothing asks again.
ManifestArrives(j) ==
  /\ Answered("fetch", j)
  /\ Relevant(j)
  /\ \/ /\ context.state = "fetching"
        /\ LET hashes == Expected(context.build, disk)
           IN /\ watcher' = [watcher EXCEPT !.context.state = "verifying",
                                            !.context.hashes = hashes]
              /\ jobs' = (jobs \ {j}) \cup {Job("verify", hashes, DOMAIN hashes)}
              /\ history' = [history EXCEPT !.was = Wrong(hashes, disk)]
     \/ /\ jobs' = jobs \ {j}
        /\ UNCHANGED <<watcher, history>>
  /\ UNCHANGED <<disk, system, used>>

\* The files that the system agrees to watch: as many as its limits allow.
Watchable(files) == {files, {}}

\* The files that install_watchers() and a clean scan want to be watched.
Present == {f \in DOMAIN context.hashes : Installed(disk, f)}

\* The end of the first verification: install_watchers(), then report_change().
VerificationEnds(j) ==
  /\ Answered("verify", j)
  /\ Relevant(j)
  /\ watcher' = [watcher EXCEPT !.context = Reporting([@ EXCEPT !.state = "ready"], j.found)]
  /\ \E files \in Watchable(Present) :
       system' = [system EXCEPT !.files = files, !.directory = TRUE]
  /\ history' = Told(j.found)
  /\ jobs' = jobs \ {j}
  /\ UNCHANGED <<disk, used>>

\* inspect_file(): a file that is gone, or has another length, is reported at once; otherwise
\* it is hashed.
InspectFile(f) ==
  /\ f \in system.events \cap Files
  /\ system' = [system EXCEPT !.events = @ \ {f}]
  /\ LET hashes == context.hashes
         change == CASE ~Ready -> {}
                     [] Ready /\ ~Installed(disk, f) -> {Missing(f)}
                     [] OTHER -> IF Size(disk.file[f]) # Size(hashes[f]) THEN {Modified(f)} ELSE {}
     IN /\ watcher' = [watcher EXCEPT !.context = Reporting(@, change)]
        /\ history' = Told(change)
        /\ jobs' = IF Ready /\ change = {}
                   THEN jobs \cup {Job("file", Restrict(hashes, {f}), {f})} ELSE jobs
  /\ UNCHANGED <<disk, used>>

\* A file that is as it should be is watched again, if the replacement of the file has ended
\* its watch.
FileHashed(j, f) ==
  /\ Answered("file", j)
  /\ Relevant(j)
  /\ jobs' = jobs \ {j}
  /\ IF j.found # {}
     THEN /\ watcher' = [watcher EXCEPT !.context = Reporting(@, {Modified(f)})]
          /\ history' = Told({Modified(f)})
          /\ UNCHANGED system
     ELSE /\ watcher' = [watcher EXCEPT !.context.reported = @ \ {Missing(f), Modified(f)}]
          /\ \E files \in Watchable({f} \cap Present) :
               system' = [system EXCEPT !.files = @ \cup files]
          /\ UNCHANGED history
  /\ UNCHANGED <<disk, used>>

\* inspect_directory(), called for the directory or by the timer that repeats a scan.
InspectDirectory(event) ==
  /\ event \in system.events \cap {DirectoryChanged, Rescan}
  /\ system' = [system EXCEPT !.events = @ \ {event}]
  /\ IF Ready /\ ~context.scanning
     THEN /\ watcher' = [watcher EXCEPT !.context.scanning = TRUE]
          /\ jobs' = jobs \cup {Job("scan", context.hashes, DOMAIN context.hashes)}
     ELSE /\ watcher' = [watcher EXCEPT !.context.again = @ \/ Ready]
          /\ UNCHANGED jobs
  /\ UNCHANGED <<disk, history, used>>

\* (mutant of Repeats: the request that came during the scan is forgotten)
NeverRepeats(c) == {}
\* What is left to do after a scan that has found nothing.
Repeats(c) == IF c.again THEN {Rescan} ELSE {}

\* The end of a scan.  What it has not found is no longer reported; when it has found
\* something, neither are the watches restored nor is a requested scan repeated.
ScanEnds(j) ==
  /\ Answered("scan", j)
  /\ Relevant(j)
  /\ jobs' = jobs \ {j}
  /\ LET c == [context EXCEPT !.scanning = FALSE, !.again = FALSE,
                              !.reported = @ \cap j.found]
     IN /\ watcher' = [watcher EXCEPT !.context = Reporting(c, j.found)]
        /\ history' = Told(j.found)
        /\ IF j.found # {}
           THEN UNCHANGED system
           ELSE \E files \in Watchable(Present) :
                  system' = [system EXCEPT !.files = @ \cup files,
                                           !.events = @ \cup Repeats(context)]
  /\ UNCHANGED <<disk, used>>

(***************************************************************************)
(* The files change                                                        *)
(***************************************************************************)
\* A file is rewritten in place, or removed, made, or replaced by another of its name.  Only a
\* watched file's own changes are noticed, and a watch ends with its file; the directory
\* notices what comes and goes.
Changed(f, content, inplace) ==
  LET before  == Installed(disk, f)
      byFile  == before /\ f \in system.files
      byDir   == ~inplace /\ system.directory
      d       == [disk EXCEPT !.file[f] = content]
      Noted(set, noticed) == IF noticed /\ Ready THEN set \cup {f} ELSE set \ {f}
  IN /\ disk' = d
     /\ system' = [system EXCEPT !.files = IF inplace THEN @ ELSE @ \ {f},
                                 !.events = @ \cup (IF byFile THEN {f} ELSE {})
                                              \cup (IF byDir THEN {DirectoryChanged} ELSE {})]
     /\ history' = [history EXCEPT
                      !.byFile = Noted(@, byFile),
                      !.byDirectory = Noted(@, byDir),
                      !.was = IF context.state \in {"none", "fetching"} THEN @
                              ELSE @ \cup Wrong(context.hashes, d)]

\* Somebody other than the launcher.
Edit == /\ used.edits < MaxEdits
        /\ used' = [used EXCEPT !.edits = @ + 1]
        /\ \E f \in Files, inplace \in BOOLEAN : \E content \in Contents[f] \cup {None} :
             /\ content # disk.file[f]
             /\ inplace => Installed(disk, f) /\ content # None
             /\ Changed(f, content, inplace)
        /\ UNCHANGED <<watcher, jobs>>

\* The launcher: a repair, or an update to another build, while the watcher is suspended.
LauncherWrites ==
  /\ watcher.suspended
  /\ \E b \in Builds : disk' = Complete(b, disk)
  /\ disk' # disk
  /\ UNCHANGED <<watcher, system, jobs, history, used>>

(***************************************************************************)
(* Specification                                                           *)
(***************************************************************************)
Work == \E j \in jobs : WalkDirectory(j) \/ \E f \in Files : ReadFile(j, f)

Answer == \E j \in jobs :
            \/ ManifestArrives(j) \/ VerificationEnds(j) \/ ScanEnds(j)
            \/ Dropped(j)
            \/ \E f \in Files : f \in DOMAIN j.hashes /\ FileHashed(j, f)

Inspect == \/ \E f \in Files : InspectFile(f)
           \/ \E event \in {DirectoryChanged, Rescan} : InspectDirectory(event)

Next == \/ Suspend \/ Resume \/ TimerFires \/ RefreshNow \/ ConfigChanged
        \/ Work \/ Answer \/ Inspect
        \/ Edit \/ LauncherWrites

\* Threads read on, and the event loop handles what is queued and its timers.
Fairness == WF_vars(TimerFires) /\ WF_vars(Work) /\ WF_vars(Answer) /\ WF_vars(Inspect)

Spec == Init /\ [][Next]_vars /\ Fairness

(***************************************************************************)
(* Properties                                                              *)
(***************************************************************************)
\* A file that is reported has been wrong since the watcher began anew: no answer of an
\* earlier generation, from before a repair or an update, is told (generation,
\* set_suspended, refresh).
NoFalseAlarm == TypeOK /\ FilesOf(history.told) \subseteq FilesOf(history.was)

Wronged == IF Ready THEN FilesOf(Wrong(context.hashes, disk)) ELSE {}
Broken(f) == Ready /\ f \in DOMAIN context.hashes /\ disk.file[f] # context.hashes[f]

\* Nothing is going on, and nothing will.
Quiet == /\ Ready /\ ~watcher.timer
         /\ system.events = {}
         /\ \A j \in jobs : ~j.current

\* Something that has come to the directory, or gone, is not overlooked: when all is quiet and
\* it is still wrong, a change has been reported since the watcher began, and the repair that
\* is offered looks at everything (inspect_directory, its pending scans).
ArrivalsTold ==
  history.told = {} /\ history.byDirectory # {} /\ Quiet => history.byDirectory \cap Wronged = {}

\* Watched files that are changed are reported, or made good again, or the watcher begins
\* anew: once others leave the files alone, none is left that was noticed, is wrong and has
\* not been told (inspect_file, report_change).
Untold == \E f \in history.byFile : Broken(f) /\ f \notin FilesOf(history.told)
DamageTold == Untold ~> ~Untold
===============================================================================
