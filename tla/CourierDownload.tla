--------------------------- MODULE CourierDownload ---------------------------
(***************************************************************************)
(* The download of a release into the staging directory: the requests for  *)
(* the version and the manifest, then one task per file, some at a time,   *)
(* each with a request that is resumed, retried after a wait, and checked  *)
(* against the hash of the manifest.  CourierUpdate has all this in one    *)
(* action, and is shown to be right about it.  A file's bytes are counted  *)
(* in pieces; nobody else writes to the staging directory meanwhile, and   *)
(* what is in it can be opened.                                            *)
(***************************************************************************)
EXTENDS GameFiles, Naturals, FiniteSets

CONSTANTS
  Sizes,      \* what the manifest may give for one, in pieces
  Attempts,   \* how often one thing is asked for (3)
  Tasks       \* how many files are under way at a time (4)

ASSUME SizesAssumption    == Sizes \subseteq Nat
ASSUME AttemptsAssumption == Attempts \in Nat \ {0}
ASSUME TasksAssumption    == Tasks \in Nat \ {0}

VARIABLES
  size,     \* the manifest
  stored,   \* the file in the staging directory
  task,     \* prepareReplacement() for each file
  fetching        \* the operation

downloadVars == <<size, stored, task, fetching>>

Nothing == [there |-> FALSE, length |-> 0, right |-> TRUE]

\* wrong is history: the server has sent wrong bytes for this file during the operation.
Waiting == [pc |-> "waiting", attempt |-> 0, offset |-> 0, clean |-> FALSE, wrong |-> FALSE]

\* fault is history too: something has gone wrong outside the launcher, or was cancelled.
OpIdle(result) == [pc |-> "idle", attempt |-> 0, cancelled |-> FALSE, fault |-> FALSE,
                   result |-> result]

Under == {f \in Files : task[f].pc \notin {"waiting", "done", "failed", "mismatch"}}

Complete(f) == stored[f].there /\ stored[f].length = size[f] /\ stored[f].right

DownloadInit ==
  /\ size \in [Files -> Sizes]
  /\ stored = [f \in Files |-> Nothing]
  /\ task = [f \in Files |-> Waiting]
  /\ fetching = OpIdle("none")

(***************************************************************************)
(* What can become of a request                                            *)
(***************************************************************************)
\* The connection fails, or the server is busy: 408, 429, 5xx.
Again(attempt) == attempt < Attempts

Fault == fetching' = [fetching EXCEPT !.fault = TRUE]

\* The task that fails ends the others: its error leaves the group, which cancels them.
Fails(f, pc) ==
  /\ task' = [task EXCEPT ![f].pc = pc]
  /\ fetching' = [fetching EXCEPT !.cancelled = TRUE, !.fault = @ \/ pc = "failed"]

Transient(f) ==
  \/ /\ Again(task[f].attempt)
     /\ task' = [task EXCEPT ![f].pc = "backoff"]
     /\ Fault
  \/ /\ ~Again(task[f].attempt)
     /\ Fails(f, "failed")

(***************************************************************************)
(* The operation                                                           *)
(***************************************************************************)
\* An update asks for the version; a repair has it.
StartDownload ==
  /\ fetching.pc = "idle"
  /\ \E pc \in {"version", "manifest"} : fetching' = [OpIdle("none") EXCEPT !.pc = pc, !.attempt = 1]
  /\ task' = [f \in Files |-> Waiting]
  /\ UNCHANGED <<size, stored>>

\* The staging directory is for this very manifest, or is emptied.
MatchStaging ==
  \/ UNCHANGED <<size, stored>>
  \/ /\ size' \in [Files -> Sizes]
     /\ stored' = [f \in Files |-> Nothing]

\* What a request for the version or the manifest can come to; an unsound one is a version
\* with strange characters, or a manifest that validateManifest() refuses.
Answers == [got : {"data", "busy", "refused", "nothing"}, sound : BOOLEAN]

Passing(a) == a.got \in {"busy", "nothing"}

\* fetchData() asks again for what may pass; nothing else is tried again.
FetchData(a) ==
  \/ /\ Passing(a) /\ Again(fetching.attempt)
     /\ fetching' = [fetching EXCEPT !.attempt = @ + 1, !.fault = TRUE]
  \/ /\ ~(Passing(a) /\ Again(fetching.attempt)) /\ ~(a.got = "data" /\ a.sound)
     /\ fetching' = [OpIdle("failed") EXCEPT !.fault = TRUE]

FetchVersion ==
  /\ fetching.pc = "version" /\ ~fetching.cancelled
  /\ \E a \in Answers :
       \/ FetchData(a)
       \/ /\ a.got = "data" /\ a.sound
          /\ fetching' = [fetching EXCEPT !.pc = "manifest", !.attempt = 1]
  /\ UNCHANGED <<size, stored, task>>

FetchManifest ==
  /\ fetching.pc = "manifest" /\ ~fetching.cancelled
  /\ \E a \in Answers :
       \/ /\ FetchData(a)
          /\ UNCHANGED <<size, stored>>
       \/ /\ a.got = "data" /\ a.sound
          /\ fetching' = [fetching EXCEPT !.pc = "files", !.attempt = 1]
          /\ MatchStaging
  /\ UNCHANGED task

StopFetching ==
  /\ fetching.pc \in {"version", "manifest"} /\ fetching.cancelled
  /\ fetching' = [OpIdle("failed") EXCEPT !.fault = TRUE]
  /\ UNCHANGED <<size, stored, task>>

Fetch == FetchVersion \/ FetchManifest \/ StopFetching

\* The group takes another file whenever one is done.
Begin(f) ==
  /\ fetching.pc = "files" /\ ~fetching.cancelled
  /\ task[f].pc = "waiting" /\ Cardinality(Under) < Tasks
  /\ task' = [task EXCEPT ![f].pc = "look"]
  /\ UNCHANGED <<size, stored, fetching>>

Finish ==
  /\ fetching.pc = "files" /\ Under = {}
  /\ \/ /\ \A f \in Files : task[f].pc = "done"
        /\ fetching' = [OpIdle("staged") EXCEPT !.fault = fetching.fault]
     \/ /\ fetching.cancelled
        /\ fetching' = [OpIdle("failed") EXCEPT !.fault = fetching.fault]
  /\ UNCHANGED <<size, stored, task>>

Cancel ==
  /\ fetching.pc # "idle" /\ ~fetching.cancelled
  /\ fetching' = [fetching EXCEPT !.cancelled = TRUE, !.fault = TRUE]
  /\ UNCHANGED <<size, stored, task>>

DownloadCrashes ==
  /\ fetching.pc # "idle"
  /\ fetching' = OpIdle("none")
  /\ task' = [f \in Files |-> Waiting]
  /\ UNCHANGED <<size, stored>>

(***************************************************************************)
(* One file: prepareReplacement(), streamingDownload()                     *)
(***************************************************************************)
\* A request for what is missing, or for all of it when there is nothing to go on from.
Send(f, attempt) ==
  LET rest == stored[f].length > 0 /\ stored[f].length < size[f]
  IN  /\ task' = [task EXCEPT ![f].pc = "sent", ![f].attempt = attempt,
                              ![f].offset = IF rest THEN stored[f].length ELSE 0]
      /\ stored' = IF stored[f].length >= size[f] THEN [stored EXCEPT ![f] = Nothing] ELSE stored

\* (mutant of Enough: what is complete is downloaded once more)
EnoughAndVerified(f) == FALSE

Enough(f) == stored[f].length = size[f]

\* What is stored decides: too much goes, too little is asked for, enough is verified.
Look(f) ==
  /\ task[f].pc = "look" /\ ~fetching.cancelled
  /\ \/ /\ Enough(f)
        /\ task' = [task EXCEPT ![f].pc = "verify"]
        /\ UNCHANGED stored
     \/ /\ ~Enough(f)
        /\ Send(f, 1)
  /\ UNCHANGED <<size, fetching>>

\* After the wait of an attempt that has failed.
Retry(f) ==
  /\ task[f].pc = "backoff" /\ ~fetching.cancelled
  /\ Send(f, task[f].attempt + 1)
  /\ UNCHANGED <<size, fetching>>

\* 206 from where we have asked for it to go on.
Resumed(f) ==
  /\ task[f].offset > 0
  /\ task' = [task EXCEPT ![f].pc = "receiving"]
  /\ UNCHANGED <<stored, fetching>>

\* 2xx: all of it, asked for or not.
FromTheStart(f) ==
  /\ task' = [task EXCEPT ![f].pc = "receiving"]
  /\ stored' = [stored EXCEPT ![f] = [Nothing EXCEPT !.there = TRUE]]
  /\ UNCHANGED fetching

\* 206 from elsewhere, or 416: the saved part goes.
Rejected(f) ==
  /\ task[f].offset > 0
  /\ stored' = [stored EXCEPT ![f] = Nothing]
  /\ Transient(f)

\* Any other status, a redirect elsewhere; or the file cannot be opened, once a saved part
\* that is not gone on from has been removed.
Refused(f) ==
  /\ Fails(f, "failed")
  /\ stored' \in {stored, [stored EXCEPT ![f] = Nothing]}

Respond(f) ==
  /\ task[f].pc = "sent"
  /\ \/ Resumed(f)
     \/ FromTheStart(f)
     \/ Rejected(f)
     \/ Refused(f)
     \/ Transient(f) /\ UNCHANGED stored
  /\ UNCHANGED size

\* A piece is written to the end of the file; the server may send too much of them.
Receive(f) ==
  /\ task[f].pc = "receiving" /\ stored[f].length <= size[f]
  /\ \E right \in BOOLEAN :
       /\ stored' = [stored EXCEPT ![f].length = @ + 1, ![f].right = @ /\ right]
       /\ task' = [task EXCEPT ![f].wrong = @ \/ ~right]
       /\ fetching' = [fetching EXCEPT !.fault = @ \/ ~right]
  /\ UNCHANGED size

\* The connection is closed, or lost; or the disk is full.
EndOfData(f) ==
  /\ task[f].pc = "receiving"
  /\ \/ /\ stored[f].length = size[f]
        /\ task' = [task EXCEPT ![f].pc = "verify"]
        /\ UNCHANGED fetching
     \/ Transient(f)
     \/ Fails(f, "failed")
  /\ UNCHANGED <<size, stored>>

\* (mutant of Cleared: the file whose hash is wrong stays)
NotCleared(f) == stored

Cleared(f) == [stored EXCEPT ![f] = Nothing]

\* (mutant of LastTime: every mismatch is downloaded again)
NeverLast(f) == FALSE

\* performedCleanRedownload
LastTime(f) == task[f].clean

Verify(f) ==
  /\ task[f].pc = "verify" /\ ~fetching.cancelled
  /\ \/ /\ Complete(f)
        /\ task' = [task EXCEPT ![f].pc = "done"]
        /\ UNCHANGED <<stored, fetching>>
     \/ /\ ~Complete(f)
        /\ stored' = Cleared(f)
        /\ IF LastTime(f) THEN Fails(f, "mismatch")
           ELSE task' = [task EXCEPT ![f].pc = "look", ![f].clean = TRUE] /\ UNCHANGED fetching
     \/ Fails(f, "failed") /\ UNCHANGED stored
  /\ UNCHANGED size

\* A task that has been cancelled ends where it looks, or waits.
Stop(f) ==
  /\ fetching.cancelled /\ f \in Under
  /\ task' = [task EXCEPT ![f].pc = "failed"]
  /\ UNCHANGED <<size, stored, fetching>>

Task(f) ==
  \/ Look(f) \/ Retry(f) \/ Respond(f) \/ Receive(f) \/ EndOfData(f) \/ Verify(f) \/ Stop(f)

DownloadNext ==
  \/ StartDownload \/ Fetch \/ Finish \/ Cancel \/ DownloadCrashes
  \/ \E f \in Files : Begin(f) \/ Task(f)

\* The tasks of the operation are run, and a request that gets no answer times out.
Fairness ==
  /\ WF_downloadVars(Fetch) /\ WF_downloadVars(Finish)
  /\ \A f \in Files : WF_downloadVars(Begin(f)) /\ WF_downloadVars(Task(f))

DownloadSpec == DownloadInit /\ [][DownloadNext]_downloadVars /\ Fairness

(***************************************************************************)
(* Properties                                                              *)
(***************************************************************************)
DownloadTypeOK ==
  /\ size \in [Files -> Sizes]
  /\ stored \in [Files -> [there : BOOLEAN, length : Nat, right : BOOLEAN]]
  /\ task \in [Files -> [pc : {"waiting", "look", "sent", "receiving", "backoff", "verify",
                               "done", "failed", "mismatch"},
                         attempt : Nat, offset : Nat, clean : BOOLEAN, wrong : BOOLEAN]]
  /\ fetching \in [pc : {"idle", "version", "manifest", "files"}, attempt : Nat, cancelled : BOOLEAN,
             fault : BOOLEAN, result : {"none", "staged", "failed"}]

(* Nothing that an earlier operation has left in the staging directory, be *)
(* it cut off, spoilt or too long, makes an operation fail: one that does  *)
(* was cancelled or had a failure of its own, and a file whose hash is     *)
(* wrong in the end was sent wrong in this operation.  Empty files are the *)
(* exception (prepareReplacement).                                         *)
FailureHasCause ==
  /\ DownloadTypeOK
  /\ \/ \E f \in Files : size[f] = 0
     \/ /\ fetching.result = "failed" => fetching.fault
        /\ \A f \in Files : task[f].pc = "mismatch" => task[f].wrong

(* An operation comes to its end, whatever the server answers and however  *)
(* often a file turns out to be wrong (streamingDownload, fetchData,       *)
(* prepareReplacement, the task group).                                    *)
DownloadEnds == fetching.pc # "idle" ~> fetching.pc = "idle"

\* In CourierUpdate a file that is being received is a partial one.
View ==
  [f \in Files |->
     IF ~stored[f].there                                                  THEN "none"
     ELSE IF Complete(f) /\ task[f].pc \notin {"sent", "receiving", "backoff"} THEN "new"
                                                                          ELSE "partial"]

Whole == INSTANCE CourierUpdate WITH
  Release <- Files, dest <- [e \in Files |-> "old"], backup <- [e \in Files |-> "none"],
  staged <- View, resumable <- TRUE, journal <- [present |-> FALSE],
  op <- [pc |-> "download", todo |-> {f \in Files : task[f].pc # "done"}],
  orphaned <- FALSE

(* While the files are downloaded, every step of a task is a step of       *)
(* CourierUpdate's Download, or none: among others, what has been verified *)
(* is neither lost nor downloaded again by a later attempt, and nothing    *)
(* counts as done that is not what the manifest says.                      *)
DownloadIsWhole ==
  [][fetching.pc = "files" /\ fetching'.pc = "files" =>
       Whole!Download \/ UNCHANGED <<View, {f \in Files : task[f].pc # "done"}>>]_downloadVars
=============================================================================
