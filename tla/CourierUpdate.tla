---------------------------- MODULE CourierUpdate ----------------------------
(***************************************************************************)
(* src/network/CourierUpdate.swift: bringing an installed game to a        *)
(* release.  The mismatched files are downloaded into a staging directory, *)
(* a journal is written, and then the files are swapped one at a time, the *)
(* old ones going to a backup directory; removing the journal commits.  An *)
(* operation that finds a journal first undoes what the interrupted one    *)
(* has done.  Every step here is one change of the file system, or the     *)
(* reading of the state that the next change is decided on; the launcher   *)
(* may die, and an operation may fail or be cancelled, between any two.    *)
(* A journal that cannot be read is put aside, and with it the backups and *)
(* what is staged.  Nobody else writes to the installation meanwhile.      *)
(***************************************************************************)
EXTENDS GameFiles, Naturals, FiniteSets

CONSTANT
  Release     \* those of the release that is being installed

ASSUME ReleaseAssumption == Release \subseteq Files

VersionFile     == "versionJson"        \* version.json
ManagedManifest == "managedManifest"    \* .soa-managed-manifest.json
Metadata        == {VersionFile, ManagedManifest}

ASSUME MetadataAssumption == Metadata \cap Files = {}

Entries == Files \cup Metadata

\* What is at a path: nothing, what the release has there, or anything else.
Contents       == {"none", "old", "new"}
StagedContents == {"none", "partial", "new"}

Target == [e \in Entries |-> IF e \in Release \cup Metadata THEN "new" ELSE "none"]

Empty == [e \in Entries |-> "none"]

VARIABLES
  dest,        \* the installation
  backup,      \* .soa-update-backup (an obsolete file's backup is there by its index)
  staged,      \* .soa-update-staging
  resumable,   \* .soa-update-staging.json is there and describes this release
  journal,     \* .soa-update-journal.json
  op,          \* the operation in memory
  orphaned     \* history: the journal of the backups that are there has been put aside

disk == <<dest, backup, staged, resumable, journal>>
vars == <<disk, op, orphaned>>

(***************************************************************************)
(* The journal: the entries that are replaced, which of them (and of the   *)
(* metadata) were there before, and the files that are removed.            *)
(***************************************************************************)
NoJournal == [present |-> FALSE, replace |-> {}, had |-> {}, obsolete |-> {}]

Journals == [present : BOOLEAN, replace : SUBSET Release, had : SUBSET Entries,
             obsolete : SUBSET (Files \ Release)]

\* (mutant of Undoes: the removals are not undone)
UndoesReplacements(j) == j.replace \cup Metadata

Undoes(j) == j.replace \cup j.obsolete \cup Metadata

\* What the installation is once the journal has been undone.
Undone(j) ==
  [e \in Entries |->
     IF backup[e] # "none"                                THEN backup[e]
     ELSE IF e \in (j.replace \cup Metadata) \ j.had      THEN "none"
                                                          ELSE dest[e]]

(***************************************************************************)
(* An operation: what it is doing, what recovery goes on to, the plan, the *)
(* entries still to visit, the one being visited, and the journal as read. *)
(***************************************************************************)
NoEntry == "noEntry"

Pcs == {"idle", "recover", "undo", "unstage", "clear", "restore", "unbackup", "unjournal",
        "quarantine", "quarantineBackup", "quarantineStaging", "quarantineManifest", "plan", "stage", "download", "journal", "metadata", "replace", "swap", "obsolete",
        "manifest", "commit", "cleanup"}

Ops == [pc : Pcs, next : {"plan", "check", "fail"}, needed : SUBSET Release,
        obsolete : SUBSET (Files \ Release), todo : SUBSET Entries, at : Entries \cup {NoEntry},
        backedUp : BOOLEAN, journal : Journals, result : {"none", "completed", "failed"}]

IdleOp(result) ==
  [pc |-> "idle", next |-> "fail", needed |-> {}, obsolete |-> {}, todo |-> {},
   at |-> NoEntry, backedUp |-> FALSE, journal |-> NoJournal, result |-> result]

Goto(pc) == op' = [op EXCEPT !.pc = pc]

Fail == op' = IdleOp("failed")

\* What removing a directory may leave of it: the removal stops at the first error.
Remains(content) == {[e \in DOMAIN content |-> IF e \in left THEN content[e] ELSE "none"] :
                       left \in SUBSET DOMAIN content}

Init ==
  /\ dest \in [Entries -> Contents]
  /\ \A p \in Files \ Release : dest[p] # "new"
  /\ backup = Empty
  /\ staged = [p \in Release |-> "none"]
  /\ resumable = FALSE
  /\ journal = NoJournal
  /\ op = IdleOp("none")
  /\ orphaned = FALSE

(***************************************************************************)
(* Beginning                                                               *)
(***************************************************************************)

\* startUpdate(), startRepair(); startUpdateCheck() and startIntegrityCheck(), which
\* only recover and read.
Start ==
  /\ op.pc = "idle"
  /\ \E next \in {"plan", "check"} :
       op' = [IdleOp("none") EXCEPT !.pc = "recover", !.next = next]
  /\ UNCHANGED disk

(***************************************************************************)
(* recoverInterruptedUpdate()                                              *)
(***************************************************************************)

\* Where recovery leads: into the update, to the end of a check, or, when it has
\* undone the operation's own changes, to its failure.
Recovered ==
  \/ /\ op.next = "plan"
     /\ Goto("plan")
  \/ /\ op.next # "plan"
     /\ op' = IdleOp(IF op.next = "fail" THEN "failed" ELSE "none")

NothingToRecover ==
  /\ op.pc = "recover"
  /\ ~journal.present
  /\ backup' \in Remains(backup)
  /\ Recovered
  /\ UNCHANGED <<dest, staged, resumable, journal>>

ReadJournal ==
  /\ op.pc = "recover"
  /\ journal.present
  /\ op' = [op EXCEPT !.pc = "undo", !.journal = journal, !.todo = Undoes(journal)]
  /\ UNCHANGED disk

\* The replacements are undone first, then the removals, then the metadata.
UndoNext ==
  LET replaced == op.todo \cap op.journal.replace
      removed  == op.todo \cap Files
  IN  CASE replaced # {}                              -> replaced
        [] replaced = {} /\ removed # {}              -> removed
        [] removed = {} /\ VersionFile \in op.todo    -> {VersionFile}
        [] OTHER                                      -> op.todo

Visit ==
  /\ op.pc = "undo"
  /\ \E e \in UndoNext :
       op' = [op EXCEPT !.at = e, !.todo = @ \ {e}, !.backedUp = (backup[e] # "none"),
                        !.pc = IF e \in op.journal.replace THEN "unstage" ELSE "clear"]
  /\ UNCHANGED disk

HadNoOriginal == op.at \in (op.journal.replace \cup Metadata) \ op.journal.had

\* (mutant of BackToStaging: what was downloaded is thrown away)
ThrownAway == staged

\* A downloaded file that has reached its destination goes back to the staging
\* directory, so that it need not be downloaded again.
BackToStaging ==
  IF staged[op.at] # "none" THEN staged
  ELSE [staged EXCEPT ![op.at] = dest[op.at]]

ReachedDestination == (op.backedUp \/ HadNoOriginal) /\ dest[op.at] # "none"

Unstage ==
  /\ op.pc = "unstage"
  /\ Goto("clear")
  /\ \/ /\ ReachedDestination
        /\ dest' = [dest EXCEPT ![op.at] = "none"]
        /\ staged' = BackToStaging
     \/ /\ ~ReachedDestination
        /\ UNCHANGED <<dest, staged>>
  /\ UNCHANGED <<backup, resumable, journal>>

\* (mutant of MustClear: a file the release has added is left behind)
ClearsBackedUp == op.backedUp

\* Without a backup, what had no original goes; with one, the way is made free.
MustClear == op.backedUp \/ HadNoOriginal

Clear ==
  /\ op.pc = "clear"
  /\ dest' = IF MustClear THEN [dest EXCEPT ![op.at] = "none"] ELSE dest
  /\ Goto(IF op.backedUp THEN "restore" ELSE "undo")
  /\ UNCHANGED <<backup, staged, resumable, journal>>

\* moveItem() fails when the backup is gone or the destination is taken.
Restore ==
  /\ op.pc = "restore"
  /\ backup[op.at] # "none" /\ dest[op.at] = "none"
  /\ dest' = [dest EXCEPT ![op.at] = backup[op.at]]
  /\ backup' = [backup EXCEPT ![op.at] = "none"]
  /\ Goto("undo")
  /\ UNCHANGED <<staged, resumable, journal>>

AllUndone ==
  /\ op.pc = "undo"
  /\ op.todo = {}
  /\ Goto("unbackup")
  /\ UNCHANGED disk

Unbackup ==
  /\ op.pc = "unbackup"
  /\ backup' \in Remains(backup)
  /\ Goto("unjournal")
  /\ UNCHANGED <<dest, staged, resumable, journal>>

Unjournal ==
  /\ op.pc = "unjournal"
  /\ journal' = NoJournal
  /\ Recovered
  /\ UNCHANGED <<dest, backup, staged, resumable>>

(***************************************************************************)
(* quarantineRecoveryState(): when the journal cannot be read, decoded or  *)
(* believed, four things are moved to a directory of their own, one after  *)
(* the other, and the operation fails; nothing of them is looked at again. *)
(* The first move that fails is the last one (OperationFails).             *)
(***************************************************************************)
JournalUnreadable ==
  /\ op.pc = "recover"
  /\ journal.present
  /\ Goto("quarantine")
  /\ UNCHANGED disk

QuarantineJournal ==
  /\ op.pc = "quarantine"
  /\ journal' = NoJournal
  /\ Goto("quarantineBackup")
  /\ UNCHANGED <<dest, backup, staged, resumable>>

QuarantineBackup ==
  /\ op.pc = "quarantineBackup"
  /\ backup' = Empty
  /\ Goto("quarantineStaging")
  /\ UNCHANGED <<dest, staged, resumable, journal>>

QuarantineStaging ==
  /\ op.pc = "quarantineStaging"
  /\ staged' = [p \in Release |-> "none"]
  /\ Goto("quarantineManifest")
  /\ UNCHANGED <<dest, backup, resumable, journal>>

QuarantineManifest ==
  /\ op.pc = "quarantineManifest"
  /\ resumable' = FALSE
  /\ Fail
  /\ UNCHANGED <<dest, backup, staged, journal>>

(***************************************************************************)
(* startSync(): the plan and the download                                  *)
(***************************************************************************)
\* (mutant of Mismatched: a file is looked for, and not at)
Missing == {p \in Release : dest[p] = "none"}

\* mismatchedManifestIndices() and unexpectedInstallFiles()
Mismatched == {p \in Release : dest[p] # "new"}
Unexpected == {p \in Files \ Release : dest[p] # "none"}

Plan ==
  /\ op.pc = "plan"
  /\ op' = [op EXCEPT !.pc = "stage", !.needed = Mismatched, !.obsolete = Unexpected]
  /\ UNCHANGED disk

\* Staged files of another release, or of none that is known, are discarded.
Stage ==
  /\ op.pc = "stage"
  /\ staged' = IF resumable THEN staged ELSE [p \in Release |-> "none"]
  /\ resumable' = TRUE
  /\ backup' = Empty
  /\ op' = [op EXCEPT !.pc = "download", !.todo = op.needed]
  /\ UNCHANGED <<dest, journal>>

\* (mutant of Verified: the file is there)
Fetched(p) == staged[p] # "none"

Verified(p) == staged[p] = "new"

\* prepareReplacement(), several at a time: a file is done once its hash is right.
Download ==
  /\ op.pc = "download"
  /\ \E p \in op.todo :
       \/ /\ ~Verified(p)
          /\ \E content \in StagedContents : staged' = [staged EXCEPT ![p] = content]
          /\ UNCHANGED op
       \/ /\ Verified(p)
          /\ op' = [op EXCEPT !.todo = @ \ {p}]
          /\ UNCHANGED staged
  /\ UNCHANGED <<dest, backup, resumable, journal>>

(***************************************************************************)
(* startSync(): the transaction                                            *)
(***************************************************************************)
Existing == {e \in op.needed \cup Metadata : dest[e] # "none"}

WriteJournal ==
  /\ op.pc = "download"
  /\ op.todo = {}
  /\ journal' = [present |-> TRUE, replace |-> op.needed, had |-> Existing,
                 obsolete |-> op.obsolete]
  /\ op' = [op EXCEPT !.pc = "metadata", !.todo = Metadata]
  /\ UNCHANGED <<dest, backup, staged, resumable>>

\* (mutant of BackUp: the original is deleted)
Discard(e) ==
  /\ dest' = [dest EXCEPT ![e] = "none"]
  /\ UNCHANGED backup

\* moveItem() from the installation to the backup directory, if there is anything.
BackUp(e) ==
  /\ dest[e] # "none" => backup[e] = "none"
  /\ dest' = [dest EXCEPT ![e] = "none"]
  /\ backup' = IF dest[e] # "none" THEN [backup EXCEPT ![e] = dest[e]] ELSE backup

BackUpMetadata ==
  /\ op.pc = "metadata"
  /\ \E m \in op.todo :
       /\ VersionFile \in op.todo => m = VersionFile
       /\ BackUp(m)
       /\ op' = [op EXCEPT !.todo = @ \ {m}]
  /\ UNCHANGED <<staged, resumable, journal>>

BeginReplacing ==
  /\ op.pc = "metadata"
  /\ op.todo = {}
  /\ op' = [op EXCEPT !.pc = "replace", !.todo = op.needed]
  /\ UNCHANGED disk

BackUpOriginal ==
  /\ op.pc = "replace"
  /\ \E p \in op.todo :
       /\ BackUp(p)
       /\ op' = [op EXCEPT !.pc = "swap", !.at = p, !.todo = @ \ {p}]
  /\ UNCHANGED <<staged, resumable, journal>>

Swap ==
  /\ op.pc = "swap"
  /\ staged[op.at] # "none" /\ dest[op.at] = "none"
  /\ dest' = [dest EXCEPT ![op.at] = staged[op.at]]
  /\ staged' = [staged EXCEPT ![op.at] = "none"]
  /\ Goto("replace")
  /\ UNCHANGED <<backup, resumable, journal>>

BeginRemoving ==
  /\ op.pc = "replace"
  /\ op.todo = {}
  /\ op' = [op EXCEPT !.pc = "obsolete", !.todo = op.obsolete]
  /\ UNCHANGED disk

RemoveObsolete ==
  /\ op.pc = "obsolete"
  /\ \E p \in op.todo :
       /\ BackUp(p)
       /\ op' = [op EXCEPT !.todo = @ \ {p}]
  /\ UNCHANGED <<staged, resumable, journal>>

WriteVersion ==
  /\ op.pc = "obsolete"
  /\ op.todo = {}
  /\ dest' = [dest EXCEPT ![VersionFile] = "new"]
  /\ Goto("manifest")
  /\ UNCHANGED <<backup, staged, resumable, journal>>

WriteManifest ==
  /\ op.pc = "manifest"
  /\ dest' = [dest EXCEPT ![ManagedManifest] = "new"]
  /\ Goto("commit")
  /\ UNCHANGED <<backup, staged, resumable, journal>>

Commit ==
  /\ op.pc = "commit"
  /\ journal' = NoJournal
  /\ Goto("cleanup")
  /\ UNCHANGED <<dest, backup, staged, resumable>>

\* The removals may fail without failing the update.
Cleanup ==
  /\ op.pc = "cleanup"
  /\ staged' \in Remains(staged)
  /\ resumable' \in {resumable, FALSE}
  /\ backup' \in Remains(backup)
  /\ op' = IdleOp("completed")
  /\ UNCHANGED <<dest, journal>>

(***************************************************************************)
(* Failures: of the network, of the file system, or a cancellation.        *)
(***************************************************************************)
Undoable == {"metadata", "replace", "swap", "obsolete", "manifest", "commit"}

\* (mutant of OnError: the changes are left as they are)
GiveUpAtOnce == Fail

\* Within the transaction an error undoes it before it is reported.
OnError ==
  \/ /\ op.pc \in Undoable
     /\ op' = [op EXCEPT !.pc = "recover", !.next = "fail"]
  \/ /\ op.pc \notin Undoable
     /\ Fail

OperationFails ==
  /\ op.pc \notin {"idle", "cleanup"}
  /\ OnError
  /\ UNCHANGED disk

Crash ==
  /\ op' = IdleOp("none")
  /\ UNCHANGED disk

Step ==
  \/ NothingToRecover \/ ReadJournal \/ Visit \/ Unstage \/ Clear \/ Restore
  \/ AllUndone \/ Unbackup \/ Unjournal
  \/ JournalUnreadable
  \/ QuarantineJournal \/ QuarantineBackup \/ QuarantineStaging \/ QuarantineManifest
  \/ Plan \/ Stage \/ Download
  \/ WriteJournal \/ BackUpMetadata \/ BeginReplacing \/ BackUpOriginal \/ Swap
  \/ BeginRemoving \/ RemoveObsolete \/ WriteVersion \/ WriteManifest \/ Commit \/ Cleanup

Action == Start \/ Step \/ OperationFails \/ Crash

JournalPutAside == op.pc = "quarantine" /\ journal.present

Next ==
  /\ Action
  /\ orphaned' = (backup' # Empty /\ ~journal'.present /\ (orphaned \/ JournalPutAside))

Spec == Init /\ [][Next]_vars

(***************************************************************************)
(* Properties                                                              *)
(***************************************************************************)

TypeOK ==
  /\ dest \in [Entries -> Contents]
  /\ backup \in [Entries -> Contents]
  /\ staged \in [Release -> StagedContents]
  /\ resumable \in BOOLEAN
  /\ journal \in Journals
  /\ op \in Ops

\* What the user has installed: what is there or, between the writing of the journal
\* and its removal, what the next operation will restore.
Installed == IF journal.present THEN Undone(journal) ELSE dest

\* An unreadable journal has been found, and is about to be put aside.
Abandoned == op.pc = "quarantine"

AtomicInstallation ==
  INSTANCE AtomicInstall WITH installed <- Installed, abandoned <- Abandoned, Nothing <- "none"

\* Whatever fails, is cancelled or dies, and at whatever step, the installation is the
\* old one in every path until the journal is removed, and from then on the release: an
\* undo that is itself interrupted, and undone again, included.  Only the putting aside
\* of a journal that cannot be read may leave a path as the interrupted update did: as
\* it was, as the release has it, or empty.
UpdateIsAtomic == AtomicInstallation!Spec

\* An update or a repair that reports its completion has left the release, whole and
\* without a stray file (courier_result_completed, "Updated ... file(s)").
CompletedMeansInstalled ==
  [][op'.result = "completed" => dest' = Target]_vars

\* A file that has been downloaded and verified is never lost while its release is the
\* one that is wanted, neither by a failed swap nor by the undoing of one:
\* "Verified and partial files will be kept so a later retry can continue."  The one
\* step that takes it from a retry puts the whole staging directory aside.
VerifiedFilesKept ==
  [][\A p \in Release :
        op.pc # "quarantineStaging" /\ resumable /\ "new" \in {staged[p], dest[p]}
          => "new" \in {staged'[p], dest'[p]}]_vars

\* A backup directory without a journal is what a finished update, or a finished undo,
\* has failed to remove: every operation deletes it unseen, and must not delete the only
\* copy of a file of the user's.  The exception is a journal that has been put aside
\* without its backups, when the launcher dies, or a move fails, between the two.
UnownedBackupsAreStale == ~journal.present /\ backup # Empty => dest = Target \/ orphaned
=============================================================================
