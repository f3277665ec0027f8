------------------------- MODULE CourierUpdateProofs -------------------------
(***************************************************************************)
(* For any set of files and any release: an update is atomic, whatever     *)
(* fails and whenever the launcher dies, unless a journal cannot be read,  *)
(* and completes only with the release in place.  The inductive invariant  *)
(* has three parts: what a journal says of the disk, where an undo stands, *)
(* and where an update stands.                                             *)
(***************************************************************************)
EXTENDS CourierUpdate, CourierDownload, TLAPS

HadNone(j) == (j.replace \cup Metadata) \ j.had

\* A journal on the disk: every backup is that of an entry which had an original or was
\* to be removed, and what has taken the place of an original is as the release has it.
JournalInv ==
  journal.present =>
    /\ journal.had \subseteq journal.replace \cup Metadata
    /\ \A e \in Entries : backup[e] # "none" => e \in journal.had \cup journal.obsolete
    /\ \A e \in Entries :
         backup[e] # "none" \/ e \in HadNone(journal) => dest[e] \in {"none", Target[e]}

\* An entry that is as the journal wants it.
Settled(e) ==
  /\ backup[e] = "none"
  /\ e \in HadNone(journal) => dest[e] = "none"

AtEntry == {"unstage", "clear", "restore"}
Undoing == AtEntry \cup {"undo", "unbackup", "unjournal"}

UndoInv ==
  op.pc \in Undoing =>
    /\ journal.present
    /\ op.journal = journal
    /\ op.todo \subseteq Undoes(journal)
    /\ \A e \in Entries \ op.todo : (op.pc \in AtEntry /\ e = op.at) \/ Settled(e)
    /\ op.pc \in AtEntry => /\ op.at \in Undoes(journal) \ op.todo
                            /\ op.backedUp = (backup[op.at] # "none")
    /\ op.pc = "unstage" => op.at \in journal.replace
    /\ op.pc = "restore" => op.backedUp
    /\ op.pc \in {"unbackup", "unjournal"} => op.todo = {}

\* The entries that the update has not come to yet.
Pending ==
  CASE op.pc = "metadata"            -> op.todo \cup op.needed
    [] op.pc \in {"replace", "swap"} -> op.todo
    [] OTHER                         -> {}

Changing == {"metadata", "replace", "swap", "obsolete", "manifest", "commit"}

PlanInv ==
  /\ op.pc \in {"plan", "stage", "download", "quarantineBackup", "quarantineStaging",
                "quarantineManifest"} => ~journal.present
  /\ op.pc \in {"stage", "download"} \cup Changing =>
       /\ \A p \in Release \ op.needed : dest[p] = "new"
       /\ \A p \in (Files \ Release) \ op.obsolete : dest[p] = "none"
  /\ op.pc = "download" =>
       /\ backup = Empty
       /\ op.todo \subseteq op.needed
       /\ \A p \in op.needed \ op.todo : staged[p] = "new"

\* Where the originals are.
OriginalInv ==
  op.pc \in Changing =>
    /\ journal.present
    /\ journal.replace = op.needed
    /\ journal.obsolete = op.obsolete
    /\ \A e \in Pending : backup[e] = "none" /\ (dest[e] # "none" <=> e \in journal.had)
    /\ \A e \in (op.needed \cup Metadata) \ Pending : backup[e] # "none" \/ e \notin journal.had
    /\ op.pc = "metadata" => op.todo \subseteq Metadata
    /\ op.pc \in {"replace", "swap"} => op.todo \subseteq op.needed

\* How far the release has come.
ProgressInv ==
  /\ op.pc \in {"metadata", "replace", "swap"} =>
       \A p \in op.needed \cap Pending : staged[p] = "new"
  /\ op.pc = "swap" => op.at \in op.needed \ op.todo /\ staged[op.at] = "new"
  /\ op.pc \in Changing =>
       \A p \in op.needed \ Pending : (op.pc = "swap" /\ p = op.at) \/ dest[p] = "new"
  /\ op.pc \in {"obsolete", "manifest", "commit"} =>
       \A p \in op.obsolete : (op.pc = "obsolete" /\ p \in op.todo) \/ dest[p] = "none"
  /\ op.pc = "obsolete" => op.todo \subseteq op.obsolete
  /\ op.pc \in {"manifest", "commit"} => dest[VersionFile] = "new"
  /\ op.pc = "commit" => dest[ManagedManifest] = "new"
  /\ op.pc = "cleanup" => ~journal.present /\ dest = Target

IInv == TypeOK /\ JournalInv /\ UndoInv /\ PlanInv /\ OriginalInv /\ ProgressInv

(***************************************************************************)
(* Types                                                                   *)
(***************************************************************************)

LEMMA IdleOpType == \A r \in {"none", "completed", "failed"} : IdleOp(r) \in Ops
  BY DEF IdleOp, Ops, Pcs, NoJournal, Journals, Entries

(***************************************************************************)
(* The invariant is kept by every action                                   *)
(***************************************************************************)

LEMMA NothingToRecoverStep == IInv /\ NothingToRecover => IInv'
<1> SUFFICES ASSUME IInv, NothingToRecover PROVE IInv'
  OBVIOUS
<1>1. TypeOK'
  <2>1. /\ dest' \in [Entries -> Contents]
        /\ staged' \in [Release -> StagedContents]
        /\ resumable' \in BOOLEAN
        /\ journal' \in Journals
    BY DEF NothingToRecover, IInv, TypeOK
  <2>2. backup' \in [Entries -> Contents]
    BY DEF NothingToRecover, Remains, IInv, TypeOK, Contents
  <2>3. op' \in Ops
    BY IdleOpType DEF NothingToRecover, Recovered, Goto, Ops, Pcs, IInv, TypeOK
  <2> QED
    BY <2>1, <2>2, <2>3 DEF TypeOK
<1>2. JournalInv'
  BY DEF NothingToRecover, JournalInv
<1>3. UndoInv'
  BY DEF NothingToRecover, Recovered, IInv, TypeOK, UndoInv, AtEntry, Undoing, Goto,
    IdleOp, Ops
<1>4. PlanInv'
  BY DEF NothingToRecover, Recovered, IInv, TypeOK, PlanInv, Changing, Goto, IdleOp,
    Ops
<1>5. OriginalInv'
  BY DEF NothingToRecover, Recovered, IInv, TypeOK, OriginalInv, Changing, Goto,
    IdleOp, Ops
<1>6. ProgressInv'
  BY DEF NothingToRecover, Recovered, IInv, TypeOK, ProgressInv, Changing, Goto,
    IdleOp, Ops
<1> QED
  BY <1>1, <1>2, <1>3, <1>4, <1>5, <1>6 DEF IInv

LEMMA ReadJournalStep == IInv /\ ReadJournal => IInv'
<1> SUFFICES ASSUME IInv, ReadJournal PROVE IInv'
  OBVIOUS
<1>1. TypeOK'
  <2>1. /\ dest' \in [Entries -> Contents]
        /\ backup' \in [Entries -> Contents]
        /\ staged' \in [Release -> StagedContents]
        /\ resumable' \in BOOLEAN
        /\ journal' \in Journals
    BY DEF ReadJournal, disk, IInv, TypeOK
  <2>2. op' \in Ops
    <3>1. Undoes(journal) \in SUBSET Entries
      BY ReleaseAssumption DEF IInv, TypeOK, Journals, Undoes, Entries
    <3> QED
      BY <3>1 DEF ReadJournal, Ops, Pcs, IInv, TypeOK
  <2> QED
    BY <2>1, <2>2 DEF TypeOK
<1>2. JournalInv'
  BY DEF ReadJournal, IInv, JournalInv, disk
<1>3. UndoInv'
  BY DEF ReadJournal, IInv, JournalInv, UndoInv, HadNone, Settled, AtEntry, Undoes,
    disk
<1>4. PlanInv'
  BY DEF ReadJournal, PlanInv, Changing
<1>5. OriginalInv'
  BY DEF ReadJournal, OriginalInv, Changing
<1>6. ProgressInv'
  BY DEF ReadJournal, ProgressInv, Changing
<1> QED
  BY <1>1, <1>2, <1>3, <1>4, <1>5, <1>6 DEF IInv

LEMMA VisitStep == IInv /\ Visit => IInv'
<1> SUFFICES ASSUME IInv, Visit PROVE IInv'
  OBVIOUS
<1>1. TypeOK'
  <2>1. /\ dest' \in [Entries -> Contents]
        /\ backup' \in [Entries -> Contents]
        /\ staged' \in [Release -> StagedContents]
        /\ resumable' \in BOOLEAN
        /\ journal' \in Journals
    BY DEF Visit, disk, IInv, TypeOK
  <2>2. op' \in Ops
    <3>1. op \in Ops /\ UndoNext \subseteq op.todo
      BY DEF UndoNext, IInv, TypeOK
    <3>2. PICK e \in UndoNext :
            op' = [op EXCEPT !.at = e, !.todo = @ \ {e}, !.backedUp = (backup[e] # "none"),
                             !.pc = IF e \in op.journal.replace THEN "unstage" ELSE "clear"]
      BY DEF Visit
    <3>3. e \in Entries
      BY <3>1, <3>2 DEF Ops
    <3> QED
      BY <3>1, <3>2, <3>3 DEF Ops, Pcs
  <2> QED
    BY <2>1, <2>2 DEF TypeOK
<1>2. JournalInv'
  BY DEF Visit, IInv, JournalInv, disk
<1>3. UndoInv'
  BY DEF Visit, UndoNext, IInv, UndoInv, Settled, AtEntry, Undoing, disk
<1>4. PlanInv'
  BY DEF Visit, PlanInv, Changing
<1>5. OriginalInv'
  BY DEF Visit, OriginalInv, Changing
<1>6. ProgressInv'
  BY DEF Visit, ProgressInv, Changing
<1> QED
  BY <1>1, <1>2, <1>3, <1>4, <1>5, <1>6 DEF IInv

LEMMA UnstageStep == IInv /\ Unstage => IInv'
<1> SUFFICES ASSUME IInv, Unstage PROVE IInv'
  OBVIOUS
<1>1. TypeOK'
  <2>1. /\ backup' \in [Entries -> Contents]
        /\ resumable' \in BOOLEAN
        /\ journal' \in Journals
    BY DEF Unstage, IInv, TypeOK
  <2>2. dest' \in [Entries -> Contents]
    BY DEF Unstage, IInv, TypeOK, Contents
  <2>3. staged' \in [Release -> StagedContents]
    <3>1. op.at \in Release /\ op.at \in Entries /\ op.journal = journal
          /\ op.backedUp = (backup[op.at] # "none") /\ journal.present
      BY ReleaseAssumption
         DEF Unstage, IInv, TypeOK, UndoInv, AtEntry, Undoing, Journals, Entries
    <3>2. ReachedDestination => dest[op.at] \in StagedContents
      BY <3>1 DEF ReachedDestination, HadNoOriginal, HadNone, IInv, JournalInv, Target,
         StagedContents
    <3> QED
      BY <3>1, <3>2 DEF Unstage, BackToStaging, IInv, TypeOK
  <2>4. op' \in Ops
    BY DEF Unstage, IInv, TypeOK, Goto, Ops, Pcs
  <2> QED
    BY <2>1, <2>2, <2>3, <2>4 DEF TypeOK
<1>2. JournalInv'
  BY ReleaseAssumption DEF Unstage, IInv, TypeOK, Journals, JournalInv, Entries
<1>3. UndoInv'
  BY DEF Unstage, IInv, TypeOK, UndoInv, Undoing, AtEntry, Settled, Goto
<1>4. PlanInv'
  BY DEF Unstage, Goto, PlanInv, Changing
<1>5. OriginalInv'
  BY DEF Unstage, Goto, OriginalInv, Changing
<1>6. ProgressInv'
  BY DEF Unstage, Goto, ProgressInv, Changing
<1> QED
  BY <1>1, <1>2, <1>3, <1>4, <1>5, <1>6 DEF IInv

LEMMA ClearStep == IInv /\ Clear => IInv'
<1> SUFFICES ASSUME IInv, Clear PROVE IInv'
  OBVIOUS
<1>1. TypeOK'
  <2>1. /\ backup' \in [Entries -> Contents]
        /\ staged' \in [Release -> StagedContents]
        /\ resumable' \in BOOLEAN
        /\ journal' \in Journals
    BY DEF Clear, IInv, TypeOK
  <2>2. dest' \in [Entries -> Contents]
    BY ReleaseAssumption DEF Clear, IInv, TypeOK, UndoInv, AtEntry, Undoing, Undoes,
      Entries, Journals, Contents
  <2>3. op' \in Ops
    BY DEF Clear, IInv, TypeOK, Goto, Ops, Pcs
  <2> QED
    BY <2>1, <2>2, <2>3 DEF TypeOK
<1>2. JournalInv'
  BY DEF Clear, IInv, JournalInv
<1>3. UndoInv'
  BY DEF Clear, MustClear, HadNoOriginal, IInv, TypeOK, Journals, UndoInv, Undoing,
    AtEntry, Settled, HadNone, Goto
<1>4. PlanInv'
  BY DEF Clear, Goto, PlanInv, Changing
<1>5. OriginalInv'
  BY DEF Clear, Goto, OriginalInv, Changing
<1>6. ProgressInv'
  BY DEF Clear, Goto, ProgressInv, Changing
<1> QED
  BY <1>1, <1>2, <1>3, <1>4, <1>5, <1>6 DEF IInv

LEMMA RestoreStep == IInv /\ Restore => IInv'
<1> SUFFICES ASSUME IInv, Restore PROVE IInv'
  OBVIOUS
<1>1. TypeOK'
  <2>1. /\ staged' \in [Release -> StagedContents]
        /\ resumable' \in BOOLEAN
        /\ journal' \in Journals
    BY DEF Restore, IInv, TypeOK
  <2>2. dest' \in [Entries -> Contents]
    BY ReleaseAssumption DEF Restore, IInv, TypeOK, UndoInv, AtEntry, Undoing,
      Undoes, Entries, Journals
  <2>3. backup' \in [Entries -> Contents]
    BY ReleaseAssumption DEF Restore, IInv, TypeOK, UndoInv, AtEntry, Undoing,
      Undoes, Entries, Journals
  <2>4. op' \in Ops
    BY DEF Restore, IInv, TypeOK, Goto, Ops, Pcs
  <2> QED
    BY <2>1, <2>2, <2>3, <2>4 DEF TypeOK
<1>2. JournalInv'
  <2>1. op.at \in Entries
    BY ReleaseAssumption DEF Restore, IInv, TypeOK, UndoInv, AtEntry, Undoing,
      Undoes, Entries, Journals
  <2>2. journal.present => op.at \notin HadNone(journal)
    BY <2>1, MetadataAssumption DEF Restore, IInv, TypeOK, JournalInv, HadNone, Journals
  <2> QED
    BY <2>1, <2>2 DEF Restore, IInv, TypeOK, JournalInv, HadNone
<1>3. UndoInv'
  BY MetadataAssumption DEF Restore, IInv, TypeOK, JournalInv, UndoInv, HadNone,
    Settled, AtEntry, Undoing, Goto, Journals
<1>4. PlanInv'
  BY DEF Restore, Goto, PlanInv, Changing
<1>5. OriginalInv'
  BY DEF Restore, Goto, OriginalInv, Changing
<1>6. ProgressInv'
  BY DEF Restore, Goto, ProgressInv, Changing
<1> QED
  BY <1>1, <1>2, <1>3, <1>4, <1>5, <1>6 DEF IInv

LEMMA AllUndoneStep == IInv /\ AllUndone => IInv'
<1> SUFFICES ASSUME IInv, AllUndone PROVE IInv'
  OBVIOUS
<1>1. TypeOK'
  <2>1. /\ dest' \in [Entries -> Contents]
        /\ backup' \in [Entries -> Contents]
        /\ staged' \in [Release -> StagedContents]
        /\ resumable' \in BOOLEAN
        /\ journal' \in Journals
    BY DEF AllUndone, disk, IInv, TypeOK
  <2>2. op' \in Ops
    BY DEF AllUndone, IInv, TypeOK, Goto, Ops, Pcs
  <2> QED
    BY <2>1, <2>2 DEF TypeOK
<1>2. JournalInv'
  BY DEF AllUndone, IInv, JournalInv, disk
<1>3. UndoInv'
  BY DEF AllUndone, IInv, UndoInv, Settled, AtEntry, Undoing, disk, Goto
<1>4. PlanInv'
  BY DEF AllUndone, Goto, PlanInv, Changing
<1>5. OriginalInv'
  BY DEF AllUndone, Goto, OriginalInv, Changing
<1>6. ProgressInv'
  BY DEF AllUndone, Goto, ProgressInv, Changing
<1> QED
  BY <1>1, <1>2, <1>3, <1>4, <1>5, <1>6 DEF IInv

LEMMA UnbackupStep == IInv /\ Unbackup => IInv'
<1> SUFFICES ASSUME IInv, Unbackup PROVE IInv'
  OBVIOUS
<1>1. TypeOK'
  <2>1. /\ dest' \in [Entries -> Contents]
        /\ staged' \in [Release -> StagedContents]
        /\ resumable' \in BOOLEAN
        /\ journal' \in Journals
    BY DEF Unbackup, IInv, TypeOK
  <2>2. backup' \in [Entries -> Contents]
    BY DEF Unbackup, Remains, IInv, TypeOK, Contents
  <2>3. op' \in Ops
    BY DEF Unbackup, IInv, TypeOK, Goto, Ops, Pcs
  <2> QED
    BY <2>1, <2>2, <2>3 DEF TypeOK
<1>2. JournalInv'
  BY DEF Unbackup, Remains, IInv, TypeOK, Journals, JournalInv
<1>3. UndoInv'
  BY DEF Unbackup, Remains, IInv, TypeOK, UndoInv, Undoing, AtEntry, Settled, Goto
<1>4. PlanInv'
  BY DEF Unbackup, Goto, PlanInv, Changing
<1>5. OriginalInv'
  BY DEF Unbackup, Goto, OriginalInv, Changing
<1>6. ProgressInv'
  BY DEF Unbackup, Goto, ProgressInv, Changing
<1> QED
  BY <1>1, <1>2, <1>3, <1>4, <1>5, <1>6 DEF IInv

LEMMA UnjournalStep == IInv /\ Unjournal => IInv'
<1> SUFFICES ASSUME IInv, Unjournal PROVE IInv'
  OBVIOUS
<1>1. TypeOK'
  <2>1. /\ dest' \in [Entries -> Contents]
        /\ backup' \in [Entries -> Contents]
        /\ staged' \in [Release -> StagedContents]
        /\ resumable' \in BOOLEAN
    BY DEF Unjournal, IInv, TypeOK
  <2>2. journal' \in Journals
    BY DEF Unjournal, NoJournal, Journals
  <2>3. op' \in Ops
    BY IdleOpType DEF Unjournal, Recovered, Goto, Ops, Pcs, IInv, TypeOK
  <2> QED
    BY <2>1, <2>2, <2>3 DEF TypeOK
<1>2. JournalInv'
  BY DEF Unjournal, JournalInv, NoJournal
<1>3. UndoInv'
  BY DEF Unjournal, Recovered, IInv, TypeOK, UndoInv, AtEntry, Undoing, Goto,
    IdleOp, Ops
<1>4. PlanInv'
  BY DEF Unjournal, Recovered, IInv, TypeOK, PlanInv, Changing, Goto, IdleOp,
    NoJournal, Ops
<1>5. OriginalInv'
  BY DEF Unjournal, Recovered, IInv, TypeOK, OriginalInv, Changing, Goto, IdleOp,
    Ops
<1>6. ProgressInv'
  BY DEF Unjournal, Recovered, IInv, TypeOK, ProgressInv, Changing, Goto, IdleOp,
    Ops
<1> QED
  BY <1>1, <1>2, <1>3, <1>4, <1>5, <1>6 DEF IInv

LEMMA PlanStep == IInv /\ Plan => IInv'
<1> SUFFICES ASSUME IInv, Plan PROVE IInv'
  OBVIOUS
<1>1. TypeOK'
  <2>1. /\ dest' \in [Entries -> Contents]
        /\ backup' \in [Entries -> Contents]
        /\ staged' \in [Release -> StagedContents]
        /\ resumable' \in BOOLEAN
        /\ journal' \in Journals
    BY DEF Plan, disk, IInv, TypeOK
  <2>2. op' \in Ops
    BY DEF Plan, Mismatched, Unexpected, IInv, TypeOK, Ops, Pcs
  <2> QED
    BY <2>1, <2>2 DEF TypeOK
<1>2. JournalInv'
  BY DEF Plan, IInv, JournalInv, disk
<1>3. UndoInv'
  BY DEF Plan, UndoInv, Undoing, AtEntry
<1>4. PlanInv'
  BY DEF Plan, Mismatched, Unexpected, IInv, PlanInv, disk
<1>5. OriginalInv'
  BY DEF Plan, OriginalInv, Changing
<1>6. ProgressInv'
  BY DEF Plan, ProgressInv, Changing
<1> QED
  BY <1>1, <1>2, <1>3, <1>4, <1>5, <1>6 DEF IInv

LEMMA StageStep == IInv /\ Stage => IInv'
<1> SUFFICES ASSUME IInv, Stage PROVE IInv'
  OBVIOUS
<1>1. TypeOK'
  <2>1. /\ dest' \in [Entries -> Contents]
        /\ resumable' \in BOOLEAN
        /\ journal' \in Journals
    BY DEF Stage, IInv, TypeOK
  <2>2. backup' \in [Entries -> Contents]
    BY DEF Stage, Contents, Empty
  <2>3. staged' \in [Release -> StagedContents]
    BY DEF Stage, IInv, TypeOK, StagedContents
  <2>4. op' \in Ops
    <3>1. op.needed \in SUBSET Entries
      BY ReleaseAssumption DEF IInv, TypeOK, Ops, Entries
    <3> QED
      BY <3>1 DEF Stage, IInv, TypeOK, Ops, Pcs
  <2> QED
    BY <2>1, <2>2, <2>3, <2>4 DEF TypeOK
<1>2. JournalInv'
  BY DEF Stage, IInv, JournalInv, PlanInv
<1>3. UndoInv'
  BY DEF Stage, UndoInv, Undoing, AtEntry
<1>4. PlanInv'
  BY DEF Stage, IInv, PlanInv
<1>5. OriginalInv'
  BY DEF Stage, OriginalInv, Changing
<1>6. ProgressInv'
  BY DEF Stage, ProgressInv, Changing
<1> QED
  BY <1>1, <1>2, <1>3, <1>4, <1>5, <1>6 DEF IInv

LEMMA DownloadStep == IInv /\ Download => IInv'
<1> SUFFICES ASSUME IInv, Download PROVE IInv'
  OBVIOUS
<1>1. TypeOK'
  <2>1. /\ dest' \in [Entries -> Contents]
        /\ backup' \in [Entries -> Contents]
        /\ staged' \in [Release -> StagedContents]
        /\ resumable' \in BOOLEAN
        /\ journal' \in Journals
    BY DEF Download, IInv, TypeOK
  <2>2. op' \in Ops
    BY DEF Download, IInv, TypeOK, Ops
  <2> QED
    BY <2>1, <2>2 DEF TypeOK
<1>2. JournalInv'
  BY DEF Download, IInv, JournalInv
<1>3. UndoInv'
  BY DEF Download, IInv, TypeOK, Ops, UndoInv, Undoing, AtEntry
<1>4. PlanInv'
  BY DEF Download, Verified, IInv, TypeOK, Ops, PlanInv
<1>5. OriginalInv'
  BY DEF Download, IInv, TypeOK, Ops, OriginalInv, Pending
<1>6. ProgressInv'
  BY DEF Download, IInv, TypeOK, Ops, ProgressInv, Pending
<1> QED
  BY <1>1, <1>2, <1>3, <1>4, <1>5, <1>6 DEF IInv

LEMMA WriteJournalStep == IInv /\ WriteJournal => IInv'
<1> SUFFICES ASSUME IInv, WriteJournal PROVE IInv'
  OBVIOUS
<1>1. TypeOK'
  <2>1. /\ dest' \in [Entries -> Contents]
        /\ backup' \in [Entries -> Contents]
        /\ staged' \in [Release -> StagedContents]
        /\ resumable' \in BOOLEAN
    BY DEF WriteJournal, IInv, TypeOK
  <2>2. journal' \in Journals
    BY ReleaseAssumption DEF WriteJournal, Existing, IInv, TypeOK, Ops, Entries,
      Journals
  <2>3. op' \in Ops
    <3>1. Metadata \in SUBSET Entries
      BY DEF Entries
    <3> QED
      BY <3>1 DEF WriteJournal, IInv, TypeOK, Ops, Pcs
  <2> QED
    BY <2>1, <2>2, <2>3 DEF TypeOK
<1>2. JournalInv'
  BY ReleaseAssumption DEF WriteJournal, Existing, IInv, TypeOK, JournalInv,
    PlanInv, HadNone, Ops, Entries, Empty
<1>3. UndoInv'
  BY DEF WriteJournal, UndoInv, Undoing, AtEntry
<1>4. PlanInv'
  BY DEF WriteJournal, IInv, PlanInv
<1>5. OriginalInv'
  BY ReleaseAssumption DEF WriteJournal, Existing, IInv, TypeOK, PlanInv,
    OriginalInv, Pending, Ops, Entries, Empty
<1>6. ProgressInv'
  BY DEF WriteJournal, IInv, PlanInv, ProgressInv, Pending
<1> QED
  BY <1>1, <1>2, <1>3, <1>4, <1>5, <1>6 DEF IInv

LEMMA BackUpMetadataStep == IInv /\ BackUpMetadata => IInv'
<1> SUFFICES ASSUME IInv, BackUpMetadata PROVE IInv'
  OBVIOUS
<1>1. TypeOK'
  <2>1. /\ staged' \in [Release -> StagedContents]
        /\ resumable' \in BOOLEAN
        /\ journal' \in Journals
    BY DEF BackUpMetadata, IInv, TypeOK
  <2>2. dest' \in [Entries -> Contents]
    BY DEF BackUpMetadata, BackUp, IInv, TypeOK, Ops
  <2>3. backup' \in [Entries -> Contents]
    BY DEF BackUpMetadata, BackUp, IInv, TypeOK, Ops
  <2>4. op' \in Ops
    BY DEF BackUpMetadata, IInv, TypeOK, Ops
  <2> QED
    BY <2>1, <2>2, <2>3, <2>4 DEF TypeOK
<1>2. JournalInv'
  BY DEF BackUpMetadata, BackUp, IInv, TypeOK, JournalInv, OriginalInv, Pending,
    Changing
<1>3. UndoInv'
  BY DEF BackUpMetadata, UndoInv, Undoing, AtEntry
<1>4. PlanInv'
  BY ReleaseAssumption, MetadataAssumption DEF BackUpMetadata, BackUp, IInv,
    PlanInv, OriginalInv
<1>5. OriginalInv'
  BY ReleaseAssumption, MetadataAssumption DEF BackUpMetadata, BackUp, IInv, TypeOK,
    Ops, OriginalInv, Pending
<1>6. ProgressInv'
  BY DEF BackUpMetadata, IInv, ProgressInv, Pending
<1> QED
  BY <1>1, <1>2, <1>3, <1>4, <1>5, <1>6 DEF IInv

LEMMA BeginReplacingStep == IInv /\ BeginReplacing => IInv'
<1> SUFFICES ASSUME IInv, BeginReplacing PROVE IInv'
  OBVIOUS
<1>1. TypeOK'
  <2>1. /\ dest' \in [Entries -> Contents]
        /\ backup' \in [Entries -> Contents]
        /\ staged' \in [Release -> StagedContents]
        /\ resumable' \in BOOLEAN
        /\ journal' \in Journals
    BY DEF BeginReplacing, disk, IInv, TypeOK
  <2>2. op' \in Ops
    <3>1. op.needed \in SUBSET Entries
      BY ReleaseAssumption DEF IInv, TypeOK, Ops, Entries
    <3> QED
      BY <3>1 DEF BeginReplacing, IInv, TypeOK, Ops, Pcs
  <2> QED
    BY <2>1, <2>2 DEF TypeOK
<1>2. JournalInv'
  BY DEF BeginReplacing, IInv, JournalInv, disk
<1>3. UndoInv'
  BY DEF BeginReplacing, UndoInv, Undoing, AtEntry
<1>4. PlanInv'
  BY DEF BeginReplacing, IInv, PlanInv, Changing, disk
<1>5. OriginalInv'
  BY DEF BeginReplacing, IInv, OriginalInv, Pending, Changing, disk
<1>6. ProgressInv'
  BY DEF BeginReplacing, IInv, ProgressInv, Pending, disk
<1> QED
  BY <1>1, <1>2, <1>3, <1>4, <1>5, <1>6 DEF IInv

LEMMA BackUpOriginalStep == IInv /\ BackUpOriginal => IInv'
<1> SUFFICES ASSUME IInv, BackUpOriginal PROVE IInv'
  OBVIOUS
<1>1. TypeOK'
  <2>1. /\ staged' \in [Release -> StagedContents]
        /\ resumable' \in BOOLEAN
        /\ journal' \in Journals
    BY DEF BackUpOriginal, IInv, TypeOK
  <2>2. dest' \in [Entries -> Contents]
    BY DEF BackUpOriginal, BackUp, IInv, TypeOK, Ops
  <2>3. backup' \in [Entries -> Contents]
    BY DEF BackUpOriginal, BackUp, IInv, TypeOK, Ops
  <2>4. op' \in Ops
    <3>1. op \in Ops
      BY DEF IInv, TypeOK
    <3>2. PICK p \in op.todo : op' = [op EXCEPT !.pc = "swap", !.at = p, !.todo = @ \ {p}]
      BY DEF BackUpOriginal
    <3>3. p \in Entries
      BY <3>1, <3>2 DEF Ops
    <3> QED
      BY <3>1, <3>2, <3>3 DEF Ops, Pcs
  <2> QED
    BY <2>1, <2>2, <2>3, <2>4 DEF TypeOK
<1>2. JournalInv'
  BY DEF BackUpOriginal, BackUp, IInv, TypeOK, JournalInv, OriginalInv, Pending,
    Changing
<1>3. UndoInv'
  BY DEF BackUpOriginal, UndoInv, Undoing, AtEntry
<1>4. PlanInv'
  BY DEF BackUpOriginal, BackUp, IInv, PlanInv, Changing, OriginalInv
<1>5. OriginalInv'
  BY DEF BackUpOriginal, BackUp, IInv, TypeOK, Ops, OriginalInv, Pending, Changing
<1>6. ProgressInv'
  BY DEF BackUpOriginal, BackUp, IInv, OriginalInv, ProgressInv, Pending, Changing
<1> QED
  BY <1>1, <1>2, <1>3, <1>4, <1>5, <1>6 DEF IInv

LEMMA SwapStep == IInv /\ Swap => IInv'
<1> SUFFICES ASSUME IInv, Swap PROVE IInv'
  OBVIOUS
<1>1. TypeOK'
  <2>1. /\ backup' \in [Entries -> Contents]
        /\ resumable' \in BOOLEAN
        /\ journal' \in Journals
    BY DEF Swap, IInv, TypeOK
  <2>2. dest' \in [Entries -> Contents]
    BY ReleaseAssumption DEF Swap, IInv, TypeOK, ProgressInv, Ops, Entries, Contents
  <2>3. staged' \in [Release -> StagedContents]
    BY DEF Swap, IInv, TypeOK, ProgressInv, Ops, StagedContents
  <2>4. op' \in Ops
    BY DEF Swap, IInv, TypeOK, Goto, Ops, Pcs
  <2> QED
    BY <2>1, <2>2, <2>3, <2>4 DEF TypeOK
<1>2. JournalInv'
  <2>1. op.at \in Release /\ op.at \in Entries /\ staged[op.at] = "new"
    BY ReleaseAssumption DEF Swap, IInv, TypeOK, ProgressInv, Ops, Entries
  <2>2. Target[op.at] = "new"
    BY <2>1 DEF Target
  <2> QED
    BY <2>1, <2>2 DEF Swap, IInv, TypeOK, JournalInv, HadNone
<1>3. UndoInv'
  BY DEF Swap, Goto, UndoInv, Undoing, AtEntry
<1>4. PlanInv'
  BY DEF Swap, IInv, TypeOK, PlanInv, ProgressInv, Changing, Goto, Ops
<1>5. OriginalInv'
  BY DEF Swap, IInv, ProgressInv, OriginalInv, Pending, Changing, Goto
<1>6. ProgressInv'
  BY ReleaseAssumption DEF Swap, IInv, TypeOK, Ops, ProgressInv, Pending, Changing,
    Entries, Goto
<1> QED
  BY <1>1, <1>2, <1>3, <1>4, <1>5, <1>6 DEF IInv

LEMMA BeginRemovingStep == IInv /\ BeginRemoving => IInv'
<1> SUFFICES ASSUME IInv, BeginRemoving PROVE IInv'
  OBVIOUS
<1>1. TypeOK'
  <2>1. /\ dest' \in [Entries -> Contents]
        /\ backup' \in [Entries -> Contents]
        /\ staged' \in [Release -> StagedContents]
        /\ resumable' \in BOOLEAN
        /\ journal' \in Journals
    BY DEF BeginRemoving, disk, IInv, TypeOK
  <2>2. op' \in Ops
    <3>1. op.obsolete \in SUBSET Entries
      BY ReleaseAssumption DEF IInv, TypeOK, Ops, Entries
    <3> QED
      BY <3>1 DEF BeginRemoving, IInv, TypeOK, Ops, Pcs
  <2> QED
    BY <2>1, <2>2 DEF TypeOK
<1>2. JournalInv'
  BY DEF BeginRemoving, IInv, JournalInv, disk
<1>3. UndoInv'
  BY DEF BeginRemoving, UndoInv, Undoing, AtEntry
<1>4. PlanInv'
  BY DEF BeginRemoving, IInv, PlanInv, Changing, disk
<1>5. OriginalInv'
  BY DEF BeginRemoving, IInv, OriginalInv, Pending, Changing, disk
<1>6. ProgressInv'
  BY DEF BeginRemoving, IInv, ProgressInv, Pending, Changing, disk
<1> QED
  BY <1>1, <1>2, <1>3, <1>4, <1>5, <1>6 DEF IInv

LEMMA RemoveObsoleteStep == IInv /\ RemoveObsolete => IInv'
<1> SUFFICES ASSUME IInv, RemoveObsolete PROVE IInv'
  OBVIOUS
<1>1. TypeOK'
  <2>1. /\ staged' \in [Release -> StagedContents]
        /\ resumable' \in BOOLEAN
        /\ journal' \in Journals
    BY DEF RemoveObsolete, IInv, TypeOK
  <2>2. dest' \in [Entries -> Contents]
    BY DEF RemoveObsolete, BackUp, IInv, TypeOK, Ops
  <2>3. backup' \in [Entries -> Contents]
    BY DEF RemoveObsolete, BackUp, IInv, TypeOK, Ops
  <2>4. op' \in Ops
    BY DEF RemoveObsolete, IInv, TypeOK, Ops
  <2> QED
    BY <2>1, <2>2, <2>3, <2>4 DEF TypeOK
<1>2. JournalInv'
  BY DEF RemoveObsolete, BackUp, IInv, TypeOK, JournalInv, OriginalInv, ProgressInv,
    Pending, Changing, HadNone
<1>3. UndoInv'
  BY DEF RemoveObsolete, UndoInv, Undoing, AtEntry
<1>4. PlanInv'
  BY DEF RemoveObsolete, BackUp, IInv, TypeOK, PlanInv, ProgressInv, Ops
<1>5. OriginalInv'
  BY DEF RemoveObsolete, BackUp, IInv, OriginalInv, Pending
<1>6. ProgressInv'
  BY DEF RemoveObsolete, BackUp, IInv, TypeOK, Ops, ProgressInv, Pending
<1> QED
  BY <1>1, <1>2, <1>3, <1>4, <1>5, <1>6 DEF IInv

LEMMA WriteVersionStep == IInv /\ WriteVersion => IInv'
<1> SUFFICES ASSUME IInv, WriteVersion PROVE IInv'
  OBVIOUS
<1>1. TypeOK'
  <2>1. /\ backup' \in [Entries -> Contents]
        /\ staged' \in [Release -> StagedContents]
        /\ resumable' \in BOOLEAN
        /\ journal' \in Journals
    BY DEF WriteVersion, IInv, TypeOK
  <2>2. dest' \in [Entries -> Contents]
    BY DEF WriteVersion, IInv, TypeOK, Entries, Metadata, Contents
  <2>3. op' \in Ops
    BY DEF WriteVersion, IInv, TypeOK, Goto, Ops, Pcs
  <2> QED
    BY <2>1, <2>2, <2>3 DEF TypeOK
<1>2. JournalInv'
  <2>1. Target[VersionFile] = "new"
    BY DEF Target, Metadata, Entries
  <2> QED
    BY <2>1 DEF WriteVersion, IInv, TypeOK, JournalInv, HadNone
<1>3. UndoInv'
  BY DEF WriteVersion, Goto, UndoInv, Undoing, AtEntry
<1>4. PlanInv'
  BY MetadataAssumption DEF WriteVersion, IInv, PlanInv, Changing, Goto, Metadata
<1>5. OriginalInv'
  BY DEF WriteVersion, IInv, Goto, OriginalInv, Pending, Changing
<1>6. ProgressInv'
  BY MetadataAssumption DEF WriteVersion, IInv, TypeOK, OriginalInv, ProgressInv,
    Pending, Changing, Goto, Journals, Entries, Metadata
<1> QED
  BY <1>1, <1>2, <1>3, <1>4, <1>5, <1>6 DEF IInv

LEMMA WriteManifestStep == IInv /\ WriteManifest => IInv'
<1> SUFFICES ASSUME IInv, WriteManifest PROVE IInv'
  OBVIOUS
<1>1. TypeOK'
  <2>1. /\ backup' \in [Entries -> Contents]
        /\ staged' \in [Release -> StagedContents]
        /\ resumable' \in BOOLEAN
        /\ journal' \in Journals
    BY DEF WriteManifest, IInv, TypeOK
  <2>2. dest' \in [Entries -> Contents]
    BY DEF WriteManifest, IInv, TypeOK, Entries, Metadata, Contents
  <2>3. op' \in Ops
    BY DEF WriteManifest, IInv, TypeOK, Goto, Ops, Pcs
  <2> QED
    BY <2>1, <2>2, <2>3 DEF TypeOK
<1>2. JournalInv'
  <2>1. Target[ManagedManifest] = "new"
    BY DEF Target, Metadata, Entries
  <2> QED
    BY <2>1 DEF WriteManifest, IInv, TypeOK, JournalInv, HadNone
<1>3. UndoInv'
  BY DEF WriteManifest, Goto, UndoInv, Undoing, AtEntry
<1>4. PlanInv'
  BY MetadataAssumption DEF WriteManifest, IInv, PlanInv, Changing, Goto, Metadata
<1>5. OriginalInv'
  BY DEF WriteManifest, IInv, Goto, OriginalInv, Pending, Changing
<1>6. ProgressInv'
  BY MetadataAssumption DEF WriteManifest, IInv, TypeOK, OriginalInv, ProgressInv,
    Pending, Changing, Goto, Journals, Entries, Metadata
<1> QED
  BY <1>1, <1>2, <1>3, <1>4, <1>5, <1>6 DEF IInv

LEMMA CommitStep == IInv /\ Commit => IInv'
<1> SUFFICES ASSUME IInv, Commit PROVE IInv'
  OBVIOUS
<1>1. TypeOK'
  <2>1. /\ dest' \in [Entries -> Contents]
        /\ backup' \in [Entries -> Contents]
        /\ staged' \in [Release -> StagedContents]
        /\ resumable' \in BOOLEAN
    BY DEF Commit, IInv, TypeOK
  <2>2. journal' \in Journals
    BY DEF Commit, NoJournal, Journals
  <2>3. op' \in Ops
    BY DEF Commit, IInv, TypeOK, Goto, Ops, Pcs
  <2> QED
    BY <2>1, <2>2, <2>3 DEF TypeOK
<1>2. JournalInv'
  BY DEF Commit, JournalInv, NoJournal
<1>3. UndoInv'
  BY DEF Commit, Goto, UndoInv, Undoing, AtEntry
<1>4. PlanInv'
  BY DEF Commit, Goto, PlanInv, Changing
<1>5. OriginalInv'
  BY DEF Commit, Goto, OriginalInv, Changing
<1>6. ProgressInv'
  BY DEF Commit, IInv, TypeOK, PlanInv, ProgressInv, Pending, Changing, Goto,
    NoJournal, Entries, Metadata, Target
<1> QED
  BY <1>1, <1>2, <1>3, <1>4, <1>5, <1>6 DEF IInv

LEMMA CleanupStep == IInv /\ Cleanup => IInv'
<1> SUFFICES ASSUME IInv, Cleanup PROVE IInv'
  OBVIOUS
<1>1. TypeOK'
  <2>1. /\ dest' \in [Entries -> Contents]
        /\ journal' \in Journals
    BY DEF Cleanup, IInv, TypeOK
  <2>2. backup' \in [Entries -> Contents]
    BY DEF Cleanup, Remains, IInv, TypeOK, Contents
  <2>3. staged' \in [Release -> StagedContents]
    BY DEF Cleanup, Remains, IInv, TypeOK, StagedContents
  <2>4. resumable' \in BOOLEAN
    BY DEF Cleanup, IInv, TypeOK
  <2>5. op' \in Ops
    BY DEF Cleanup, IdleOp, NoJournal, Ops, Pcs, Journals
  <2> QED
    BY <2>1, <2>2, <2>3, <2>4, <2>5 DEF TypeOK
<1>2. JournalInv'
  BY DEF Cleanup, Remains, IInv, TypeOK, Journals, JournalInv
<1>3. UndoInv'
  BY DEF Cleanup, IdleOp, UndoInv, Undoing, AtEntry
<1>4. PlanInv'
  BY DEF Cleanup, IdleOp, PlanInv, Changing
<1>5. OriginalInv'
  BY DEF Cleanup, IdleOp, OriginalInv, Changing
<1>6. ProgressInv'
  BY DEF Cleanup, IdleOp, ProgressInv
<1> QED
  BY <1>1, <1>2, <1>3, <1>4, <1>5, <1>6 DEF IInv

\* Of the moves into quarantine, the first takes away what the invariant says most about.
LEMMA QuarantineStep ==
  ASSUME IInv, JournalUnreadable \/ QuarantineJournal \/ QuarantineBackup \/ QuarantineStaging
               \/ QuarantineManifest
  PROVE  IInv'
<1>1. TypeOK /\ op \in Ops
  BY DEF IInv, TypeOK
<1>2. op' \in Ops /\ op'.pc \in {"quarantine", "quarantineBackup", "quarantineStaging",
                                 "quarantineManifest", "idle"}
  <2>1. CASE QuarantineManifest
    BY <2>1, IdleOpType DEF QuarantineManifest, Fail, IdleOp
  <2>2. CASE ~QuarantineManifest
    BY <1>1, <2>2 DEF JournalUnreadable, QuarantineJournal, QuarantineBackup, QuarantineStaging,
       Goto, Ops, Pcs
  <2> QED
    BY <2>1, <2>2
<1>3. op'.pc # "quarantine" => op'.pc = "idle" \/ ~journal'.present
  BY <1>1 DEF JournalUnreadable, QuarantineJournal, QuarantineBackup, QuarantineStaging,
     QuarantineManifest, Goto, Fail, IdleOp, NoJournal, Ops, IInv, PlanInv
<1>4. TypeOK'
  <2>1. backup' \in [Entries -> Contents] /\ staged' \in [Release -> StagedContents]
        /\ journal' \in Journals /\ dest' \in [Entries -> Contents] /\ resumable' \in BOOLEAN
    <3>1. Empty \in [Entries -> Contents] /\ NoJournal \in Journals
      BY DEF Empty, NoJournal, Contents, Journals
    <3>2. [p \in Release |-> "none"] \in [Release -> StagedContents]
      BY DEF StagedContents
    <3> QED
      BY <1>1, <3>1, <3>2 DEF JournalUnreadable, QuarantineJournal, QuarantineBackup,
         QuarantineStaging, QuarantineManifest, disk, TypeOK
  <2> QED
    BY <1>2, <2>1 DEF TypeOK
<1>5. JournalInv'
  BY <1>1 DEF JournalUnreadable, QuarantineJournal, QuarantineBackup, QuarantineStaging,
     QuarantineManifest, disk, NoJournal, Empty, IInv, TypeOK, PlanInv, JournalInv
<1>6. UndoInv'
  BY <1>2 DEF UndoInv, Undoing, AtEntry
<1>7. PlanInv'
  BY <1>2, <1>3 DEF PlanInv, Changing
<1>8. OriginalInv' /\ ProgressInv'
  BY <1>2 DEF OriginalInv, ProgressInv, Changing
<1> QED
  BY <1>4, <1>5, <1>6, <1>7, <1>8 DEF IInv

\* An operation that only begins, or stops, leaves the disk as it is.
LEMMA Idling ==
  ASSUME IInv, UNCHANGED disk, op' \in Ops, op'.pc \in {"idle", "recover"}
  PROVE  IInv'
<1>1. TypeOK'
  BY DEF IInv, TypeOK, disk
<1>2. JournalInv'
  BY DEF IInv, JournalInv, disk
<1>3. UndoInv'
  BY DEF UndoInv, Undoing, AtEntry
<1>4. PlanInv'
  BY DEF PlanInv, Changing
<1>5. OriginalInv'
  BY DEF OriginalInv, Changing
<1>6. ProgressInv'
  BY DEF ProgressInv, Changing
<1> QED
  BY <1>1, <1>2, <1>3, <1>4, <1>5, <1>6 DEF IInv

LEMMA StartStep == IInv /\ Start => IInv'
<1> SUFFICES ASSUME IInv, Start PROVE IInv'
  OBVIOUS
<1>1. op' \in Ops /\ op'.pc = "recover"
  BY IdleOpType DEF Start, Ops, Pcs
<1> QED
  BY <1>1, Idling DEF Start

LEMMA OperationFailsStep == IInv /\ OperationFails => IInv'
<1> SUFFICES ASSUME IInv, OperationFails PROVE IInv'
  OBVIOUS
<1>1. op' \in Ops
  <2>1. [op EXCEPT !.pc = "recover", !.next = "fail"] \in Ops
    BY DEF IInv, TypeOK, Ops, Pcs
  <2>2. IdleOp("failed") \in Ops
    BY IdleOpType
  <2> QED
    BY <2>1, <2>2 DEF OperationFails, OnError, Fail
<1>2. op'.pc \in {"idle", "recover"}
  <2>1. op \in Ops
    BY DEF IInv, TypeOK
  <2>2. op' = [op EXCEPT !.pc = "recover", !.next = "fail"] \/ op' = IdleOp("failed")
    BY DEF OperationFails, OnError, Fail
  <2>3. IdleOp("failed").pc = "idle"
    BY DEF IdleOp
  <2>4. [op EXCEPT !.pc = "recover", !.next = "fail"].pc = "recover"
    BY <2>1 DEF Ops
  <2> QED
    BY <2>2, <2>3, <2>4
<1> QED
  BY <1>1, <1>2, Idling DEF OperationFails

LEMMA CrashStep == IInv /\ Crash => IInv'
<1> SUFFICES ASSUME IInv, Crash PROVE IInv'
  OBVIOUS
<1>1. op' \in Ops /\ op'.pc = "idle"
  BY IdleOpType DEF Crash, IdleOp
<1> QED
  BY <1>1, Idling DEF Crash

LEMMA Initially == Init => IInv
<1> SUFFICES ASSUME Init PROVE IInv
  OBVIOUS
<1>1. TypeOK
  <2>1. op \in Ops
    BY IdleOpType DEF Init
  <2>2. backup \in [Entries -> Contents] /\ staged \in [Release -> StagedContents]
    BY DEF Init, Empty, Contents, StagedContents
  <2>3. journal \in Journals
    BY DEF Init, NoJournal, Journals
  <2> QED
    BY <2>1, <2>2, <2>3 DEF Init, TypeOK
<1>2. JournalInv
  BY DEF Init, NoJournal, JournalInv
<1>3. op.pc = "idle"
  BY DEF Init, IdleOp
<1>4. UndoInv /\ PlanInv /\ OriginalInv /\ ProgressInv
  BY <1>3 DEF UndoInv, Undoing, AtEntry, PlanInv, OriginalInv, ProgressInv, Changing
<1> QED
  BY <1>1, <1>2, <1>4 DEF IInv

LEMMA StepKeepsIInv == IInv /\ [Next]_vars => IInv'
<1> SUFFICES ASSUME IInv, [Next]_vars PROVE IInv'
  OBVIOUS
<1>1. CASE Step
  BY <1>1, NothingToRecoverStep, ReadJournalStep, VisitStep, UnstageStep, ClearStep,
     RestoreStep, AllUndoneStep, UnbackupStep, UnjournalStep, PlanStep, StageStep,
     DownloadStep, WriteJournalStep, BackUpMetadataStep, BeginReplacingStep,
     BackUpOriginalStep, SwapStep, BeginRemovingStep, RemoveObsoleteStep,
     WriteVersionStep, WriteManifestStep, CommitStep, CleanupStep, QuarantineStep DEF Step
<1>2. CASE UNCHANGED vars
  <2>1. UNCHANGED <<dest, backup, staged, resumable, journal, op>>
    BY <1>2 DEF vars, disk
  <2> QED
    BY <2>1 DEF IInv, TypeOK, JournalInv, UndoInv, Settled, HadNone, PlanInv, OriginalInv,
       Pending, ProgressInv
<1> QED
  BY <1>1, <1>2, StartStep, OperationFailsStep, CrashStep DEF Next, Action

\* Types, the journal, the undo and the update are in every reachable state as described.
THEOREM UpdateInvariant == Spec => []IInv
  BY Initially, StepKeepsIInv, PTL DEF Spec

\* What is on the disk and in memory has its type, whatever startSync() was doing.
THEOREM TypesCorrect == Spec => []TypeOK
<1>1. IInv => TypeOK
  BY DEF IInv
<1> QED
  BY <1>1, UpdateInvariant, PTL

(***************************************************************************)
(* What is installed                                                       *)
(***************************************************************************)

\* The installation of an entry by itself.
LEMMA SameInstallation ==
  ASSUME TypeOK, TypeOK', journal.present, journal'.present,
         \A e \in Entries : Undone(journal)[e] = (Undone(journal)')[e]
  PROVE  Installed' = Installed
  BY DEF Installed, Undone

LEMMA SameDisk ==
  ASSUME TypeOK, UNCHANGED <<dest, backup, journal>>
  PROVE  Installed' = Installed
  BY DEF Installed, Undone

LEMMA NoJournalSame ==
  ASSUME ~journal.present, ~journal'.present, UNCHANGED dest
  PROVE  Installed' = Installed
  BY DEF Installed

\* What recovery does, it may do again: an undo undone is the same undo.
LEMMA UndoKeepsInstalled ==
  ASSUME IInv, IInv',
         ReadJournal \/ Visit \/ Unstage \/ Clear \/ Restore \/ AllUndone \/ Unbackup \/ Unjournal
  PROVE  Installed' = Installed
<1>1. TypeOK /\ TypeOK'
  BY DEF IInv
<1>2. CASE ReadJournal \/ Visit \/ AllUndone
  BY <1>1, <1>2, SameDisk DEF ReadJournal, Visit, AllUndone, disk
<1>3. CASE Unstage
  <2>1. journal.present /\ op.journal = journal /\ op.backedUp = (backup[op.at] # "none")
    BY <1>3 DEF Unstage, IInv, UndoInv, Undoing, AtEntry
  <2>2. UNCHANGED <<backup, journal>>
    BY <1>3 DEF Unstage
  <2>3. dest' = dest \/ (dest' = [dest EXCEPT ![op.at] = "none"] /\ ReachedDestination)
    BY <1>3 DEF Unstage
  <2>4. ASSUME NEW e \in Entries PROVE Undone(journal)[e] = (Undone(journal)')[e]
    BY <1>1, <2>1, <2>2, <2>3 DEF Undone, ReachedDestination, HadNoOriginal, TypeOK
  <2> QED
    BY <1>1, <2>1, <2>2, <2>4, SameInstallation
<1>4. CASE Clear
  <2>1. journal.present /\ op.journal = journal /\ op.backedUp = (backup[op.at] # "none")
    BY <1>4 DEF Clear, IInv, UndoInv, Undoing, AtEntry
  <2>2. UNCHANGED <<backup, journal>>
    BY <1>4 DEF Clear
  <2>3. dest' = dest \/ (dest' = [dest EXCEPT ![op.at] = "none"] /\ MustClear)
    BY <1>4 DEF Clear
  <2>4. ASSUME NEW e \in Entries PROVE Undone(journal)[e] = (Undone(journal)')[e]
    BY <1>1, <2>1, <2>2, <2>3 DEF Undone, MustClear, HadNoOriginal, TypeOK
  <2> QED
    BY <1>1, <2>1, <2>2, <2>4, SameInstallation
<1>5. CASE Restore
  <2>1. journal.present /\ op.at \in Undoes(journal)
    BY <1>5 DEF Restore, IInv, UndoInv, Undoing, AtEntry
  <2>2. /\ UNCHANGED journal
        /\ backup[op.at] # "none"
        /\ dest' = [dest EXCEPT ![op.at] = backup[op.at]]
        /\ backup' = [backup EXCEPT ![op.at] = "none"]
    BY <1>5 DEF Restore
  <2>3. op.at \in Entries
    BY <1>1, <2>1, ReleaseAssumption DEF Undoes, TypeOK, Journals, Entries
  <2>4. op.at \notin HadNone(journal)
    BY <1>1, <2>1, <2>2, <2>3, MetadataAssumption DEF IInv, JournalInv, HadNone, TypeOK, Journals
  <2>5. ASSUME NEW e \in Entries PROVE Undone(journal)[e] = (Undone(journal)')[e]
    BY <1>1, <2>2, <2>3, <2>4 DEF Undone, HadNone, TypeOK
  <2> QED
    BY <1>1, <2>1, <2>2, <2>5, SameInstallation
<1>6. CASE Unbackup \/ Unjournal
  <2>1. journal.present /\ \A e \in Entries : Settled(e)
    BY <1>6 DEF Unbackup, Unjournal, IInv, UndoInv, Undoing, AtEntry
  <2>2. \A e \in Entries : Undone(journal)[e] = dest[e]
    BY <1>1, <2>1 DEF Settled, HadNone, Undone, TypeOK
  <2>3. Installed = dest
    BY <1>1, <2>1, <2>2 DEF Installed, Undone, TypeOK
  <2>4. CASE Unbackup
    <3>1. \A e \in Entries : backup'[e] = "none"
      BY <1>1, <2>1, <2>4 DEF Unbackup, Remains, Settled, TypeOK
    <3>2. journal'.present /\ UNCHANGED <<dest, journal>>
      BY <2>1, <2>4 DEF Unbackup
    <3>3. \A e \in Entries : Undone(journal)[e] = (Undone(journal)')[e]
      BY <1>1, <2>1, <2>2, <3>1, <3>2 DEF Undone, Settled, TypeOK
    <3> QED
      BY <1>1, <2>1, <3>2, <3>3, SameInstallation
  <2>5. CASE Unjournal
    BY <2>3, <2>5 DEF Unjournal, NoJournal, Installed
  <2> QED
    BY <1>6, <2>4, <2>5
<1> QED
  BY <1>2, <1>3, <1>4, <1>5, <1>6

\* What an update changes before its commit, an undo takes back.
LEMMA UpdateKeepsInstalled ==
  ASSUME IInv, IInv',
         \/ NothingToRecover \/ Plan \/ Stage \/ Download \/ WriteJournal \/ BackUpMetadata
         \/ BeginReplacing \/ BackUpOriginal \/ Swap \/ BeginRemoving \/ RemoveObsolete
         \/ WriteVersion \/ WriteManifest \/ Cleanup
  PROVE  Installed' = Installed
<1>1. TypeOK /\ TypeOK'
  BY DEF IInv
<1>2. CASE NothingToRecover \/ Plan \/ Stage \/ Download \/ Cleanup
  <2>1. ~journal.present /\ UNCHANGED <<journal, dest>>
    BY <1>2 DEF NothingToRecover, Plan, Stage, Download, Cleanup, disk, IInv, PlanInv, ProgressInv
  <2> QED
    BY <2>1, NoJournalSame
<1>3. CASE BeginReplacing \/ BeginRemoving
  BY <1>1, <1>3, SameDisk DEF BeginReplacing, BeginRemoving, disk
<1>4. CASE WriteJournal
  <2>1. ~journal.present /\ backup = Empty /\ UNCHANGED <<dest, backup>>
    BY <1>4 DEF WriteJournal, IInv, PlanInv
  <2>2. journal'.present /\ \A e \in HadNone(journal') : dest[e] = "none"
    BY <1>4 DEF WriteJournal, HadNone, Existing
  <2>3. \A e \in Entries : (Undone(journal)')[e] = dest[e]
    BY <1>1, <2>1, <2>2 DEF Undone, HadNone, Empty, TypeOK
  <2>4. (Undone(journal)') = dest
    BY <1>1, <2>3 DEF Undone, TypeOK
  <2> QED
    BY <2>1, <2>2, <2>4 DEF Installed
<1>5. ASSUME NEW p \in Entries, BackUp(p), UNCHANGED journal, journal.present, backup[p] = "none",
             p \in HadNone(journal) => dest[p] = "none"
      PROVE  Installed' = Installed
  <2>1. ASSUME NEW e \in Entries PROVE Undone(journal)[e] = (Undone(journal)')[e]
    BY <1>1, <1>5 DEF Undone, BackUp, HadNone, TypeOK
  <2> QED
    BY <1>1, <1>5, <2>1, SameInstallation
<1>6. CASE BackUpMetadata
  <2>1. PICK m \in op.todo : BackUp(m)
    BY <1>6 DEF BackUpMetadata
  <2>2. m \in Entries /\ UNCHANGED journal
    BY <1>1, <1>6 DEF BackUpMetadata, TypeOK, Ops
  <2>3. journal.present /\ backup[m] = "none" /\ (dest[m] # "none" <=> m \in journal.had)
    BY <1>6 DEF BackUpMetadata, IInv, OriginalInv, Changing, Pending
  <2> QED
    BY <1>5, <2>1, <2>2, <2>3 DEF HadNone
<1>7. CASE BackUpOriginal
  <2>1. PICK p \in op.todo : BackUp(p)
    BY <1>7 DEF BackUpOriginal
  <2>2. p \in Entries /\ UNCHANGED journal
    BY <1>1, <1>7 DEF BackUpOriginal, TypeOK, Ops
  <2>3. journal.present /\ backup[p] = "none" /\ (dest[p] # "none" <=> p \in journal.had)
    BY <1>7 DEF BackUpOriginal, IInv, OriginalInv, Changing, Pending
  <2> QED
    BY <1>5, <2>1, <2>2, <2>3 DEF HadNone
<1>8. CASE RemoveObsolete
  <2>1. PICK p \in op.todo : BackUp(p)
    BY <1>8 DEF RemoveObsolete
  <2>2. p \in Entries /\ UNCHANGED journal
    BY <1>1, <1>8 DEF RemoveObsolete, TypeOK, Ops
  <2>3. journal.present /\ p \in journal.obsolete
    BY <1>8 DEF RemoveObsolete, IInv, OriginalInv, ProgressInv, Changing
  <2>4. p \notin HadNone(journal)
    BY <1>1, <2>3, MetadataAssumption DEF HadNone, TypeOK, Journals
  <2>5. CASE dest[p] = "none"
    <3>1. UNCHANGED backup /\ dest' = dest
      BY <1>1, <2>1, <2>2, <2>5 DEF BackUp, TypeOK
    <3> QED
      BY <1>1, <2>2, <3>1, SameDisk
  <2>6. CASE dest[p] # "none"
    BY <1>5, <2>1, <2>2, <2>3, <2>4, <2>6 DEF BackUp
  <2> QED
    BY <2>5, <2>6
<1>9. ASSUME NEW p \in Entries, NEW c, dest' = [dest EXCEPT ![p] = c], UNCHANGED <<backup, journal>>,
             journal.present, p \in journal.replace \cup Metadata,
             backup[p] # "none" \/ p \notin journal.had
      PROVE  Installed' = Installed
  <2>1. ASSUME NEW e \in Entries PROVE Undone(journal)[e] = (Undone(journal)')[e]
    BY <1>1, <1>9 DEF Undone, TypeOK
  <2> QED
    BY <1>1, <1>9, <2>1, SameInstallation
<1>10. CASE Swap
  <2>1. op.at \in op.needed \ op.todo
    BY <1>10 DEF Swap, IInv, ProgressInv
  <2>2. journal.present /\ journal.replace = op.needed /\ (backup[op.at] # "none" \/ op.at \notin journal.had)
    BY <1>10, <2>1 DEF Swap, IInv, OriginalInv, Changing, Pending
  <2>3. op.at \in Entries
    BY <1>1, <2>1, ReleaseAssumption DEF TypeOK, Ops, Entries
  <2> QED
    BY <1>9, <1>10, <2>1, <2>2, <2>3 DEF Swap
<1>11. CASE WriteVersion \/ WriteManifest
  <2>1. PICK m \in Metadata : dest' = [dest EXCEPT ![m] = "new"]
    BY <1>11 DEF WriteVersion, WriteManifest, Metadata
  <2>2. journal.present /\ (backup[m] # "none" \/ m \notin journal.had)
    BY <1>11 DEF WriteVersion, WriteManifest, IInv, OriginalInv, Changing, Pending
  <2>3. UNCHANGED <<backup, journal>>
    BY <1>11 DEF WriteVersion, WriteManifest
  <2> QED
    BY <1>9, <2>1, <2>2, <2>3 DEF Entries
<1> QED
  BY <1>2, <1>3, <1>4, <1>6, <1>7, <1>8, <1>10, <1>11

LEMMA CommitInstalls ==
  ASSUME IInv, Commit
  PROVE  Installed' = Target
<1>1. IInv'
  BY CommitStep
<1>2. op'.pc = "cleanup"
  BY DEF Commit, Goto, IInv, TypeOK, Ops
<1> QED
  BY <1>1, <1>2 DEF IInv, ProgressInv, Installed

\* What is moved away with the journal is what an undo would have put back: every path
\* is as it was, or as the release has it, or empty.
LEMMA QuarantineTears ==
  ASSUME IInv, QuarantineJournal
  PROVE  Installed' \in AtomicInstallation!Torn(Installed)
<1>1. TypeOK /\ dest' = dest /\ Installed' = dest
  BY DEF QuarantineJournal, NoJournal, Installed, IInv, TypeOK
<1>2. CASE ~journal.present
  BY <1>1, <1>2 DEF Installed, AtomicInstallation!Torn, TypeOK
<1>3. CASE journal.present
  <2>1. ASSUME NEW e \in Entries
        PROVE  dest[e] \in {Undone(journal)[e], Target[e], "none"}
    <3>1. backup[e] # "none" \/ e \in HadNone(journal) => dest[e] \in {"none", Target[e]}
      BY <1>3 DEF IInv, JournalInv
    <3> QED
      BY <3>1 DEF Undone, HadNone
  <2> QED
    BY <1>1, <1>3, <2>1 DEF Installed, AtomicInstallation!Torn, TypeOK
<1> QED
  BY <1>2, <1>3

\* Whatever fails, is cancelled or dies, and at whatever step: startSync() and
\* recoverInterruptedUpdate() bring every path to the release at once, or leave it, but
\* for the journal that quarantineRecoveryState() moves away.
THEOREM UpdateImplementsAtomicInstall == Spec => UpdateIsAtomic
<1>1. Init => AtomicInstallation!Init
  BY DEF Init, NoJournal, Installed, IdleOp, Abandoned, AtomicInstallation!Init
<1>2. IInv /\ IInv' /\ [Next]_vars =>
        [AtomicInstallation!Switch \/ AtomicInstallation!LoseRecord
         \/ AtomicInstallation!KeepRecord \/ AtomicInstallation!GiveUp]_<<Installed, Abandoned>>
  <2> SUFFICES ASSUME IInv, IInv', [Next]_vars
               PROVE  \/ Installed' = Installed
                      \/ ~Abandoned /\ ~Abandoned' /\ Installed' = Target
                      \/ /\ Abandoned /\ ~Abandoned'
                         /\ Installed' \in AtomicInstallation!Torn(Installed)
    BY DEF Abandoned, AtomicInstallation!Switch, AtomicInstallation!LoseRecord,
       AtomicInstallation!KeepRecord, AtomicInstallation!GiveUp
  <2>1. TypeOK /\ op \in Ops
    BY DEF IInv, TypeOK
  <2>2. CASE Start \/ OperationFails \/ Crash \/ JournalUnreadable \/ UNCHANGED vars
    BY <2>1, <2>2, SameDisk DEF Start, OperationFails, Crash, JournalUnreadable, vars, disk
  <2>3. CASE QuarantineBackup \/ QuarantineStaging \/ QuarantineManifest
    <3>1. ~journal.present /\ UNCHANGED <<dest, journal>>
      BY <2>3 DEF QuarantineBackup, QuarantineStaging, QuarantineManifest, IInv, PlanInv
    <3> QED
      BY <3>1, NoJournalSame
  <2>4. CASE QuarantineJournal
    <3>1. Abandoned /\ ~Abandoned'
      BY <2>1, <2>4 DEF QuarantineJournal, Goto, Abandoned, Ops
    <3> QED
      BY <2>4, <3>1, QuarantineTears
  <2>5. CASE Commit
    <3>1. ~Abandoned /\ ~Abandoned'
      BY <2>1, <2>5 DEF Commit, Goto, Abandoned, Ops
    <3> QED
      BY <2>5, <3>1, CommitInstalls
  <2> QED
    BY <2>2, <2>3, <2>4, <2>5, UndoKeepsInstalled, UpdateKeepsInstalled DEF Next, Action, Step
<1> QED
  BY <1>1, <1>2, UpdateInvariant, PTL DEF Spec, UpdateIsAtomic, AtomicInstallation!Spec

(***************************************************************************)
(* What is reported                                                        *)
(***************************************************************************)

\* Nothing is reported of an operation under way.
Unreported == op.pc # "idle" => op.result = "none"

LEMMA StepReport ==
  ASSUME TypeOK, Unreported, [Next]_vars
  PROVE  Unreported' /\ (op'.result # "completed" \/ Cleanup \/ UNCHANGED vars)
<1>1. op \in Ops
  BY DEF TypeOK
<1>2. CASE Cleanup
  BY <1>2 DEF Cleanup, IdleOp, Unreported
<1>3. CASE Start \/ OperationFails \/ Crash
  <2>1. CASE Start
    BY <2>1 DEF Start, IdleOp, Unreported
  <2>2. CASE OperationFails
    <3>1. \/ op.pc # "idle" /\ op' = [op EXCEPT !.pc = "recover", !.next = "fail"]
          \/ op' = IdleOp("failed")
      BY <2>2 DEF OperationFails, OnError, Fail
    <3>2. IdleOp("failed").pc = "idle" /\ IdleOp("failed").result = "failed"
      BY DEF IdleOp
    <3>3. [op EXCEPT !.pc = "recover", !.next = "fail"].result = op.result
      BY <1>1 DEF Ops
    <3> QED
      BY <3>1, <3>2, <3>3 DEF Unreported
  <2>3. CASE Crash
    BY <2>3 DEF Crash, IdleOp, Unreported
  <2> QED
    BY <1>3, <2>1, <2>2, <2>3
<1>4. CASE UNCHANGED vars
  BY <1>4 DEF vars, Unreported
<1>5. CASE NothingToRecover \/ Unjournal
  BY <1>1, <1>5 DEF NothingToRecover, Unjournal, Recovered, Goto, IdleOp, Unreported, Ops
<1>9. CASE JournalUnreadable \/ QuarantineJournal \/ QuarantineBackup \/ QuarantineStaging
  BY <1>1, <1>9 DEF JournalUnreadable, QuarantineJournal, QuarantineBackup, QuarantineStaging,
     Goto, Unreported, Ops
<1>10. CASE QuarantineManifest
  BY <1>10 DEF QuarantineManifest, Fail, IdleOp, Unreported
<1>6. CASE ReadJournal \/ Visit \/ Unstage \/ Clear \/ Restore \/ AllUndone \/ Unbackup
  BY <1>1, <1>6 DEF ReadJournal, Visit, Unstage, Clear, Restore, AllUndone, Unbackup, Goto,
     Unreported, Ops
<1>7. CASE \/ Plan \/ Stage \/ Download \/ WriteJournal \/ BackUpMetadata \/ BeginReplacing
           \/ BackUpOriginal \/ Swap
  BY <1>1, <1>7 DEF Plan, Stage, Download, WriteJournal, BackUpMetadata, BeginReplacing,
     BackUpOriginal, Swap, Goto, Unreported, Ops
<1>8. CASE BeginRemoving \/ RemoveObsolete \/ WriteVersion \/ WriteManifest \/ Commit
  BY <1>1, <1>8 DEF BeginRemoving, RemoveObsolete, WriteVersion, WriteManifest, Commit, Goto,
     Unreported, Ops
<1> QED
  BY <1>2, <1>3, <1>4, <1>5, <1>6, <1>7, <1>8, <1>9, <1>10 DEF Next, Action, Step

\* courier_result_completed is returned of an update or a repair only when every path is
\* as the release wants it.
THEOREM CompletedUpdateIsInstalled == Spec => CompletedMeansInstalled
<1>1. Init => Unreported
  BY DEF Init, IdleOp, Unreported
<1>2. IInv /\ Unreported /\ [Next]_vars => Unreported'
  BY StepReport DEF IInv
<1>3. IInv /\ Unreported /\ [Next]_vars => [op'.result = "completed" => dest' = Target]_vars
  <2> SUFFICES ASSUME IInv, Unreported, Next, op'.result = "completed"
               PROVE  dest' = Target \/ UNCHANGED vars
    OBVIOUS
  <2>1. CASE Cleanup
    BY <2>1 DEF Cleanup, IInv, ProgressInv
  <2>2. CASE ~Cleanup
    BY <2>2, StepReport DEF IInv
  <2> QED
    BY <2>1, <2>2
<1> QED
  BY <1>1, <1>2, <1>3, UpdateInvariant, PTL DEF Spec, CompletedMeansInstalled

(***************************************************************************)
(* Backups without a journal                                               *)
(***************************************************************************)

\* Backups whose journal has been put aside are remembered for as long as there are any.
Remembered ==
  backup' # Empty /\ ~journal'.present => (orphaned \/ JournalPutAside => orphaned')

\* A step that leaves the installation and the journal, and adds no backup.
LEMMA FewerBackups ==
  ASSUME TypeOK, TypeOK', UnownedBackupsAreStale, UNCHANGED <<dest, journal>>, Remembered,
         backup' \in Remains(backup) \cup {backup, Empty}
  PROVE  UnownedBackupsAreStale'
<1>1. backup = Empty => backup' = Empty
  BY DEF Remains, Empty, TypeOK
<1> QED
  BY <1>1 DEF UnownedBackupsAreStale, Remembered

LEMMA StepKeepsBackupsOwned ==
  ASSUME IInv, IInv', UnownedBackupsAreStale, [Next]_vars
  PROVE  UnownedBackupsAreStale'
<1>1. TypeOK /\ TypeOK'
  BY DEF IInv
<1>8. CASE UNCHANGED vars
  BY <1>8 DEF vars, disk, UnownedBackupsAreStale
<1> SUFFICES ASSUME Next PROVE UnownedBackupsAreStale'
  BY <1>8
<1>9. Remembered
  BY DEF Next, Remembered
<1>10. CASE QuarantineJournal
  BY <1>10, <1>9 DEF QuarantineJournal, JournalPutAside, Remembered, UnownedBackupsAreStale
<1>11. CASE QuarantineBackup
  BY <1>11 DEF QuarantineBackup, UnownedBackupsAreStale, Empty
<1>2. CASE NothingToRecover \/ Stage \/ Cleanup
  BY <1>9, <1>1, <1>2, FewerBackups DEF NothingToRecover, Stage, Cleanup
<1>3. CASE Start \/ ReadJournal \/ Visit \/ AllUndone \/ Plan \/ BeginReplacing
           \/ BeginRemoving \/ OperationFails \/ Crash \/ JournalUnreadable
           \/ QuarantineStaging \/ QuarantineManifest
  <2>1. UNCHANGED <<dest, journal, backup>>
    BY <1>3 DEF JournalUnreadable, QuarantineStaging, QuarantineManifest, Start, ReadJournal, Visit, AllUndone, Plan, BeginReplacing, BeginRemoving,
       OperationFails, Crash, disk
  <2> QED
    BY <1>1, <1>9, <2>1, FewerBackups
<1>4. CASE Download
  BY <1>1, <1>9, <1>4, FewerBackups DEF Download
<1>5. CASE \/ Unstage \/ Clear \/ Restore \/ Unbackup \/ WriteJournal \/ BackUpMetadata
           \/ BackUpOriginal \/ Swap \/ RemoveObsolete \/ WriteVersion \/ WriteManifest
  <2>1. CASE Unstage \/ Clear \/ Restore \/ Unbackup
    <3>1. journal.present
      BY <2>1 DEF Unstage, Clear, Restore, Unbackup, IInv, UndoInv, Undoing, AtEntry
    <3> QED
      BY <2>1, <3>1 DEF Unstage, Clear, Restore, Unbackup, UnownedBackupsAreStale
  <2>2. CASE WriteJournal
    BY <2>2 DEF WriteJournal, UnownedBackupsAreStale
  <2>3. CASE BackUpMetadata \/ BackUpOriginal \/ Swap \/ RemoveObsolete
    <3>1. journal.present
      BY <2>3 DEF BackUpMetadata, BackUpOriginal, Swap, RemoveObsolete, IInv, OriginalInv,
         Changing
    <3> QED
      BY <2>3, <3>1 DEF BackUpMetadata, BackUpOriginal, Swap, RemoveObsolete,
         UnownedBackupsAreStale
  <2>4. CASE WriteVersion \/ WriteManifest
    <3>1. journal.present
      BY <2>4 DEF WriteVersion, WriteManifest, IInv, OriginalInv, Changing
    <3> QED
      BY <2>4, <3>1 DEF WriteVersion, WriteManifest, UnownedBackupsAreStale
  <2> QED
    BY <1>5, <2>1, <2>2, <2>3, <2>4
<1>6. CASE Unjournal
  <2>1. op.todo = {} /\ op.pc = "unjournal"
    BY <1>6 DEF Unjournal, IInv, UndoInv, Undoing
  <2>2. \A e \in Entries : backup[e] = "none"
    BY <2>1 DEF IInv, UndoInv, Undoing, AtEntry, Settled
  <2>3. backup = Empty
    BY <1>1, <2>2 DEF Empty, TypeOK
  <2> QED
    BY <1>6, <2>3 DEF Unjournal, UnownedBackupsAreStale, Empty
<1>7. CASE Commit
  BY <1>7, CommitInstalls DEF Commit, NoJournal, Installed, UnownedBackupsAreStale
<1> QED
  BY <1>2, <1>3, <1>4, <1>5, <1>6, <1>7, <1>10, <1>11 DEF Next, Action, Step

\* What recoverInterruptedUpdate() deletes unseen, because there is no journal, is no
\* user's last copy, but after a quarantine that was cut off behind its first move.
THEOREM BackupsOwned == Spec => []UnownedBackupsAreStale
<1>1. Init => UnownedBackupsAreStale
  BY DEF Init, UnownedBackupsAreStale
<1> QED
  BY <1>1, StepKeepsBackupsOwned, UpdateInvariant, PTL DEF Spec

(***************************************************************************)
(* What has been downloaded                                                *)
(***************************************************************************)

\* From the journal on, what is staged is whole; and what a swap had put into place is
\* back in the staging directory before an undo makes the way free.
StagedWhole ==
  /\ journal.present => \A p \in journal.replace : staged[p] # "partial"
  /\ op.pc = "clear" /\ op.at \in op.journal.replace /\ MustClear => dest[op.at] = "none"

\* Unstage empties the destination of whatever Clear would remove from it.
LEMMA UnstageKeepsWhole ==
  ASSUME IInv, StagedWhole, Unstage
  PROVE  StagedWhole'
<1>1. /\ TypeOK /\ op \in Ops /\ journal.present /\ op.journal = journal
      /\ op.at \in journal.replace /\ op.at \in Release /\ op.at \in Entries
      /\ op.backedUp = (backup[op.at] # "none")
  BY ReleaseAssumption
     DEF IInv, TypeOK, UndoInv, Undoing, AtEntry, Unstage, Journals, Entries
<1>2. op' = [op EXCEPT !.pc = "clear"] /\ UNCHANGED <<backup, journal>>
  BY DEF Unstage, Goto
<1>3. MustClear' = MustClear /\ op'.at = op.at
  BY <1>1, <1>2 DEF MustClear, HadNoOriginal, Ops
<1>4. MustClear => dest[op.at] \in {"none", "new"}
  BY <1>1 DEF MustClear, HadNoOriginal, HadNone, IInv, JournalInv, Target
<1>5. CASE ReachedDestination
  <2>1. dest' = [dest EXCEPT ![op.at] = "none"] /\ staged' = BackToStaging
    BY <1>5 DEF Unstage
  <2>2. dest'[op.at] = "none"
    BY <1>1, <2>1 DEF TypeOK
  <2>3. MustClear
    BY <1>5 DEF ReachedDestination, MustClear
  <2>4. \A p \in journal.replace : staged'[p] # "partial"
    BY <1>1, <1>4, <2>1, <2>3 DEF BackToStaging, StagedWhole, TypeOK, Journals
  <2> QED
    BY <1>2, <1>3, <2>2, <2>4 DEF StagedWhole
<1>6. CASE ~ReachedDestination
  <2>1. UNCHANGED <<dest, staged>>
    BY <1>6 DEF Unstage
  <2>2. MustClear => dest[op.at] = "none"
    BY <1>6 DEF ReachedDestination, MustClear
  <2> QED
    BY <1>1, <1>2, <1>3, <2>1, <2>2 DEF StagedWhole
<1> QED
  BY <1>5, <1>6

LEMMA StepKeepsWhole ==
  ASSUME IInv, StagedWhole, [Next]_vars
  PROVE  StagedWhole'
<1>1. TypeOK /\ op \in Ops
  BY DEF IInv, TypeOK
<1>2. CASE Unstage
  BY <1>2, UnstageKeepsWhole
<1>3. CASE Visit
  <2>1. PICK e \in UndoNext :
          op' = [op EXCEPT !.at = e, !.todo = @ \ {e}, !.backedUp = (backup[e] # "none"),
                           !.pc = IF e \in op.journal.replace THEN "unstage" ELSE "clear"]
    BY <1>3 DEF Visit
  <2>2. op'.at = e /\ op'.journal = op.journal
        /\ op'.pc = IF e \in op.journal.replace THEN "unstage" ELSE "clear"
    BY <1>1, <2>1 DEF Ops
  <2> QED
    BY <1>3, <2>2 DEF Visit, disk, StagedWhole
<1>13. CASE JournalUnreadable \/ QuarantineJournal \/ QuarantineBackup \/ QuarantineStaging
            \/ QuarantineManifest
  <2>1. op'.pc # "clear"
    BY <1>1, <1>13 DEF JournalUnreadable, QuarantineJournal, QuarantineBackup, QuarantineStaging,
       QuarantineManifest, Goto, Fail, IdleOp, Ops
  <2>2. UNCHANGED <<staged, journal>> \/ ~journal'.present
    BY <1>13 DEF JournalUnreadable, QuarantineJournal, QuarantineBackup, QuarantineStaging,
       QuarantineManifest, NoJournal, disk, IInv, PlanInv
  <2> QED
    BY <2>1, <2>2 DEF StagedWhole
<1>4. CASE NothingToRecover \/ Unjournal
  <2>1. op'.pc # "clear"
    BY <1>1, <1>4 DEF NothingToRecover, Unjournal, Recovered, Goto, IdleOp, Ops
  <2> QED
    BY <1>4, <2>1 DEF NothingToRecover, Unjournal, NoJournal, StagedWhole
<1>5. CASE \/ Start \/ ReadJournal \/ AllUndone \/ Plan \/ BeginReplacing \/ BeginRemoving
           \/ OperationFails \/ Crash
  <2>1. op'.pc # "clear"
    <3>1. CASE Start
      BY <3>1 DEF Start, IdleOp
    <3>2. CASE Crash
      BY <3>2 DEF Crash, IdleOp
    <3>3. CASE OperationFails
      <4>1. \/ op' = [op EXCEPT !.pc = "recover", !.next = "fail"]
            \/ op' = IdleOp("failed")
        BY <3>3 DEF OperationFails, OnError, Fail
      <4>2. IdleOp("failed").pc = "idle"
        BY DEF IdleOp
      <4>3. [op EXCEPT !.pc = "recover", !.next = "fail"].pc = "recover"
        BY <1>1 DEF Ops
      <4> QED
        BY <4>1, <4>2, <4>3
    <3>4. CASE ReadJournal \/ AllUndone \/ Plan \/ BeginReplacing \/ BeginRemoving
      BY <1>1, <3>4 DEF ReadJournal, AllUndone, Plan, BeginReplacing, BeginRemoving, Goto, Ops
    <3> QED
      BY <1>5, <3>1, <3>2, <3>3, <3>4
  <2>2. UNCHANGED disk
    BY <1>5 DEF Start, ReadJournal, AllUndone, Plan, BeginReplacing, BeginRemoving,
       OperationFails, Crash
  <2> QED
    BY <2>1, <2>2 DEF disk, StagedWhole
<1>6. CASE \/ Clear \/ Restore \/ Unbackup \/ BackUpMetadata \/ BackUpOriginal \/ RemoveObsolete
           \/ WriteVersion \/ WriteManifest
  <2>1. op'.pc # "clear"
    BY <1>1, <1>6 DEF Clear, Restore, Unbackup, BackUpMetadata, BackUpOriginal, RemoveObsolete,
       WriteVersion, WriteManifest, Goto, Ops
  <2>2. UNCHANGED <<staged, journal>>
    BY <1>6 DEF Clear, Restore, Unbackup, BackUpMetadata, BackUpOriginal, RemoveObsolete,
       WriteVersion, WriteManifest
  <2> QED
    BY <2>1, <2>2 DEF StagedWhole
<1>7. CASE Stage \/ Download
  <2>1. ~journal'.present
    BY <1>7 DEF Stage, Download, IInv, PlanInv
  <2>2. op'.pc # "clear"
    BY <1>1, <1>7 DEF Stage, Download, Ops
  <2> QED
    BY <2>1, <2>2 DEF StagedWhole
<1>8. CASE WriteJournal
  <2>1. \A p \in op.needed : staged[p] = "new"
    BY <1>8 DEF WriteJournal, IInv, PlanInv
  <2>2. op'.pc # "clear" /\ journal'.replace = op.needed /\ UNCHANGED staged
    BY <1>1, <1>8 DEF WriteJournal, Ops
  <2> QED
    BY <2>1, <2>2 DEF StagedWhole
<1>9. CASE Swap
  <2>1. \A p \in journal.replace : staged'[p] # "partial" \/ ~journal.present
    BY <1>1, <1>9 DEF Swap, StagedWhole, TypeOK, Journals
  <2>2. op'.pc # "clear" /\ UNCHANGED journal
    BY <1>1, <1>9 DEF Swap, Goto, Ops
  <2> QED
    BY <2>1, <2>2 DEF StagedWhole
<1>10. CASE Commit
  <2>1. ~journal'.present /\ op'.pc = "cleanup"
    BY <1>1, <1>10 DEF Commit, NoJournal, Goto, Ops
  <2> QED
    BY <2>1 DEF StagedWhole
<1>11. CASE Cleanup
  <2>1. ~journal.present /\ journal' = journal
    BY <1>11 DEF Cleanup, IInv, ProgressInv
  <2>2. op'.pc = "idle"
    BY <1>11 DEF Cleanup, IdleOp
  <2> QED
    BY <2>1, <2>2 DEF StagedWhole
<1>12. CASE UNCHANGED vars
  BY <1>12 DEF vars, disk, StagedWhole, MustClear, HadNoOriginal
<1> QED
  BY <1>2, <1>3, <1>4, <1>5, <1>6, <1>7, <1>8, <1>9, <1>10, <1>11,
     <1>12, <1>13 DEF Next, Action, Step

\* A verified file is in the staging directory or in its place, after any step if before.
Kept(p) == resumable /\ "new" \in {staged[p], dest[p]} => "new" \in {staged'[p], dest'[p]}

LEMMA UndoKeepsVerified ==
  ASSUME IInv, StagedWhole, NEW p \in Release, Unstage \/ Clear \/ Restore
  PROVE  Kept(p)
<1>1. /\ TypeOK /\ op \in Ops /\ journal \in Journals /\ op.journal = journal
      /\ journal.present /\ op.at \in Undoes(journal) /\ p \in Entries
  BY ReleaseAssumption DEF IInv, TypeOK, UndoInv, Undoing, AtEntry, Unstage, Clear, Restore, Entries
<1>2. op.at \in Entries
  BY <1>1, ReleaseAssumption DEF Undoes, Journals, Entries
<1>3. CASE Unstage
  <2>1. op.at \in journal.replace
    BY <1>3 DEF Unstage, IInv, UndoInv, Undoing, AtEntry
  <2>2. CASE ReachedDestination
    <3>1. dest' = [dest EXCEPT ![op.at] = "none"]
      BY <1>3, <2>2 DEF Unstage
    <3>2. staged' = IF staged[op.at] # "none" THEN staged
                    ELSE [staged EXCEPT ![op.at] = dest[op.at]]
      BY <1>3, <2>2 DEF Unstage, BackToStaging
    <3>3. CASE p = op.at
      <4>1. /\ staged[p] \in {"none", "new"}
            /\ staged'[p] = IF staged[p] # "none" THEN staged[p] ELSE dest[p]
        BY <1>1, <2>1, <3>2, <3>3 DEF StagedWhole, TypeOK, StagedContents
      <4> QED
        BY <4>1 DEF Kept
    <3>4. CASE p # op.at
      BY <1>1, <1>2, <3>1, <3>2, <3>4 DEF Kept, TypeOK
    <3> QED
      BY <3>3, <3>4
  <2>3. CASE ~ReachedDestination
    BY <1>3, <2>3 DEF Unstage, Kept
  <2> QED
    BY <2>2, <2>3
<1>4. CASE Clear
  <2>1. UNCHANGED staged /\ op.pc = "clear"
        /\ dest' = IF MustClear THEN [dest EXCEPT ![op.at] = "none"] ELSE dest
    BY <1>4 DEF Clear
  <2>2. CASE p = op.at
    <3>1. p \in journal.replace
      BY <1>1, <2>2, MetadataAssumption, ReleaseAssumption DEF Undoes, Journals
    <3> QED
      BY <1>1, <2>1, <2>2, <3>1 DEF StagedWhole, Kept, TypeOK
  <2>3. CASE p # op.at
    BY <1>1, <1>2, <2>1, <2>3 DEF Kept, TypeOK
  <2> QED
    BY <2>2, <2>3
<1>5. CASE Restore
  BY <1>1, <1>2, <1>5 DEF Restore, Kept, TypeOK
<1> QED
  BY <1>3, <1>4, <1>5

LEMMA UpdateKeepsVerified ==
  ASSUME IInv, NEW p \in Release,
         Stage \/ Download \/ BackUpMetadata \/ BackUpOriginal \/ Swap \/ RemoveObsolete
         \/ WriteVersion \/ WriteManifest \/ Cleanup
  PROVE  Kept(p)
<1>1. TypeOK /\ op \in Ops /\ p \in Entries /\ p \notin Metadata
  BY ReleaseAssumption, MetadataAssumption DEF IInv, TypeOK, Entries
<1>2. CASE Stage
  BY <1>2 DEF Stage, Kept
<1>3. CASE Download
  BY <1>1, <1>3 DEF Download, Verified, Kept, TypeOK, Ops
<1>4. CASE BackUpMetadata \/ RemoveObsolete
  <2>1. PICK e \in op.todo : BackUp(e)
    BY <1>4 DEF BackUpMetadata, RemoveObsolete
  <2>2. e # p /\ UNCHANGED staged
    <3>1. CASE BackUpMetadata
      BY <1>1, <2>1, <3>1 DEF BackUpMetadata, IInv, OriginalInv, Changing
    <3>2. CASE RemoveObsolete
      BY <1>1, <2>1, <3>2 DEF RemoveObsolete, IInv, ProgressInv, Ops
    <3> QED
      BY <1>4, <3>1, <3>2
  <2>3. dest'[p] = dest[p]
    BY <1>1, <2>1, <2>2 DEF BackUp, TypeOK
  <2> QED
    BY <2>2, <2>3 DEF Kept
<1>5. CASE BackUpOriginal
  <2>1. PICK e \in op.todo : BackUp(e)
    BY <1>5 DEF BackUpOriginal
  <2>2. staged[e] = "new" /\ UNCHANGED staged
    BY <1>5 DEF BackUpOriginal, IInv, OriginalInv, ProgressInv, Pending, Changing
  <2>3. e # p => dest'[p] = dest[p]
    BY <1>1, <2>1 DEF BackUp, TypeOK
  <2> QED
    BY <2>2, <2>3 DEF Kept
<1>6. CASE Swap
  <2>1. op.at \in Release /\ op.at \in Entries
    BY <1>1, <1>6, ReleaseAssumption DEF Swap, IInv, ProgressInv, Ops, Entries
  <2> QED
    BY <1>1, <1>6, <2>1 DEF Swap, Kept, TypeOK
<1>7. CASE WriteVersion \/ WriteManifest
  BY <1>1, <1>7 DEF WriteVersion, WriteManifest, Metadata, Kept, TypeOK
<1>8. CASE Cleanup
  BY <1>1, <1>8 DEF Cleanup, IInv, ProgressInv, Target, Kept
<1> QED
  BY <1>2, <1>3, <1>4, <1>5, <1>6, <1>7, <1>8

\* No file that startSync() has verified is lost while its release is the one that is
\* wanted: a swap that fails, its undoing, the undoing of that one after a crash, and the
\* next attempt find it in the staging directory or in its place.  The exception is the
\* moving of the whole staging directory by quarantineRecoveryState().
THEOREM VerifiedFilesKeptAlways == Spec => VerifiedFilesKept
<1>1. Init => StagedWhole
  BY DEF Init, NoJournal, IdleOp, StagedWhole
<1>2. IInv /\ StagedWhole /\ [Next]_vars => StagedWhole'
  BY StepKeepsWhole
<1>3. IInv /\ StagedWhole /\ [Next]_vars =>
        [\A p \in Release :
           op.pc # "quarantineStaging" /\ resumable /\ "new" \in {staged[p], dest[p]}
             => "new" \in {staged'[p], dest'[p]}]_vars
  <2> SUFFICES ASSUME IInv, StagedWhole, Next, NEW p \in Release, op.pc # "quarantineStaging"
               PROVE  Kept(p)
    BY DEF Kept
  <2>1. CASE \/ NothingToRecover \/ ReadJournal \/ Visit \/ AllUndone \/ Unbackup \/ Unjournal
             \/ Plan \/ WriteJournal \/ BeginReplacing \/ BeginRemoving \/ Commit
             \/ Start \/ OperationFails \/ Crash
             \/ JournalUnreadable \/ QuarantineJournal \/ QuarantineBackup \/ QuarantineManifest
    <3>1. UNCHANGED <<dest, staged>>
      BY <2>1 DEF JournalUnreadable, QuarantineJournal, QuarantineBackup, QuarantineManifest, NothingToRecover, ReadJournal, Visit, AllUndone, Unbackup, Unjournal, Plan,
         WriteJournal, BeginReplacing, BeginRemoving, Commit, Start, OperationFails, Crash, disk
    <3> QED
      BY <3>1 DEF Kept
  <2> QED
    BY <2>1, UndoKeepsVerified, UpdateKeepsVerified DEF Next, Action, Step, QuarantineStaging
<1> QED
  BY <1>1, <1>2, <1>3, UpdateInvariant, PTL DEF Spec, VerifiedFilesKept

(***************************************************************************)
(* The download that is one action of CourierUpdate: what holds of it for  *)
(* any files of any sizes, any number of attempts and of tasks.            *)
(***************************************************************************)


(***************************************************************************)
(* The inductive invariant.  That a wrong hash has a cause in this         *)
(* operation rests on what a task that begins once more has thrown away,   *)
(* and on nothing being left of a task when an operation begins.           *)
(***************************************************************************)

\* Before its files are downloaded, an operation has done nothing but ask.
Asking ==
  fetching.pc \in {"version", "manifest"} =>
    /\ task = [f \in Files |-> Waiting]
    /\ fetching.cancelled => fetching.fault

\* The result is that of the operation before.
Underway == fetching.pc # "idle" => fetching.result = "none"

\* There are no bytes without a file, what is received has one, and what is verified has its
\* length.
Bytes ==
  \A f \in Files :
    /\ stored[f].length > 0 => stored[f].there
    /\ task[f].pc = "sent" /\ task[f].offset > 0 => stored[f].there
    /\ task[f].pc = "receiving" => stored[f].there
    /\ task[f].pc = "verify" => stored[f].length = size[f]

\* A file that is downloaded anew and is wrong has been sent wrong.
CleanIsOurs ==
  \A f \in Files :
    /\ task[f].clean /\ ~stored[f].right => task[f].wrong
    /\ task[f].wrong => fetching.fault

\* Without empty files, whatever ends the operation has a cause.
Caused ==
  (\A f \in Files : size[f] # 0) =>
    /\ fetching.cancelled => fetching.fault
    /\ fetching.result = "failed" => fetching.fault
    /\ \A f \in Files : task[f].pc = "mismatch" => task[f].wrong

DownloadInv == DownloadTypeOK /\ Asking /\ Underway /\ Bytes /\ CleanIsOurs /\ Caused

(***************************************************************************)
(* A step of one task: it is enough to look at its file and the operation. *)
(***************************************************************************)
TaskOf   == [pc : {"waiting", "look", "sent", "receiving", "backoff", "verify", "done", "failed",
                   "mismatch"},
             attempt : Nat, offset : Nat, clean : BOOLEAN, wrong : BOOLEAN]
StagedOf == [there : BOOLEAN, length : Nat, right : BOOLEAN]
OpOf     == [pc : {"idle", "version", "manifest", "files"}, attempt : Nat, cancelled : BOOLEAN,
             fault : BOOLEAN, result : {"none", "staged", "failed"}]

\* What the invariant says of a task t with the file s, that should be n long, and of the
\* operation o.
Sound(t, s, n, o) ==
  /\ t \in TaskOf /\ s \in StagedOf
  /\ s.length > 0 => s.there
  /\ t.pc = "sent" /\ t.offset > 0 => s.there
  /\ t.pc = "receiving" => s.there
  /\ t.pc = "verify" => s.length = n
  /\ t.clean /\ ~s.right => t.wrong
  /\ t.wrong => o.fault

\* The operation goes on as it was, but for a fault or a cancellation that has a cause.
GoesOn(o, t) ==
  /\ o \in OpOf
  /\ o.pc = fetching.pc /\ o.result = fetching.result /\ (fetching.fault => o.fault)
  /\ (\A g \in Files : size[g] # 0) =>
       (o.cancelled => o.fault) /\ (t.pc = "mismatch" => t.wrong)

LEMMA SizesAreNat == DownloadTypeOK => \A f \in Files : size[f] \in Nat
BY SizesAssumption DEF DownloadTypeOK

LEMMA AllSound ==
  ASSUME DownloadInv, NEW f \in Files
  PROVE  /\ Sound(task[f], stored[f], size[f], fetching)
         /\ GoesOn(fetching, task[f])
         /\ fetching.pc \in {"version", "manifest"} => task[f].pc = "waiting"
BY DEF DownloadInv, DownloadTypeOK, Asking, Bytes, CleanIsOurs, Caused, Sound, GoesOn, TaskOf, StagedOf, OpOf,
       Waiting

LEMMA OneTask ==
  ASSUME DownloadInv, NEW f \in Files, NEW t, NEW s,
         task[f].pc # "waiting" \/ fetching.pc = "files",
         Sound(t, s, size[f], fetching'), GoesOn(fetching', t),
         size' = size, task' = [task EXCEPT ![f] = t], stored' = [stored EXCEPT ![f] = s]
  PROVE  DownloadInv'
<1>1. fetching.pc \notin {"version", "manifest"}
  BY AllSound
<1>2. DownloadTypeOK'
  BY DEF DownloadInv, DownloadTypeOK, Sound, GoesOn, TaskOf, StagedOf, OpOf
<1>3. Asking' /\ Underway'
  BY <1>1 DEF DownloadInv, Underway, Asking, GoesOn
<1>4. Bytes'
  BY DEF DownloadInv, DownloadTypeOK, Bytes, Sound
<1>5. CleanIsOurs'
  BY DEF DownloadInv, DownloadTypeOK, CleanIsOurs, Sound, GoesOn
<1>6. Caused'
  BY DEF DownloadInv, DownloadTypeOK, Caused, GoesOn
<1>. QED
  BY <1>2, <1>3, <1>4, <1>5, <1>6 DEF DownloadInv

(***************************************************************************)
(* A step of the operation, which changes no task or lets all of them wait *)
(***************************************************************************)
LEMMA Operations ==
  ASSUME NEW r \in {"none", "staged", "failed"}, NEW b \in BOOLEAN
  PROVE  LET o == [OpIdle(r) EXCEPT !.fault = b]
         IN  /\ OpIdle(r) \in OpOf /\ OpIdle(r).result = r /\ OpIdle(r).pc = "idle"
             /\ ~OpIdle(r).cancelled /\ ~OpIdle(r).fault
             /\ o \in OpOf /\ o.result = r /\ o.pc = "idle" /\ ~o.cancelled /\ o.fault = b
BY DEF OpOf, OpIdle

LEMMA OperationChanged ==
  ASSUME NEW o \in OpOf, NEW b \in BOOLEAN, NEW c \in BOOLEAN
  PROVE  LET p == [o EXCEPT !.cancelled = c, !.fault = b]
         IN  /\ p \in OpOf /\ p.pc = o.pc /\ p.result = o.result /\ p.cancelled = c /\ p.fault = b
BY DEF OpOf

LEMMA TriedAgain ==
  ASSUME NEW o \in OpOf, NEW b \in BOOLEAN, NEW n \in Nat
  PROVE  LET p == [o EXCEPT !.attempt = n, !.fault = b]
         IN  /\ p \in OpOf /\ p.pc = o.pc /\ p.result = o.result /\ p.fault = b
BY DEF OpOf

LEMMA OneOp ==
  ASSUME DownloadInv, task' = task, stored' = stored, size' = size, fetching' \in OpOf,
         fetching.fault => fetching'.fault,
         fetching'.pc \in {"version", "manifest"} => fetching.pc \in {"version", "manifest"},
         fetching'.pc # "idle" => fetching'.result = "none",
         fetching'.pc \in {"version", "manifest"} => (fetching'.cancelled => fetching'.fault),
         (\A g \in Files : size[g] # 0) =>
           (fetching'.cancelled => fetching'.fault) /\ (fetching'.result = "failed" => fetching'.fault)
  PROVE  DownloadInv'
BY DEF DownloadInv, DownloadTypeOK, Asking, Underway, Bytes, CleanIsOurs, Caused, OpOf

LEMMA Anew ==
  ASSUME DownloadInv, task' = [f \in Files |-> Waiting], fetching' \in OpOf, ~fetching'.cancelled,
         fetching'.result = "none",
         \/ UNCHANGED <<size, stored>>
         \/ size' \in [Files -> Sizes] /\ stored' = [f \in Files |-> Nothing]
  PROVE  DownloadInv'
<1>1. /\ Waiting \in TaskOf /\ ~Waiting.clean /\ ~Waiting.wrong
      /\ Waiting.pc \notin {"sent", "receiving", "verify", "mismatch"}
  BY DEF Waiting, TaskOf
<1>2. Nothing \in StagedOf /\ Nothing.length = 0
  BY DEF Nothing, StagedOf
<1>3. DownloadTypeOK'
  BY <1>1, <1>2 DEF DownloadInv, DownloadTypeOK, TaskOf, StagedOf, OpOf
<1>4. Bytes'
  BY <1>1, <1>2, <1>3, SizesAssumption DEF DownloadInv, Bytes, DownloadTypeOK
<1>. QED
  BY <1>1, <1>3, <1>4 DEF DownloadInv, Asking, Underway, CleanIsOurs, Caused

LEMMA StartKeeps == DownloadInv /\ StartDownload => DownloadInv'
<1>. SUFFICES ASSUME DownloadInv, StartDownload PROVE DownloadInv'
  OBVIOUS
<1>. PICK pc \in {"version", "manifest"} : fetching' = [OpIdle("none") EXCEPT !.pc = pc, !.attempt = 1]
  BY DEF StartDownload
<1>1. fetching' \in OpOf /\ ~fetching'.cancelled /\ fetching'.result = "none"
  BY DEF OpIdle, OpOf
<1>. QED
  BY <1>1, Anew DEF StartDownload

LEMMA CrashKeeps == DownloadInv /\ DownloadCrashes => DownloadInv'
BY Anew, Operations DEF DownloadCrashes

\* What has failed to be fetched has a cause.
LEMMA FetchDataFacts ==
  ASSUME DownloadInv, fetching.pc \in {"version", "manifest"}, NEW a \in Answers, FetchData(a)
  PROVE  /\ fetching' \in OpOf
         /\ fetching'.fault
         /\ (fetching'.pc = fetching.pc /\ fetching'.result = "none") \/ fetching'.pc = "idle"
<1>1. fetching \in OpOf /\ fetching.result = "none" /\ fetching.attempt + 1 \in Nat
  BY DEF DownloadInv, DownloadTypeOK, Underway, OpOf
<1>2. TRUE \in BOOLEAN /\ "failed" \in {"none", "staged", "failed"}
  OBVIOUS
<1>3. CASE fetching' = [fetching EXCEPT !.attempt = @ + 1, !.fault = TRUE]
  <2>1. fetching' = [fetching EXCEPT !.attempt = fetching.attempt + 1, !.fault = TRUE]
    BY <1>3, Zenon
  <2>. QED
    BY <1>1, <1>2, <2>1, TriedAgain, Zenon
<1>4. CASE fetching' = [OpIdle("failed") EXCEPT !.fault = TRUE]
  BY <1>2, <1>4, Operations, Zenon
<1>. QED
  BY <1>3, <1>4, Zenon DEF FetchData

LEMMA FetchVersionKeeps == DownloadInv /\ FetchVersion => DownloadInv'
<1>. SUFFICES ASSUME DownloadInv, FetchVersion PROVE DownloadInv'
  OBVIOUS
<1>1. CASE \E a \in Answers : FetchData(a)
  BY <1>1, FetchDataFacts, OneOp DEF FetchVersion
<1>2. CASE fetching' = [fetching EXCEPT !.pc = "manifest", !.attempt = 1]
  BY <1>2, OneOp DEF FetchVersion, DownloadInv, DownloadTypeOK, Underway, OpOf
<1>. QED
  BY <1>1, <1>2 DEF FetchVersion

LEMMA FetchManifestKeeps == DownloadInv /\ FetchManifest => DownloadInv'
<1>. SUFFICES ASSUME DownloadInv, FetchManifest PROVE DownloadInv'
  OBVIOUS
<1>1. CASE (\E a \in Answers : FetchData(a)) /\ UNCHANGED <<size, stored>>
  BY <1>1, FetchDataFacts, OneOp DEF FetchManifest
<1>2. CASE fetching' = [fetching EXCEPT !.pc = "files", !.attempt = 1] /\ MatchStaging
  BY <1>2, Anew DEF FetchManifest, MatchStaging, DownloadInv, DownloadTypeOK, Asking, Underway, OpOf
<1>. QED
  BY <1>1, <1>2 DEF FetchManifest

LEMMA StopFetchingKeeps == DownloadInv /\ StopFetching => DownloadInv'
<1>. SUFFICES ASSUME DownloadInv, StopFetching PROVE DownloadInv'
  OBVIOUS
<1>1. fetching' \in OpOf /\ fetching'.fault /\ fetching'.pc = "idle"
  BY Operations, Zenon DEF StopFetching
<1>. QED
  BY <1>1, OneOp DEF StopFetching

LEMMA FinishKeeps == DownloadInv /\ Finish => DownloadInv'
<1>. SUFFICES ASSUME DownloadInv, Finish PROVE DownloadInv'
  OBVIOUS
<1>1. fetching.fault \in BOOLEAN
  BY DEF DownloadInv, DownloadTypeOK
<1>2. /\ fetching' \in OpOf /\ fetching'.pc = "idle" /\ ~fetching'.cancelled /\ fetching'.fault = fetching.fault
      /\ fetching'.result = "failed" => fetching.cancelled
  <2>1. CASE fetching' = [OpIdle("staged") EXCEPT !.fault = fetching.fault]
    BY <1>1, <2>1, Operations
  <2>2. CASE fetching.cancelled /\ fetching' = [OpIdle("failed") EXCEPT !.fault = fetching.fault]
    BY <1>1, <2>2, Operations
  <2>. QED
    BY <2>1, <2>2 DEF Finish
<1>. QED
  BY <1>2, OneOp DEF Finish, DownloadInv, Caused

LEMMA CancelKeeps == DownloadInv /\ Cancel => DownloadInv'
<1>. SUFFICES ASSUME DownloadInv, Cancel PROVE DownloadInv'
  OBVIOUS
<1>1. fetching \in OpOf
  BY DEF DownloadInv, DownloadTypeOK, OpOf
<1>2. fetching' \in OpOf /\ fetching'.pc = fetching.pc /\ fetching'.result = fetching.result /\ fetching'.fault
  BY <1>1, OperationChanged, Zenon DEF Cancel
<1>. QED
  BY <1>2, OneOp DEF Cancel, DownloadInv, Underway

(***************************************************************************)
(* A step of a task                                                        *)
(***************************************************************************)
\* A task that fails, one that waits to ask again, and a file that is sent for.
LEMMA FailsFacts ==
  ASSUME DownloadInv, NEW f \in Files, task[f].pc \notin {"waiting", "failed", "mismatch"},
         NEW pc \in {"failed", "mismatch"}, Fails(f, pc),
         pc = "mismatch" => task[f].wrong \/ size[f] = 0
  PROVE  LET t == [task[f] EXCEPT !.pc = pc]
         IN  /\ task' = [task EXCEPT ![f] = t]
             /\ t \in TaskOf /\ t.pc = pc /\ t.clean = task[f].clean /\ t.wrong = task[f].wrong
             /\ GoesOn(fetching', t) /\ (fetching.fault => fetching'.fault)
<1>1. fetching \in OpOf /\ task[f] \in TaskOf /\ (fetching.fault \/ pc = "failed") \in BOOLEAN
  BY AllSound DEF Sound, GoesOn, OpOf
<1>2. /\ fetching' \in OpOf /\ fetching'.pc = fetching.pc /\ fetching'.result = fetching.result
      /\ fetching'.fault = (fetching.fault \/ pc = "failed")
  BY <1>1, OperationChanged, Zenon DEF Fails
<1>3. task[f].wrong => fetching.fault
  BY AllSound DEF Sound
<1>. QED
  BY <1>1, <1>2, <1>3 DEF Fails, GoesOn, TaskOf

LEMMA FaultFacts ==
  ASSUME DownloadInv, Fault
  PROVE  fetching' \in OpOf /\ fetching'.pc = fetching.pc /\ fetching'.result = fetching.result /\ fetching'.fault
<1>1. fetching \in OpOf
  BY DEF DownloadInv, DownloadTypeOK, OpOf
<1>. QED
  BY <1>1 DEF Fault, OpOf

LEMMA TransientFacts ==
  ASSUME DownloadInv, NEW f \in Files, task[f].pc \notin {"waiting", "failed", "mismatch"}, Transient(f)
  PROVE  \E pc \in {"backoff", "failed"} :
           LET t == [task[f] EXCEPT !.pc = pc]
           IN  /\ task' = [task EXCEPT ![f] = t]
               /\ t \in TaskOf /\ t.pc = pc /\ t.clean = task[f].clean /\ t.wrong = task[f].wrong
               /\ GoesOn(fetching', t) /\ (fetching.fault => fetching'.fault)
<1>1. CASE Fails(f, "failed")
  BY <1>1, FailsFacts
<1>2. CASE task' = [task EXCEPT ![f].pc = "backoff"] /\ Fault
  BY <1>2, FaultFacts, AllSound DEF Sound, GoesOn, TaskOf
<1>. QED
  BY <1>1, <1>2 DEF Transient

LEMMA SendKeeps ==
  ASSUME DownloadInv, NEW f \in Files, NEW n \in Nat, Send(f, n), task[f].pc # "waiting",
         UNCHANGED <<size, fetching>>
  PROVE  DownloadInv'
<1>. DEFINE rest == stored[f].length > 0 /\ stored[f].length < size[f]
            t == [task[f] EXCEPT !.pc = "sent", !.attempt = n,
                                 !.offset = IF rest THEN stored[f].length ELSE 0]
            s == IF stored[f].length >= size[f] THEN Nothing ELSE stored[f]
<1>1. task' = [task EXCEPT ![f] = t] /\ stored' = [stored EXCEPT ![f] = s]
  BY DEF Send, DownloadInv, DownloadTypeOK
<1>2. /\ task[f] \in TaskOf /\ stored[f] \in StagedOf /\ size[f] \in Nat
      /\ task[f].wrong => fetching.fault
      /\ stored[f].length > 0 => stored[f].there
      /\ task[f].clean /\ ~stored[f].right => task[f].wrong
  BY AllSound, SizesAreNat DEF Sound, DownloadInv
<1>3. /\ t \in TaskOf /\ t.pc = "sent" /\ t.clean = task[f].clean /\ t.wrong = task[f].wrong
      /\ t.offset > 0 => stored[f].length > 0 /\ stored[f].length < size[f]
  <2>. DEFINE o == IF rest THEN stored[f].length ELSE 0
  <2>1. o \in Nat /\ (o > 0 => rest)
    BY <1>2 DEF StagedOf
  <2>2. t = [task[f] EXCEPT !.pc = "sent", !.attempt = n, !.offset = o]
    OBVIOUS
  <2>. HIDE DEF o, t
  <2>. QED
    BY <1>2, <2>1, <2>2 DEF TaskOf
<1>4. \/ s = stored[f]
      \/ (s = Nothing /\ stored[f].length >= size[f])
  OBVIOUS
<1>5. Nothing \in StagedOf /\ Nothing.length = 0 /\ Nothing.right
  BY DEF Nothing, StagedOf
<1>6. GoesOn(fetching', t)
  BY <1>3, AllSound DEF GoesOn
<1>7. s \in StagedOf /\ (s.length > 0 => s.there) /\ (t.offset > 0 => s.there)
  BY <1>2, <1>3, <1>4, <1>5 DEF StagedOf
<1>8. t.clean /\ ~s.right => t.wrong
  BY <1>2, <1>3, <1>4, <1>5
<1>9. Sound(t, s, size[f], fetching')
  BY <1>2, <1>3, <1>7, <1>8 DEF Sound
<1>. HIDE DEF t, s, rest
<1>. QED
  BY <1>1, <1>6, <1>9, OneTask

LEMMA BeginKeeps == ASSUME DownloadInv, NEW f \in Files, Begin(f) PROVE DownloadInv'
<1>. DEFINE t == [task[f] EXCEPT !.pc = "look"]
<1>1. Sound(t, stored[f], size[f], fetching') /\ GoesOn(fetching', t)
  BY AllSound DEF Begin, Sound, GoesOn, TaskOf
<1>2. task' = [task EXCEPT ![f] = t] /\ stored' = [stored EXCEPT ![f] = stored[f]]
  BY DEF Begin, DownloadInv, DownloadTypeOK
<1>. QED
  BY <1>1, <1>2, OneTask DEF Begin

LEMMA LookKeeps == ASSUME DownloadInv, NEW f \in Files, Look(f) PROVE DownloadInv'
<1>1. CASE Enough(f) /\ task' = [task EXCEPT ![f].pc = "verify"] /\ UNCHANGED stored
  <2>. DEFINE t == [task[f] EXCEPT !.pc = "verify"]
  <2>1. Sound(t, stored[f], size[f], fetching') /\ GoesOn(fetching', t)
    BY <1>1, AllSound DEF Look, Enough, Sound, GoesOn, TaskOf
  <2>2. task' = [task EXCEPT ![f] = t] /\ stored' = [stored EXCEPT ![f] = stored[f]]
    BY <1>1 DEF DownloadInv, DownloadTypeOK
  <2>. QED
    BY <2>1, <2>2, OneTask DEF Look
<1>2. CASE Send(f, 1)
  BY <1>2, SendKeeps DEF Look
<1>. QED
  BY <1>1, <1>2 DEF Look

LEMMA RetryKeeps == ASSUME DownloadInv, NEW f \in Files, Retry(f) PROVE DownloadInv'
<1>1. task[f].attempt + 1 \in Nat
  BY AllSound DEF Sound, TaskOf
<1>. QED
  BY <1>1, SendKeeps DEF Retry

\* A file that is opened anew.
LEMMA EmptyFile ==
  ASSUME NEW b \in BOOLEAN
  PROVE  LET s == [Nothing EXCEPT !.there = b]
         IN  s \in StagedOf /\ s.length = 0 /\ s.there = b /\ s.right
BY DEF Nothing, StagedOf

\* A task that waits or is over, whose file is as it was, or gone.
LEMMA Ended ==
  ASSUME DownloadInv, NEW f \in Files, NEW t \in TaskOf, NEW s \in StagedOf,
         task[f].pc # "waiting",
         t.pc \in {"backoff", "failed", "mismatch", "done"}, t.clean = task[f].clean,
         t.wrong = task[f].wrong, GoesOn(fetching', t), fetching.fault => fetching'.fault,
         s = stored[f] \/ s = Nothing,
         size' = size, task' = [task EXCEPT ![f] = t], stored' = [stored EXCEPT ![f] = s]
  PROVE  DownloadInv'
<1>1. Nothing.length = 0 /\ Nothing.right
  BY DEF Nothing
<1>2. Sound(t, s, size[f], fetching')
  BY <1>1, AllSound DEF Sound, StagedOf
<1>. QED
  BY <1>2, OneTask

LEMMA NothingIsSound == Nothing \in StagedOf
BY DEF Nothing, StagedOf

\* Of a step that changes one task and possibly clears its file.
LEMMA ClearedOrNot ==
  ASSUME DownloadInv, NEW f \in Files,
         stored' = stored \/ stored' = [stored EXCEPT ![f] = Nothing]
  PROVE  \E s \in StagedOf : /\ stored' = [stored EXCEPT ![f] = s]
                             /\ s = stored[f] \/ s = Nothing
<1>1. stored[f] \in StagedOf /\ stored = [stored EXCEPT ![f] = stored[f]]
  BY DEF DownloadInv, DownloadTypeOK, StagedOf
<1>. QED
  BY <1>1, NothingIsSound

LEMMA FailsKeeps ==
  ASSUME DownloadInv, NEW f \in Files, task[f].pc \notin {"waiting", "failed", "mismatch"},
         NEW pc \in {"failed", "mismatch"}, Fails(f, pc),
         pc = "mismatch" => task[f].wrong \/ size[f] = 0,
         stored' = stored \/ stored' = [stored EXCEPT ![f] = Nothing], size' = size
  PROVE  DownloadInv'
<1>1. PICK s \in StagedOf : stored' = [stored EXCEPT ![f] = s] /\ (s = stored[f] \/ s = Nothing)
  BY ClearedOrNot
<1>. QED
  BY <1>1, FailsFacts, Ended

LEMMA TransientKeeps ==
  ASSUME DownloadInv, NEW f \in Files, task[f].pc \notin {"waiting", "failed", "mismatch"}, Transient(f),
         stored' = stored \/ stored' = [stored EXCEPT ![f] = Nothing], size' = size
  PROVE  DownloadInv'
<1>1. PICK s \in StagedOf : stored' = [stored EXCEPT ![f] = s] /\ (s = stored[f] \/ s = Nothing)
  BY ClearedOrNot
<1>. QED
  BY <1>1, TransientFacts, Ended

LEMMA RespondKeeps == ASSUME DownloadInv, NEW f \in Files, Respond(f) PROVE DownloadInv'
<1>1. task[f].pc = "sent" /\ size' = size
  BY DEF Respond
<1>. DEFINE t == [task[f] EXCEPT !.pc = "receiving"]
<1>2. /\ task[f] \in TaskOf /\ stored[f] \in StagedOf /\ Sound(task[f], stored[f], size[f], fetching)
      /\ t \in TaskOf /\ t.pc = "receiving" /\ t.clean = task[f].clean /\ t.wrong = task[f].wrong
  BY AllSound DEF Sound, TaskOf
<1>3. CASE Resumed(f)
  <2>1. task' = [task EXCEPT ![f] = t] /\ stored' = [stored EXCEPT ![f] = stored[f]]
    BY <1>3 DEF Resumed, DownloadInv, DownloadTypeOK
  <2>2. Sound(t, stored[f], size[f], fetching') /\ GoesOn(fetching', t)
    BY <1>1, <1>2, <1>3, AllSound DEF Resumed, Sound, GoesOn, TaskOf
  <2>. HIDE DEF t
  <2>. QED
    BY <1>1, <2>1, <2>2, OneTask
<1>4. CASE FromTheStart(f)
  <2>. DEFINE s == [Nothing EXCEPT !.there = TRUE]
  <2>1. s \in StagedOf /\ s.length = 0 /\ s.there = TRUE /\ s.right
    BY EmptyFile, Zenon
  <2>2. stored' = [stored EXCEPT ![f] = s]
    BY <1>4, Zenon DEF FromTheStart
  <2>3. task' = [task EXCEPT ![f] = t] /\ fetching' = fetching
    BY <1>4 DEF FromTheStart, DownloadInv, DownloadTypeOK
  <2>. HIDE DEF s
  <2>4. Sound(t, s, size[f], fetching') /\ GoesOn(fetching', t)
    BY <1>1, <1>2, <2>1, <2>3, AllSound DEF Sound, GoesOn, TaskOf
  <2>. HIDE DEF t
  <2>. QED
    BY <1>1, <2>2, <2>3, <2>4, OneTask
<1>5. CASE Rejected(f)
  BY <1>1, <1>5, TransientKeeps DEF Rejected
<1>6. CASE Refused(f)
  BY <1>1, <1>6, FailsKeeps DEF Refused
<1>7. CASE Transient(f) /\ UNCHANGED stored
  BY <1>1, <1>7, TransientKeeps
<1>. QED
  BY <1>3, <1>4, <1>5, <1>6, <1>7 DEF Respond

LEMMA PieceJudged ==
  ASSUME NEW t \in TaskOf, NEW w \in BOOLEAN
  PROVE  LET u == [t EXCEPT !.wrong = w]
         IN  u \in TaskOf /\ u.pc = t.pc /\ u.clean = t.clean /\ u.wrong = w
BY DEF TaskOf

LEMMA ReceiveKeeps == ASSUME DownloadInv, NEW f \in Files, Receive(f) PROVE DownloadInv'
<1>1. task[f].pc = "receiving" /\ size' = size
  BY DEF Receive
<1>2. PICK right \in BOOLEAN :
        /\ stored' = [stored EXCEPT ![f].length = @ + 1, ![f].right = @ /\ right]
        /\ task' = [task EXCEPT ![f].wrong = @ \/ ~right]
        /\ fetching' = [fetching EXCEPT !.fault = @ \/ ~right]
  BY DEF Receive
<1>3. /\ task[f] \in TaskOf /\ stored[f] \in StagedOf /\ fetching \in OpOf
      /\ Sound(task[f], stored[f], size[f], fetching) /\ GoesOn(fetching, task[f])
  BY AllSound DEF Sound, GoesOn
<1>. DEFINE w == task[f].wrong \/ ~right
            r == stored[f].right /\ right
            b == fetching.fault \/ ~right
            t == [task[f] EXCEPT !.wrong = w]
            n == stored[f].length + 1
            s == [stored[f] EXCEPT !.length = n, !.right = r]
<1>4. w \in BOOLEAN /\ r \in BOOLEAN /\ b \in BOOLEAN
  OBVIOUS
<1>5. /\ task' = [task EXCEPT ![f] = t]
      /\ stored' = [stored EXCEPT ![f] = s]
      /\ fetching' = [fetching EXCEPT !.fault = b]
  BY <1>2, Zenon DEF DownloadInv, DownloadTypeOK
<1>6. /\ t \in TaskOf /\ t.pc = "receiving" /\ t.clean = task[f].clean /\ t.wrong = w
      /\ s \in StagedOf /\ s.there = stored[f].there /\ s.right = r
  <2>1. n \in Nat
    BY <1>3 DEF StagedOf
  <2>. HIDE DEF n, r, w
  <2>2. t \in TaskOf /\ t.pc = task[f].pc /\ t.clean = task[f].clean /\ t.wrong = w
    BY <1>3, <1>4, PieceJudged, Zenon
  <2>3. s \in StagedOf /\ s.there = stored[f].there /\ s.right = r
    <3>1. stored[f] \in StagedOf /\ r \in BOOLEAN
      BY <1>3, <1>4
    <3>. QED
      BY <2>1, <3>1 DEF StagedOf
  <2>. QED
    BY <1>1, <2>2, <2>3, Zenon
<1>7. /\ fetching' \in OpOf /\ fetching'.pc = fetching.pc /\ fetching'.result = fetching.result
      /\ fetching'.cancelled = fetching.cancelled /\ fetching'.fault = b
  <2>. HIDE DEF w, r, b
  <2>. QED
    BY <1>3, <1>4, <1>5 DEF OpOf
<1>. HIDE DEF t, s
<1>8. Sound(t, s, size[f], fetching') /\ GoesOn(fetching', t)
  BY <1>1, <1>3, <1>6, <1>7 DEF Sound, GoesOn
<1>. QED
  BY <1>1, <1>5, <1>8, OneTask

LEMMA EndOfDataKeeps == ASSUME DownloadInv, NEW f \in Files, EndOfData(f) PROVE DownloadInv'
<1>1. task[f].pc = "receiving" /\ size' = size /\ stored' = stored
  BY DEF EndOfData
<1>2. CASE /\ stored[f].length = size[f]
           /\ task' = [task EXCEPT ![f].pc = "verify"] /\ UNCHANGED fetching
  <2>. DEFINE t == [task[f] EXCEPT !.pc = "verify"]
  <2>1. Sound(t, stored[f], size[f], fetching') /\ GoesOn(fetching', t)
    BY <1>2, AllSound DEF Sound, GoesOn, TaskOf
  <2>2. task' = [task EXCEPT ![f] = t] /\ stored' = [stored EXCEPT ![f] = stored[f]]
    BY <1>1, <1>2 DEF DownloadInv, DownloadTypeOK
  <2>. HIDE DEF t
  <2>. QED
    BY <1>1, <2>1, <2>2, OneTask
<1>3. CASE Transient(f)
  BY <1>1, <1>3, TransientKeeps
<1>4. CASE Fails(f, "failed")
  BY <1>1, <1>4, FailsKeeps
<1>. QED
  BY <1>2, <1>3, <1>4 DEF EndOfData

\* The file of a task that begins once more is thrown away.
LEMMA BegunAnew ==
  ASSUME NEW t \in TaskOf, NEW b \in BOOLEAN
  PROVE  LET u == [t EXCEPT !.pc = "look", !.clean = b]
         IN  u \in TaskOf /\ u.pc = "look" /\ u.wrong = t.wrong
BY DEF TaskOf

LEMMA VerifyKeeps == ASSUME DownloadInv, NEW f \in Files, Verify(f) PROVE DownloadInv'
<1>1. task[f].pc = "verify" /\ size' = size
  BY DEF Verify
<1>2. /\ task[f] \in TaskOf /\ stored[f] \in StagedOf /\ fetching \in OpOf
      /\ Sound(task[f], stored[f], size[f], fetching) /\ GoesOn(fetching, task[f])
  BY AllSound DEF Sound, GoesOn
<1>3. CASE Complete(f) /\ task' = [task EXCEPT ![f].pc = "done"] /\ UNCHANGED <<stored, fetching>>
  <2>. DEFINE t == [task[f] EXCEPT !.pc = "done"]
  <2>1. t \in TaskOf /\ t.pc = "done" /\ t.clean = task[f].clean /\ t.wrong = task[f].wrong
    BY <1>2 DEF TaskOf
  <2>2. task' = [task EXCEPT ![f] = t] /\ stored' = [stored EXCEPT ![f] = stored[f]]
    BY <1>3 DEF DownloadInv, DownloadTypeOK
  <2>. HIDE DEF t
  <2>3. GoesOn(fetching', t)
    BY <1>2, <1>3, <2>1 DEF GoesOn
  <2>. QED
    BY <1>1, <1>2, <1>3, <2>1, <2>2, <2>3, Ended
<1>4. CASE ~Complete(f) /\ stored' = Cleared(f) /\ LastTime(f) /\ Fails(f, "mismatch")
  <2>1. stored[f].there \/ size[f] = 0
    BY <1>1, <1>2, SizesAreNat DEF Sound, DownloadInv, StagedOf
  <2>2. stored[f].there => task[f].wrong
    BY <1>1, <1>2, <1>4 DEF Sound, Complete, LastTime
  <2>. QED
    BY <1>1, <1>4, <2>1, <2>2, FailsKeeps DEF Cleared
<1>5. CASE /\ stored' = Cleared(f)
           /\ task' = [task EXCEPT ![f].pc = "look", ![f].clean = TRUE] /\ UNCHANGED fetching
  <2>. DEFINE t == [task[f] EXCEPT !.pc = "look", !.clean = TRUE]
  <2>1. t \in TaskOf /\ t.pc = "look" /\ t.wrong = task[f].wrong
    BY <1>2, BegunAnew, Zenon
  <2>2. task' = [task EXCEPT ![f] = t]
    BY <1>5, Zenon DEF DownloadInv, DownloadTypeOK
  <2>3. Nothing \in StagedOf /\ Nothing.right /\ Nothing.length = 0
    BY DEF Nothing, StagedOf
  <2>. HIDE DEF t
  <2>4. Sound(t, Nothing, size[f], fetching') /\ GoesOn(fetching', t)
    BY <1>2, <1>5, <2>1, <2>3 DEF Sound, GoesOn
  <2>. QED
    BY <1>1, <1>5, <2>2, <2>4, OneTask DEF Cleared
<1>6. CASE Fails(f, "failed") /\ UNCHANGED stored
  BY <1>1, <1>6, FailsKeeps
<1>. QED
  BY <1>3, <1>4, <1>5, <1>6, Zenon DEF Verify

LEMMA StopKeeps == ASSUME DownloadInv, NEW f \in Files, Stop(f) PROVE DownloadInv'
<1>. DEFINE t == [task[f] EXCEPT !.pc = "failed"]
<1>1. task[f].pc # "waiting" /\ size' = size /\ fetching' = fetching
  BY DEF Stop, Under
<1>2. t \in TaskOf /\ t.pc = "failed" /\ t.clean = task[f].clean /\ t.wrong = task[f].wrong
  BY AllSound DEF Sound, TaskOf
<1>3. task' = [task EXCEPT ![f] = t] /\ stored' = [stored EXCEPT ![f] = stored[f]]
  BY DEF Stop, DownloadInv, DownloadTypeOK
<1>4. stored[f] \in StagedOf
  BY AllSound DEF Sound
<1>. HIDE DEF t
<1>5. GoesOn(fetching', t)
  BY <1>1, <1>2, AllSound DEF GoesOn
<1>. QED
  BY <1>1, <1>2, <1>3, <1>4, <1>5, Ended

LEMMA TaskKeeps == ASSUME DownloadInv, NEW f \in Files, Task(f) PROVE DownloadInv'
BY LookKeeps, RetryKeeps, RespondKeeps, ReceiveKeeps, EndOfDataKeeps, VerifyKeeps, StopKeeps
   DEF Task

LEMMA InitInv == DownloadInit => DownloadInv
<1>. SUFFICES ASSUME DownloadInit PROVE DownloadInv
  OBVIOUS
<1>1. /\ Waiting \in TaskOf /\ ~Waiting.clean /\ ~Waiting.wrong
      /\ Waiting.pc \notin {"sent", "receiving", "verify", "mismatch"}
  BY DEF Waiting, TaskOf
<1>2. Nothing \in StagedOf /\ Nothing.length = 0
  BY DEF Nothing, StagedOf
<1>3. fetching \in OpOf /\ fetching.pc = "idle" /\ ~fetching.cancelled /\ fetching.result = "none"
  BY Operations DEF DownloadInit
<1>4. DownloadTypeOK
  BY <1>1, <1>2, <1>3 DEF DownloadInit, DownloadTypeOK, TaskOf, StagedOf, OpOf
<1>5. Bytes
  <2>1. \A f \in Files : task[f] = Waiting /\ stored[f] = Nothing
    BY DEF DownloadInit
  <2>2. Waiting.pc = "waiting" /\ Nothing.length = 0 /\ ~(0 > 0)
    BY DEF Waiting, Nothing
  <2>3. \A f \in Files : task[f].pc = "waiting" /\ ~(stored[f].length > 0)
    BY <2>1, <2>2, Zenon
  <2>. QED
    BY <2>3 DEF Bytes
<1>. QED
  BY <1>1, <1>3, <1>4, <1>5 DEF DownloadInit, DownloadInv, Asking, Underway, CleanIsOurs, Caused

LEMMA NextKeeps == DownloadInv /\ [DownloadNext]_downloadVars => DownloadInv'
<1>. SUFFICES ASSUME DownloadInv, [DownloadNext]_downloadVars PROVE DownloadInv'
  OBVIOUS
<1>1. CASE StartDownload
  BY <1>1, StartKeeps
<1>2. CASE Fetch
  BY <1>2, FetchVersionKeeps, FetchManifestKeeps, StopFetchingKeeps DEF Fetch
<1>3. CASE Finish
  BY <1>3, FinishKeeps
<1>4. CASE Cancel
  BY <1>4, CancelKeeps
<1>5. CASE DownloadCrashes
  BY <1>5, CrashKeeps
<1>6. CASE \E f \in Files : Begin(f) \/ Task(f)
  BY <1>6, BeginKeeps, TaskKeeps
<1>7. CASE UNCHANGED downloadVars
  BY <1>7 DEF downloadVars, DownloadInv, DownloadTypeOK, Asking, Underway, Bytes, CleanIsOurs, Caused
<1>. QED
  BY <1>1, <1>2, <1>3, <1>4, <1>5, <1>6, <1>7 DEF DownloadNext

\* The types, and what the strengthening adds: for any files, sizes and numbers of attempts.
THEOREM DownloadInvariant == DownloadSpec => []DownloadInv
<1>. QED
  BY InitInv, NextKeeps, PTL DEF DownloadSpec

\* A download that fails has a cause in this very operation (prepareReplacement,
\* streamingDownload): what is left of an earlier one never makes it fail.
THEOREM FailureHasCauseAlways == DownloadSpec => []FailureHasCause
<1>1. DownloadInv => FailureHasCause
  BY DEF DownloadInv, Caused, FailureHasCause
<1>. QED
  BY <1>1, DownloadInvariant, PTL

(***************************************************************************)
(* The refinement of CourierUpdate's Download.                             *)
(***************************************************************************)
Todo == {f \in Files : task[f].pc # "done"}

Hidden == {"sent", "receiving", "backoff"}

\* A step that is one of f's, as far as the pieces and the progress of the others go.
OnlyOf(f) ==
  /\ UNCHANGED size
  /\ \A g \in Files \ {f} : task'[g].pc = task[g].pc /\ stored'[g] = stored[g]

\* A file that does not count as new may become anything.
LEMMA ChangesTheFile ==
  ASSUME NEW f \in Files, OnlyOf(f), task[f].pc # "done", task'[f].pc # "done",
         task[f].pc \in Hidden \/ ~Complete(f)
  PROVE  fetching.pc = "files" => Whole!Download
<1>1. View[f] # "new"
  BY DEF View, Hidden
<1>2. View'[f] \in {"none", "partial", "new"}
  BY DEF View
<1>3. View' = [View EXCEPT ![f] = View'[f]]
  <2>1. ASSUME NEW g \in Files \ {f} PROVE View'[g] = View[g]
    BY DEF View, OnlyOf, Complete
  <2>2. View = [g \in Files |-> View[g]] /\ View' = [g \in Files |-> View'[g]]
    BY DEF View
  <2>. HIDE DEF View
  <2>. QED
    BY <2>1, <2>2
<1>4. Todo' = Todo /\ f \in Todo
  BY DEF Todo, OnlyOf
<1>. QED
  BY <1>1, <1>2, <1>3, <1>4 DEF Todo, Whole!Download, Whole!Verified, Whole!StagedContents

LEMMA ChangesNothing ==
  ASSUME NEW f \in Files, OnlyOf(f), stored'[f] = stored[f],
         task[f].pc \notin Hidden, task'[f].pc \notin Hidden,
         task[f].pc # "done", task'[f].pc # "done"
  PROVE  UNCHANGED <<View, Todo>>
BY DEF View, Todo, OnlyOf, Complete, Hidden

LEMMA OneLess ==
  ASSUME NEW todo, NEW f
  PROVE  [pc |-> "download", todo |-> todo \ {f}]
         = [[pc |-> "download", todo |-> todo] EXCEPT !.todo = @ \ {f}]
OBVIOUS

LEMMA IsVerified ==
  ASSUME NEW f \in Files, OnlyOf(f), stored'[f] = stored[f], Complete(f),
         task[f].pc = "verify", task'[f].pc = "done"
  PROVE  fetching.pc = "files" => Whole!Download
<1>1. View[f] = "new"
  BY DEF View, Complete
<1>2. View' = View
  BY DEF View, OnlyOf, Complete
<1>3. Todo' = Todo \ {f} /\ f \in Todo
  BY DEF Todo, OnlyOf
<1>4. [pc |-> "download", todo |-> Todo']
      = [[pc |-> "download", todo |-> Todo] EXCEPT !.todo = @ \ {f}]
  BY <1>3, OneLess, Zenon
<1>5. [pc |-> "download", todo |-> Todo].pc = "download"
      /\ f \in [pc |-> "download", todo |-> Todo].todo
  BY <1>3
<1>. QED
  BY <1>1, <1>2, <1>4, <1>5, Zenon DEF Todo, Whole!Download, Whole!Verified

LEMMA TaskIsWhole ==
  ASSUME DownloadTypeOK, NEW f \in Files, Begin(f) \/ Task(f)
  PROVE  fetching.pc = "files" => Whole!Download \/ UNCHANGED <<View, Todo>>
<1>1. OnlyOf(f)
  <2>1. CASE Begin(f)
    BY <2>1 DEF Begin, OnlyOf, DownloadTypeOK
  <2>2. CASE Look(f) \/ Retry(f)
    BY <2>2 DEF Look, Retry, Send, OnlyOf, DownloadTypeOK
  <2>3. CASE Respond(f)
    BY <2>3 DEF Respond, Resumed, FromTheStart, Rejected, Refused, Transient, Fails, OnlyOf, DownloadTypeOK
  <2>4. CASE Receive(f) \/ EndOfData(f)
    BY <2>4 DEF Receive, EndOfData, Transient, Fails, OnlyOf, DownloadTypeOK
  <2>5. CASE Verify(f) \/ Stop(f)
    BY <2>5 DEF Verify, Stop, Cleared, Fails, OnlyOf, DownloadTypeOK
  <2>. QED
    BY <2>1, <2>2, <2>3, <2>4, <2>5 DEF Task
<1>2. CASE Begin(f)
  BY <1>1, <1>2, ChangesNothing DEF Begin, Hidden, DownloadTypeOK
<1>3. CASE Look(f)
  <2>1. CASE Enough(f) /\ task' = [task EXCEPT ![f].pc = "verify"] /\ UNCHANGED stored
    BY <1>1, <1>3, <2>1, ChangesNothing DEF Look, Hidden, DownloadTypeOK
  <2>2. CASE ~Enough(f) /\ Send(f, 1)
    BY <1>1, <1>3, <2>2, ChangesTheFile DEF Look, Send, Enough, Complete, DownloadTypeOK
  <2>. QED
    BY <1>3, <2>1, <2>2 DEF Look
<1>4. CASE Retry(f)
  BY <1>1, <1>4, ChangesTheFile DEF Retry, Send, Hidden, DownloadTypeOK
<1>5. CASE Respond(f)
  <2>1. task[f].pc = "sent" /\ task'[f].pc # "done"
    BY <1>5 DEF Respond, Resumed, FromTheStart, Rejected, Refused, Transient, Fails, DownloadTypeOK
  <2>. QED
    BY <1>1, <2>1, ChangesTheFile DEF Hidden
<1>6. CASE Receive(f) \/ EndOfData(f)
  <2>1. task[f].pc = "receiving" /\ task'[f].pc # "done"
    BY <1>6 DEF Receive, EndOfData, Transient, Fails, DownloadTypeOK
  <2>. QED
    BY <1>1, <2>1, ChangesTheFile DEF Hidden
<1>7. CASE Verify(f)
  <2>1. CASE Complete(f) /\ task' = [task EXCEPT ![f].pc = "done"] /\ UNCHANGED stored
    BY <1>1, <1>7, <2>1, IsVerified DEF Verify, DownloadTypeOK
  <2>2. CASE ~Complete(f) /\ task'[f].pc # "done"
    BY <1>1, <1>7, <2>2, ChangesTheFile DEF Verify
  <2>3. CASE Fails(f, "failed") /\ UNCHANGED stored
    BY <1>1, <1>7, <2>3, ChangesNothing DEF Verify, Fails, Hidden, DownloadTypeOK
  <2>4. \/ Complete(f) /\ task' = [task EXCEPT ![f].pc = "done"] /\ UNCHANGED stored
        \/ ~Complete(f) /\ task'[f].pc # "done"
        \/ Fails(f, "failed") /\ UNCHANGED stored
    BY <1>7 DEF Verify, Fails, DownloadTypeOK
  <2>. QED
    BY <2>1, <2>2, <2>3, <2>4
<1>8. CASE Stop(f)
  <2>1. task[f].pc # "done" /\ task'[f].pc = "failed" /\ stored' = stored
    BY <1>8 DEF Stop, Under, DownloadTypeOK
  <2>. QED
    BY <1>1, <2>1, ChangesTheFile, ChangesNothing DEF Hidden
<1>. QED
  BY <1>2, <1>3, <1>4, <1>5, <1>6, <1>7, <1>8 DEF Task

\* Every step of the operation while its files are downloaded.
LEMMA StepIsWhole ==
  ASSUME DownloadTypeOK, [DownloadNext]_downloadVars, fetching.pc = "files", fetching'.pc = "files"
  PROVE  Whole!Download \/ UNCHANGED <<View, {f \in Files : task[f].pc # "done"}>>
<1>1. CASE StartDownload \/ Fetch
  BY <1>1 DEF StartDownload, Fetch, FetchVersion, FetchManifest, StopFetching
<1>2. CASE Finish \/ DownloadCrashes
  BY <1>2 DEF Finish, DownloadCrashes, OpIdle
<1>3. CASE Cancel \/ UNCHANGED downloadVars
  BY <1>3 DEF Cancel, downloadVars, View, Complete
<1>4. CASE \E f \in Files : Begin(f) \/ Task(f)
  BY <1>4, TaskIsWhole DEF Todo
<1>. QED
  BY <1>1, <1>2, <1>3, <1>4 DEF DownloadNext

\* The requests, retries and clean downloads of all the files implement the one action that
\* CourierUpdate has for them.
THEOREM DownloadImplementsWhole == DownloadSpec => DownloadIsWhole
<1>1. DownloadInv => DownloadTypeOK
  BY DEF DownloadInv
<1>2. DownloadTypeOK /\ [DownloadNext]_downloadVars =>
        [fetching.pc = "files" /\ fetching'.pc = "files" =>
           Whole!Download \/ UNCHANGED <<View, {f \in Files : task[f].pc # "done"}>>]_downloadVars
  BY StepIsWhole
<1>. QED
  BY <1>1, <1>2, DownloadInvariant, PTL DEF DownloadSpec, DownloadIsWhole

=============================================================================
