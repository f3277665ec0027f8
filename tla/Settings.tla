------------------------------ MODULE Settings ------------------------------
(***************************************************************************)
(* The settings and the session of the launcher (config::Config) with the  *)
(* files they live in: config.json, its backup, the marker that allows the *)
(* launcher to restore config.json, the .env fallback and the credential   *)
(* store of the platform.  The file may be edited, damaged or deleted by   *)
(* others, a write may fail, and the launcher may die between two writes.  *)
(*                                                                         *)
(* An operation is a function from a world (the files, the launcher and    *)
(* the history) to the set of worlds it may end in; Then puts two of them  *)
(* one after the other.                                                    *)
(***************************************************************************)
EXTENDS Integers

CONSTANTS
  Accounts,     \* the Discord accounts of the user
  MaxFaults     \* how many faults and outside changes a behaviour may have

ASSUME FaultsAssumption == MaxFaults \in Nat
ASSUME AccountsAssumption == "none" \notin Accounts

VARIABLES
  disk,   \* what survives the launcher
  app,    \* the running launcher
  past    \* history: what the user did, and which faults left what behind

vars == <<disk, app, past>>

None == "none"   \* no account

(* A file without a document: it does not exist, or it is empty or damaged. *)
Gone == [choice |-> "gone", keep |-> FALSE]
Bad  == [choice |-> "bad", keep |-> FALSE]

(* "fresh": the setup is not finished; "plain" and "audio": it is, and the *)
(* compatibility profile is one that normalize_schema knows or the one     *)
(* (audio-isolation) that only the setter knows.                           *)
Choices   == {"fresh", "plain", "audio"}
Documents == [choice : Choices, keep : BOOLEAN]

(* apply_defaults() on an empty document. *)
Defaults == [choice |-> "fresh", keep |-> FALSE]

Normal(d) == [d EXCEPT !.choice = IF @ = "audio" THEN "plain" ELSE @]

Disks == [primary : Documents \cup {Gone, Bad}, backup : Documents \cup {Gone},
          marker : BOOLEAN, env : Accounts \cup {None}, store : Accounts \cup {None}]

Apps  == [up : BOOLEAN, values : Documents, account : Accounts \cup {None},
          seen : Documents \cup {Gone, Bad}, failed : BOOLEAN, unreadable : 0 .. 2,
          available : BOOLEAN, watched : BOOLEAN, event : BOOLEAN, timer : BOOLEAN]

Pasts == [last : Accounts \cup {None}, stale : BOOLEAN, absorbed : BOOLEAN,
          durable : Documents \cup {Gone}, recent : SUBSET Documents, faults : 0 .. MaxFaults]

TypeOK == disk \in Disks /\ app \in Apps /\ past \in Pasts

-----------------------------------------------------------------------------
World == [disk |-> disk, app |-> app, past |-> past]

Become(S) == \E x \in S : disk' = x.disk /\ app' = x.app /\ past' = x.past

CanFault(x) == x.past.faults < MaxFaults

Faulty(x) == [x EXCEPT !.past.faults = @ + 1]

(* Credentials that a restart could find although they are not the user's. *)
Leftover(x) == {x.disk.env, x.disk.store} \ {None, x.past.last} # {}

(* Nothing of a launcher that has ended is left. *)
Dead(x) ==
  [x EXCEPT !.app = [@ EXCEPT !.up = FALSE, !.values = Defaults, !.account = None, !.seen = Gone,
                              !.failed = FALSE, !.unreadable = 0, !.available = TRUE,
                              !.watched = FALSE, !.event = FALSE, !.timer = FALSE]]

(* It dies in the midst of an operation: what the operation has not        *)
(* reached is left behind.                                                 *)
Torn(x) == [Dead(Faulty(x)) EXCEPT !.past.stale = Leftover(x)]

(* The launcher may die between the two operations. *)
Then(S, Op(_)) ==
  UNION {IF x.app.up
         THEN Op(x) \cup (IF CanFault(x) THEN {Torn(x)} ELSE {})
         ELSE {x} : x \in S}

DirectoryExists(x) == x.disk.primary # Gone \/ x.disk.backup # Gone \/ x.disk.env # None

(* The directory is watched for as long as it exists. *)
Watching(x) == [x EXCEPT !.app.watched = @ \/ DirectoryExists(x)]

(* An edit by others that has not been read yet is taken for known. *)
Remembered(x) ==
  [x EXCEPT !.app.seen = x.disk.primary,
            !.past.absorbed = @ \/ x.disk.primary # x.app.seen]

-----------------------------------------------------------------------------
(* Writing config.json and its backup. *)

WritePrimary(x) ==
  [x EXCEPT !.disk.primary = x.app.values, !.app.failed = FALSE, !.past.absorbed = FALSE,
            !.past.recent = @ \cup {x.app.values}]

WriteBackup(x) ==
  [x EXCEPT !.disk.backup = x.app.values,
            !.past.durable = x.app.values, !.past.recent = {}]

(* QSaveFile replaces the file as a whole or not at all; a backup that     *)
(* cannot be written is no error.  The launcher may die between the two.   *)
Save(x) ==
  LET After(z) == [z EXCEPT !.app.seen = z.disk.primary, !.app.watched = TRUE, !.app.event = TRUE]
      w == WritePrimary(x)
  IN  {After(WriteBackup(w))}
      \cup IF CanFault(x)
           THEN {After(Faulty(w)), Dead(Faulty(w)),
                 Watching(Remembered(Faulty([x EXCEPT !.app.failed = TRUE])))}
           ELSE {}

-----------------------------------------------------------------------------
(* The credentials. *)

(* secret-tool and the keychain may be absent, be locked or time out. *)
StoreAnswers(x) == IF x.app.available THEN {TRUE} \cup {b \in {FALSE} : CanFault(x)} ELSE {FALSE}

(* One failing answer of a store that exists is a fault. *)
Answered(x, ok) == IF ok \/ ~x.app.available THEN x ELSE Faulty(x)

RemoveEnv(x) ==
  {[x EXCEPT !.disk.env = None]}
  \cup IF x.disk.env # None /\ CanFault(x) THEN {Faulty(x)} ELSE {}

(* A store that is not available counts as cleared. *)
ClearStore(x) ==
  {IF ok THEN [x EXCEPT !.disk.store = None] ELSE Answered(x, FALSE) : ok \in StoreAnswers(x)}

(* past.stale: an operation that failed has left an account behind. *)
Settled(before, x) ==
  [x EXCEPT !.past.stale = IF x.past.faults > before.past.faults \/ ~x.app.available
                           THEN Leftover(x) ELSE FALSE]

(* (mutant of ClearSavedCredentials: the file is left where the store is used) *)
ClearStoreOnly(x) ==
  LET Finish(z) == {Settled(x, Watching(Remembered(z)))}
  IN  IF x.app.available THEN Then(ClearStore(x), Finish) ELSE Then(RemoveEnv(x), Finish)

ClearSavedCredentials(x) ==
  LET Finish(z) == {Settled(x, Watching(Remembered(z)))}
  IN  Then(Then(ClearStore(x), RemoveEnv), Finish)

StoreLogin(x) == [x EXCEPT !.disk.store = x.app.account]

SaveToStore(x) ==
  LET Finish(z) == {Settled(x, Watching(Remembered(z)))}
  IN  Then(Then({StoreLogin(x)}, RemoveEnv), Finish)

(* The .env file replaces a store that cannot be used.  A file that cannot *)
(* be made private is removed again.                                       *)
SaveEnvFallback(x) ==
  LET written == [x EXCEPT !.disk.env = x.app.account]
      removed == [Faulty(x) EXCEPT !.disk.env = None]
      Late(z)  == [z EXCEPT !.past.stale = Leftover(z)]
  IN  {Late(Watching(Remembered(written)))}
      \cup IF CanFault(x) THEN {Late(Watching(Faulty(x))), Late(Watching(Remembered(removed)))}
           ELSE {}

SaveCredentials(x) ==
  IF x.app.account = None THEN ClearSavedCredentials(x)
  ELSE UNION {IF ok THEN SaveToStore(x) ELSE SaveEnvFallback(Answered(x, FALSE))
              : ok \in StoreAnswers(x)}

LoadStore(x, ok)   == IF ok THEN x.disk.store ELSE None
LoadEnvFallback(x) == x.disk.env

(* The store first, then the file. *)
LoadCredentials(x) ==
  {LET found == LoadStore(x, ok)
   IN  [Answered(x, ok) EXCEPT !.app.account = IF found # None THEN found ELSE LoadEnvFallback(x)]
   : ok \in StoreAnswers(x)}

(* Who is found under an excuse is from then on the user the launcher      *)
(* shows.                                                                  *)
Adopt(x) ==
  [x EXCEPT !.past.last = IF x.past.stale /\ x.app.account # None THEN x.app.account ELSE @,
            !.past.stale = @ /\ Leftover([x EXCEPT !.past.last = x.app.account])]
-----------------------------------------------------------------------------
(* Setters and the session. *)

(* The setters of the runtime: the value is brought into its normal form,  *)
(* and nothing happens when it is the one that is there.                   *)
SetChoice(c) ==
  /\ app.up /\ c \notin {"fresh", app.values.choice}
  /\ Become(Save([World EXCEPT !.app.values.choice = c]))

SetKeepSignedIn(b) ==
  /\ app.up /\ app.values.keep # b
  /\ LET Credentials(x) == IF ~b THEN ClearSavedCredentials(x)
                           ELSE IF x.app.account # None THEN SaveCredentials(x) ELSE {x}
     IN  Become(Then(Save([World EXCEPT !.app.values.keep = b]), Credentials))

SetAuth(a) ==
  /\ app.up
  /\ LET x == [World EXCEPT !.app.account = a, !.past.last = a]
     IN  Become(IF app.values.keep THEN SaveCredentials(x) ELSE ClearSavedCredentials(x))

ClearAuth ==
  /\ app.up /\ app.account # None
  /\ Become(ClearSavedCredentials([World EXCEPT !.app.account = None, !.past.last = None]))

MarkSetupComplete ==
  /\ app.up /\ app.values.choice # "fresh"
  /\ disk.primary # Gone /\ ~disk.marker
  /\ disk' = [disk EXCEPT !.marker = TRUE]
  /\ UNCHANGED <<app, past>>

-----------------------------------------------------------------------------
(* Noticing what others do to config.json. *)

(* The session after config.json has been read again: `was` is the world   *)
(* before.                                                                 *)
SessionReloaded(was, x) ==
  LET Restored(z) == {Adopt(IF z.app.account = None /\ was.app.account # None
                            THEN [z EXCEPT !.app.account = was.app.account] ELSE z)}
      Forgotten(z) == IF was.app.values.keep \/ z.disk.env # None
                      THEN ClearSavedCredentials(z) ELSE {z}
  IN  IF ~x.app.values.keep THEN Forgotten(x)
      ELSE IF ~was.app.values.keep /\ was.app.account # None THEN SaveCredentials(x)
      ELSE UNION {Restored(z) : z \in LoadCredentials(x)}

(* (mutant of Merge: the stored credentials are taken as they are found) *)
MergeBlindly(was, x, recovered) ==
  LET Write(z) == IF recovered \/ z.app.values # was.app.values THEN Save(z)
                  ELSE {Watching(Remembered(z))}
  IN  Then(IF x.app.values.keep THEN LoadCredentials(x) ELSE {x}, Write)

(* apply_defaults() and normalize_schema(), then the session, then a save  *)
(* if anything of it is new.                                               *)
Merge(was, x, recovered) ==
  LET Write(z) == IF recovered \/ z.app.values # was.app.values THEN Save(z)
                  ELSE {Watching(Remembered(z))}
  IN  Then(SessionReloaded(was, [x EXCEPT !.app.unreadable = 0]), Write)

Ignored(x) == {Remembered([x EXCEPT !.app.unreadable = 0])}

(* (mutant of ReloadUnreadable: the retry is left to the next notification) *)
ReloadOnce(x) ==
  IF x.app.unreadable < 2
  THEN {Watching([x EXCEPT !.app.unreadable = @ + 1])}
  ELSE IF ~x.disk.marker THEN Ignored(x)
  ELSE Merge(x, [x EXCEPT !.app.values = Normal(@)], TRUE)

(* An unreadable file is tried three times before it is replaced. *)
ReloadUnreadable(x) ==
  IF x.app.unreadable < 2
  THEN {Watching([x EXCEPT !.app.unreadable = @ + 1, !.app.timer = TRUE])}
  ELSE IF ~x.disk.marker THEN Ignored(x)
  ELSE Merge(x, [x EXCEPT !.app.values = Normal(@)], TRUE)

ReloadMissing(x) ==
  IF ~x.disk.marker THEN Ignored(x)
  ELSE Merge(x, [x EXCEPT !.app.values = Normal(@)], TRUE)

ReloadFromDisk(x, force) ==
  IF ~force /\ x.app.seen = x.disk.primary THEN {x}
  ELSE CASE x.disk.primary = Gone -> ReloadMissing(x)
         [] x.disk.primary = Bad  -> ReloadUnreadable(x)
         [] OTHER -> Merge(x, [x EXCEPT !.app.values = Normal(x.disk.primary)], FALSE)

(* QFileSystemWatcher reports a change; the reload waits for the writer to *)
(* come to rest.                                                           *)
ScheduleReload ==
  /\ app.up /\ app.event
  /\ app' = [app EXCEPT !.event = FALSE, !.timer = TRUE]
  /\ UNCHANGED <<disk, past>>

ReloadTimer ==
  /\ app.up /\ app.timer
  /\ Become(ReloadFromDisk(Watching([World EXCEPT !.app.timer = FALSE]), FALSE))

(* The integrity timer looks for the file itself, not for notifications. *)
IntegrityTimer ==
  /\ app.up /\ disk.primary = Gone /\ disk.marker
  /\ Become(ReloadFromDisk(Watching(World), TRUE))

-----------------------------------------------------------------------------
(* Starting, resetting and ending. *)

(* (mutant of Loaded: a damaged file is not looked for in the backup) *)
LoadedWithoutBackup(x) ==
  IF x.disk.primary \in Documents THEN x.disk.primary
  ELSE IF x.disk.primary = Gone /\ x.disk.marker /\ x.disk.backup # Gone THEN x.disk.backup
  ELSE Defaults

Loaded(x) ==
  IF x.disk.primary \in Documents THEN x.disk.primary
  ELSE IF x.disk.marker /\ x.disk.backup # Gone THEN x.disk.backup
  ELSE Defaults

(* The constructor of Config. *)
Start ==
  /\ ~app.up
  /\ \E available \in {TRUE} \cup {b \in {FALSE} : CanFault(World)} :
       LET x == [World EXCEPT !.app.up = TRUE, !.app.values = Normal(Loaded(World)),
                              !.app.available = available,
                              !.past.faults = IF available THEN @ ELSE @ + 1]
           Adopted(z) == {Adopt(z)}
           Session == IF x.app.values.keep THEN UNION {Adopted(z) : z \in LoadCredentials(x)}
                      ELSE ClearSavedCredentials(x)
           Write(z) == IF disk.primary \in Documents \/ disk.marker THEN Save(z) ELSE {z}
           Watch(z) == {[Watching(z) EXCEPT !.app.seen = z.disk.primary]}
       IN  Become(Then(Then(Session, Write), Watch))

(* reset_launcher_config(): nothing is done when the marker or config.json *)
(* cannot be removed; what cannot be removed later is reported, and stays. *)
ResetRefused ==
  /\ app.up /\ CanFault(World) /\ disk.primary # Gone
  /\ \E rewritten \in {TRUE} \cup {b \in {FALSE} : CanFault(Faulty(World)) /\ disk.marker} :
       LET x == Faulty(World)
       IN  Become({Watching([(IF rewritten THEN x ELSE Faulty(x)) EXCEPT
                     !.disk.marker = @ /\ rewritten,
                     !.past.absorbed = @ \/ disk.primary # app.seen,
                     !.app.timer = FALSE, !.app.event = FALSE, !.app.unreadable = 0])})

(* The launcher dies between the removal of the marker and of config.json. *)
ResetCutOff ==
  /\ app.up /\ disk.marker /\ CanFault(World)
  /\ Become({Dead(Faulty([World EXCEPT !.disk.marker = FALSE]))})

Reset ==
  /\ app.up
  /\ LET x == [World EXCEPT !.disk.marker = FALSE, !.disk.primary = Gone,
                            !.app = [@ EXCEPT !.account = None, !.timer = FALSE, !.event = FALSE,
                                              !.watched = FALSE, !.unreadable = 0],
                            !.past = [@ EXCEPT !.last = None, !.durable = Gone, !.absorbed = FALSE,
                                               !.recent = {disk.backup} \ {Gone}]]
         RemoveData(z) == {[z EXCEPT !.disk.backup = Gone, !.past.recent = {}]}
           \cup IF z.disk.backup # Gone /\ CanFault(z) THEN {Faulty(z)} ELSE {}
         Finish(z) == {[Settled(x, z) EXCEPT !.app.values = Defaults, !.app.seen = Gone,
                                             !.app.failed = FALSE]}
     IN  Become(Then(Then(Then(ClearStore(x), RemoveEnv), RemoveData), Finish))

(* The launcher ends, or dies: Config writes nothing when it ends. *)
Quit ==
  /\ app.up
  /\ Become({Dead(World)})

-----------------------------------------------------------------------------
(* Other programs: an editor, a damaged file system, a cleaning tool. *)

Outside(x) ==
  /\ CanFault(World)
  /\ x.disk # disk
  /\ Become({[Faulty(x) EXCEPT !.app.event = @ \/ (app.up /\ app.watched)]})

EditConfig == \E c \in Choices, b \in BOOLEAN :
  /\ disk.primary \in Documents
  /\ LET d == [choice |-> c, keep |-> b]
     IN  Outside([World EXCEPT !.disk.primary = d, !.past.recent = @ \cup {d}])

DamageConfig == disk.primary \in Documents /\ Outside([World EXCEPT !.disk.primary = Bad])

DeleteConfig == Outside([World EXCEPT !.disk.primary = Gone])

(* The whole directory: the backup goes with it, and the watch. *)
DeleteDirectory ==
  /\ DirectoryExists(World)
  /\ Outside([World EXCEPT !.disk = [@ EXCEPT !.primary = Gone, !.backup = Gone, !.env = None],
                           !.app.watched = FALSE, !.past.durable = Gone, !.past.recent = {}])

-----------------------------------------------------------------------------
Init ==
  /\ disk = [primary |-> Gone, backup |-> Gone, marker |-> FALSE, env |-> None, store |-> None]
  /\ app = [up |-> FALSE, values |-> Defaults, account |-> None, seen |-> Gone, failed |-> FALSE,
            unreadable |-> 0, available |-> TRUE, watched |-> FALSE, event |-> FALSE, timer |-> FALSE]
  /\ past = [last |-> None, stale |-> FALSE, absorbed |-> FALSE, durable |-> Gone, recent |-> {},
             faults |-> 0]

Next ==
  \/ \E c \in Choices : SetChoice(c)
  \/ \E b \in BOOLEAN : SetKeepSignedIn(b)
  \/ \E a \in Accounts : SetAuth(a)
  \/ ClearAuth
  \/ MarkSetupComplete
  \/ ScheduleReload
  \/ ReloadTimer
  \/ IntegrityTimer
  \/ Start
  \/ ResetRefused
  \/ ResetCutOff
  \/ Reset
  \/ Quit
  \/ EditConfig
  \/ DamageConfig
  \/ DeleteConfig
  \/ DeleteDirectory

(* Timers that run expire, and the event loop delivers what is posted. *)
Spec == Init /\ [][Next]_vars
             /\ WF_vars(ScheduleReload) /\ WF_vars(ReloadTimer) /\ WF_vars(IntegrityTimer)

-----------------------------------------------------------------------------
(* Whoever is signed in is the user who signed in last, and nobody after a *)
(* sign-out or a reset: neither a restart nor a reload, a backup that is   *)
(* restored or a store that fails to answer brings an earlier account      *)
(* back.  Where a write of the credentials has failed, whoever is found    *)
(* counts as signed in from then on.                                       *)
AccountIsLast == TypeOK /\ app.account \in {None, past.last}

(* Nothing but a sign-out, a reset and the end of the launcher ends a      *)
(* session: a reload that finds no credentials keeps the one it has.       *)
SessionKept ==
  [][app.up /\ app'.up /\ past'.last = past.last => app'.account # None \/ app.account = None]_vars

(* A start finds the settings that were last saved, or newer ones: a       *)
(* damaged or deleted file costs nothing once the setup is complete.       *)
StartFindsSettings ==
  [][~app.up /\ app'.up =>
       app'.values \in {Normal(d) : d \in past.recent \cup {IF past.durable = Gone THEN Defaults
                                                            ELSE past.durable}}
                       \cup {d \in {Defaults} : ~disk.marker}]_vars

Agreed == disk.primary \in Documents /\ Normal(disk.primary) = Normal(app.values)

(* What keeps the settings and the file apart: a setup that is not         *)
(* complete, a directory that is not watched, a write that failed, and an  *)
(* edit that a write of the credentials has taken for known.               *)
Excused ==
  \/ disk.primary \notin Documents /\ ~disk.marker
  \/ disk.primary # Gone /\ (app.failed \/ past.absorbed \/ ~app.watched)

(* The settings and the file come to agree again, whatever others did to   *)
(* the file: an edit is taken over, a damaged or deleted file restored.    *)
FilesAgree == app.up /\ ~Agreed ~> ~app.up \/ Agreed \/ Excused
=============================================================================
