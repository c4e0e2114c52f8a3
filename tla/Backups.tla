------------------------------ MODULE Backups ------------------------------
(***************************************************************************)
(* The nightly backup: BackupService's dump, its two renames, the copy to  *)
(* an external drive, the rotation of both directories, and the state that *)
(* backupVerdict reads to say whether all is well.  Any step may fail and  *)
(* the server may stop between any two.                                    *)
(*                                                                         *)
(* A file is named for the night it was begun (backupFileName), so a       *)
(* directory is a set of nights.  Two units of time make a day: the backup *)
(* runs in the even ones.                                                  *)
(***************************************************************************)
EXTENDS Integers, FiniteSets

CONSTANTS
  MaxTime,      \* bound
  KeepMin,      \* BACKUP_KEEP_MIN
  KeepFor,      \* BACKUP_KEEP_DAYS
  StaleAfter,   \* BACKUP_STALE_HOURS
  MaxFailures   \* bound: how much may go wrong

ASSUME BackupsAssumption ==
  /\ {MaxTime, KeepFor, StaleAfter, MaxFailures} \subseteq Nat /\ KeepMin \in Nat \ {0}

VARIABLES
  time,
  main, sidecars,    \* dumps and digests under their final names
  parts, partShas,   \* the same under .part
  copies,            \* the drive: no file, a torn one, a whole one
  drive,             \* is it attached?
  due,               \* tonight's run has not begun
  job,               \* execute(): where it stands
  state,             \* BackupStateStore's row
  failures,
  made, copied       \* the dumps ever finished, the copies ever begun (history)

fileVars   == <<main, sidecars, parts, partShas, copies>>
backupVars == <<time, fileVars, drive, due, job, state, failures, made, copied>>

Nights  == {t \in 0..MaxTime : t % 2 = 0}
NoTime  == -1
Resting == [at |-> "rest"]
NoState == [tried |-> NoTime, outcome |-> "none", success |-> NoTime, copy |-> "none"]

Goes(step)  == job' = [job EXCEPT !.at = step]
Fault      == failures < MaxFailures /\ failures' = failures + 1
Quietly(ok) == IF ok THEN UNCHANGED failures ELSE Fault

(***************************************************************************)
(* execute().                                                              *)
(***************************************************************************)
StartBackup ==
  /\ job = Resting /\ due /\ due' = FALSE
  /\ job' = [at |-> "dump", night |-> time, error |-> FALSE, copy |-> "none"]
  /\ UNCHANGED <<time, fileVars, drive, state, failures, made, copied>>

\* dumpEncrypted fails or the dump is too small: the part file goes, or stays if
\* even that fails, and the run goes on with its error.
DumpFails ==
  /\ job.at = "dump" /\ Fault
  /\ job' = [at |-> "rotate", night |-> job.night, error |-> TRUE, copy |-> job.copy]
  /\ parts' \in {parts, parts \cup {job.night}}
  /\ UNCHANGED <<time, main, sidecars, partShas, copies, drive, due, state, made, copied>>

Dump ==
  /\ job.at = "dump"
  /\ parts' = parts \cup {job.night} /\ partShas' = partShas \cup {job.night}
  /\ Goes("rename sha")
  /\ UNCHANGED <<time, main, sidecars, copies, drive, due, state, failures, made, copied>>

RenameSha ==
  /\ job.at = "rename sha"
  /\ partShas' = partShas \ {job.night} /\ sidecars' = sidecars \cup {job.night}
  /\ Goes("rename file")
  /\ UNCHANGED <<time, main, parts, copies, drive, due, state, failures, made, copied>>

RenameFile ==
  /\ job.at = "rename file"
  /\ parts' = parts \ {job.night} /\ main' = main \cup {job.night}
  /\ made' = made \cup {job.night}
  /\ Goes("copy")
  /\ UNCHANGED <<time, sidecars, partShas, copies, drive, due, state, failures, copied>>

\* A rename that fails: quietUnlink of both part files.
RenameFails ==
  /\ job.at \in {"rename sha", "rename file"} /\ Fault
  /\ parts' = parts \ {job.night} /\ partShas' = partShas \ {job.night}
  /\ job' = [at |-> "rotate", night |-> job.night, error |-> TRUE, copy |-> job.copy]
  /\ UNCHANGED <<time, main, sidecars, copies, drive, due, state, made, copied>>

\* copyOut, up to the end of copyFile: the file on the drive may be torn,
\* whether copyFile noticed or not.
Copy ==
  /\ job.at = "copy"
  /\ IF drive
     THEN \E quality \in {"torn", "whole"} :
            /\ Quietly(quality = "whole")
            /\ copies' = [copies EXCEPT ![job.night] = quality]
            /\ copied' = copied \cup {job.night}
            /\ Goes("verify")
     ELSE /\ job' = [at |-> "rotate", night |-> job.night, error |-> job.error, copy |-> "failed"]
          /\ UNCHANGED <<copies, failures, copied>>
  /\ UNCHANGED <<time, main, sidecars, parts, partShas, drive, due, state, made>>

\* Mutant: what copyFile returned is good enough.
Trusted  == TRUE

\* The copy is read back and its digest compared; without the drive it cannot be.
Verified == drive /\ copies[job.night] = "whole"

\* Copying the digest or reading either may fail too.
Verify ==
  /\ job.at = "verify"
  /\ \E read \in BOOLEAN :
       /\ Quietly(read)
       /\ job' = [at |-> "rotate", night |-> job.night, error |-> job.error,
                   copy |-> IF read /\ Verified THEN "ok" ELSE "failed"]
  /\ UNCHANGED <<time, fileVars, drive, due, state, made, copied>>

(***************************************************************************)
(* rotate().                                                               *)
(***************************************************************************)
Newer(t, files)  == {u \in files : u > t}

\* Mutant: by age alone.
DoomedByAge(files) == {t \in files : t < time - KeepFor}

\* backupsToDelete: neither the newest KeepMin nor anything younger than KeepFor.
Doomed(files) == {t \in files : Cardinality(Newer(t, files)) >= KeepMin /\ t < time - KeepFor}

\* stalePartFiles and orphanSidecars: half a day old; neither file nor part left.
StaleParts      == {t \in parts : t < time}
OrphanSidecars(kept, p) == {t \in sidecars : t \notin kept \cup p}

\* A file that cannot be deleted stays; its digest goes all the same.
RotateMain ==
  /\ job.at = "rotate"
  /\ \E gone \in SUBSET Doomed(main) :
       LET kept == main \ gone
           left == parts \ StaleParts
       IN  /\ Quietly(gone = Doomed(main))
           /\ main' = kept /\ parts' = left /\ partShas' = partShas \ StaleParts
           /\ sidecars' = (sidecars \ Doomed(main)) \ OrphanSidecars(kept, left)
  /\ Goes("rotate copy")
  /\ UNCHANGED <<time, copies, drive, due, state, made, copied>>

OnDrive == {t \in Nights : copies[t] # "none"}

RotateCopy ==
  /\ job.at = "rotate copy"
  /\ \E gone \in SUBSET Doomed(OnDrive) :
       /\ IF drive THEN Quietly(gone = Doomed(OnDrive)) ELSE gone = {} /\ UNCHANGED failures
       /\ copies' = [t \in Nights |-> IF t \in gone THEN "none" ELSE copies[t]]
  /\ Goes("record")
  /\ UNCHANGED <<time, main, sidecars, parts, partShas, drive, due, state, made, copied>>

(***************************************************************************)
(* BackupStateStore.record.  A row that cannot be read counts as empty, one *)
(* that cannot be written stays as it was.                                 *)
(***************************************************************************)
Outcome(prev) ==
  [tried   |-> job.night,
   outcome |-> IF job.error THEN "failed" ELSE "ok",
   success |-> IF job.error THEN prev.success ELSE job.night,
   copy    |-> IF job.error THEN prev.copy ELSE job.copy]

Record ==
  /\ job.at = "record"
  /\ \/ state' = Outcome(state) /\ UNCHANGED failures
     \/ state' = Outcome(NoState) /\ Fault
     \/ UNCHANGED state /\ Fault
  /\ job' = Resting
  /\ UNCHANGED <<time, fileVars, drive, due, made, copied>>

(***************************************************************************)
(* The server, the drive and time.                                         *)
(***************************************************************************)
\* The server stops in the middle; what it was writing stays as it is.
Dies ==
  /\ job # Resting /\ Fault
  /\ job' = Resting
  /\ parts' = IF job.at = "dump" THEN parts \cup {job.night} ELSE parts
  /\ \/ /\ job.at = "copy" /\ drive
        /\ copies' = [copies EXCEPT ![job.night] = "torn"] /\ copied' = copied \cup {job.night}
     \/ UNCHANGED <<copies, copied>>
  /\ UNCHANGED <<time, main, sidecars, partShas, drive, due, state, made>>

Plug == /\ Fault /\ drive' = ~drive
        /\ UNCHANGED <<time, fileVars, due, job, state, made, copied>>

\* A night may pass without a backup: nobody runs a job that was missed.
TimePasses == /\ job = Resting /\ time < MaxTime
              /\ time' = time + 1 /\ due' = (time + 1 \in Nights)
              /\ UNCHANGED <<fileVars, drive, job, state, failures, made, copied>>

(***************************************************************************)
(* Specification.                                                          *)
(***************************************************************************)
BackupsInit ==
  /\ time = 0 /\ main = {} /\ sidecars = {} /\ parts = {} /\ partShas = {}
  /\ copies = [t \in Nights |-> "none"] /\ drive = TRUE
  /\ job = Resting /\ due = TRUE /\ state = NoState /\ failures = 0 /\ made = {} /\ copied = {}

BackupsNext ==
  \/ StartBackup \/ Dump \/ DumpFails \/ RenameSha \/ RenameFile \/ RenameFails
  \/ Copy \/ Verify \/ RotateMain \/ RotateCopy \/ Record
  \/ Dies \/ Plug \/ TimePasses

BackupsSpec == BackupsInit /\ [][BackupsNext]_backupVars

(***************************************************************************)
(* Properties.                                                             *)
(***************************************************************************)
\* The shapes; and no dump is there for a moment without its digest
\* (backup.service.ts:230-236), but one that rotation failed to delete.
BackupsTypeOK ==
  /\ time \in 0..MaxTime /\ main \subseteq Nights
  /\ \A t \in main : t \in sidecars \/ t < time - KeepFor
  /\ {sidecars, parts, partShas, made, copied} \subseteq SUBSET Nights
  /\ copies \in [Nights -> {"none", "torn", "whole"}] /\ {drive, due} \subseteq BOOLEAN
  /\ job.at \in {"rest", "dump", "rename sha", "rename file", "copy", "verify",
                 "rotate", "rotate copy", "record"}
  /\ state \in [tried : Nights \cup {NoTime}, outcome : {"none", "ok", "failed"},
                success : Nights \cup {NoTime}, copy : {"none", "ok", "failed"}]
  /\ failures \in 0..MaxFailures

\* However many nights fail, the newest KeepMin dumps ever made are never rotated
\* away (ops.rules.ts:118-129); on the drive torn copies count as copies.
Kept(ever, files) == \A t \in ever \ files : Cardinality(Newer(t, ever)) >= KeepMin
BackupsKept == Kept(made, main) /\ Kept(copied, OnDrive)

\* backupVerdict(248-311): when a recorded success lets it say nothing, a dump of the last
\* day can be restored from the server's disk and from the drive - whatever row
\* record() could not read or write, whatever copy was torn, whatever night was missed.
\* (Before the first attempt, and for a row it cannot read, it says nothing too.)
Fresh(t)  == t # NoTime /\ time - t < StaleAfter
AllIsWell == state.outcome = "ok" /\ Fresh(state.success) /\ state.copy # "failed"
Restorable(t) == t \in main /\ copies[t] = "whole"
SilenceIsGood == AllIsWell => \E t \in Nights : Fresh(t) /\ Restorable(t)

\* What the owner relies on: rotation leaves enough, and silence means a good dump.
BackupsGood == BackupsKept /\ SilenceIsGood
=============================================================================
