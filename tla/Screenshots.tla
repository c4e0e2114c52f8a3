---------------------------- MODULE Screenshots ----------------------------
(***************************************************************************)
(* A screenshot's way: the file on the PC and its row in the outbox        *)
(* (AgentHost.CaptureSlotAsync), the sweep of files without a row, the     *)
(* upload and its retries, the server's row, file and thumbnail            *)
(* (ScreenshotIngestService), and the retention job that removes them      *)
(* after ninety days.  A picture and the row that describes it are never   *)
(* written in one step, at either end.                                     *)
(*                                                                         *)
(* The server names a file by person, second and monitor, and corrects the *)
(* second by the drift of each request: a shot may be given one of several *)
(* paths, and two PCs of one person may be given the same.                 *)
(***************************************************************************)
EXTENDS Integers, FiniteSets

CONSTANTS
  Shot, Path,
  Families,   \* which shots share a slot of one PC, and which paths each may get:
              \* [slot : [Shot -> Shot], paths : [Shot -> SUBSET Path]]
  Request,    \* bound: the requests under way at a time
  NoShot,
  MaxMishaps  \* bound: how much may go wrong

ASSUME ShotsAssumption == NoShot \notin Shot /\ MaxMishaps \in Nat
ASSUME FamilyAssumption == Families \subseteq [slot : [Shot -> Shot], paths : [Shot -> SUBSET Path]]

VARIABLES
  family,
  shot,       \* none, file, stray, queued, sending, done, dropped
  mine, stale, \* the PC's files, and those older than the sweep's grace
  sweep,      \* the sweep and the files it will delete
  request,
  row,        \* the table screenshots
  disk,       \* path -> what was written there
  thumbs,
  aged,       \* have the ninety days passed?
  purge,      \* the retention job
  mishaps,
  slept, hurt, unrecorded  \* history: files that grew old before they had a row, paths
                           \* with a broken-off write, thumbnails no row was told of

pcShotVars == <<shot, mine, stale, sweep, slept>>
storeVars  == <<row, disk, thumbs, hurt, unrecorded>>
shotVars   == <<family, pcShotVars, request, storeVars, aged, purge, mishaps>>

NoRow     == [path |-> "none"]
NoFile    == [pic |-> NoShot, whole |-> FALSE]
NoRequest == [at |-> "free"]
Asleep    == [at |-> "idle"]
Stored    == {s \in Shot : row[s] # NoRow}
Mishandled == mishaps < MaxMishaps /\ mishaps' = mishaps + 1
Sometimes(fine) == IF fine THEN UNCHANGED mishaps ELSE Mishandled

(***************************************************************************)
(* The PC.                                                                 *)
(***************************************************************************)
\* The file, and its thumbnail, before the row.
Capture(s) ==
  /\ ~aged /\ shot[s] = "none"
  /\ shot' = [shot EXCEPT ![s] = "file"] /\ mine' = mine \cup {s}
  /\ UNCHANGED <<family, stale, sweep, slept, request, storeVars, aged, purge, mishaps>>

EnqueueShot(s) ==
  /\ shot[s] = "file"
  /\ shot' = [shot EXCEPT ![s] = "queued"]
  /\ UNCHANGED <<family, mine, stale, sweep, slept, request, storeVars, aged, purge, mishaps>>

\* More than the sweep's grace passes, perhaps in sleep.
HourPasses ==
  /\ stale # mine /\ stale' = mine
  /\ slept' = slept \cup {s \in Shot : shot[s] = "file"}
  /\ UNCHANGED <<family, shot, mine, sweep, request, storeVars, aged, purge, mishaps>>

InTable == {s \in Shot : shot[s] \in {"queued", "sending"}}

\* SweepOrphanFilesAsync takes the time, reads the rows, and then goes through the
\* folder: the files that were old when it began.  A sweep that finds no such file
\* is left out.
SweepReads ==
  /\ sweep = Asleep /\ stale \ InTable # {}
  /\ sweep' = [at |-> "delete", doomed |-> stale \ InTable]
  /\ UNCHANGED <<family, shot, mine, stale, slept, request, storeVars, aged, purge, mishaps>>

SweepDeletes ==
  /\ sweep # Asleep
  /\ mine' = mine \ sweep.doomed /\ stale' = stale \cap mine'
  /\ sweep' = Asleep
  /\ UNCHANGED <<family, shot, slept, request, storeVars, aged, purge, mishaps>>

\* Sends a queued shot, or drops it when its file is gone.  A request gets its
\* path when the server corrects the time.
SendShot(s, r) ==
  /\ shot[s] = "queued"
  /\ IF s \in mine
     THEN /\ request[r] = NoRequest
          /\ \E p \in family.paths[s] :
               request' = [request EXCEPT ![r] = [at |-> "insert", of |-> s, path |-> p, heard |-> TRUE]]
          /\ shot' = [shot EXCEPT ![s] = "sending"]
     ELSE shot' = [shot EXCEPT ![s] = "dropped"] /\ UNCHANGED request
  /\ UNCHANGED <<family, mine, stale, sweep, slept, storeVars, aged, purge, mishaps>>

\* The answer: the row and the file go (a locked file stays for the sweep), or
\* the shot waits for the next try.
ShotAnswered(r) ==
  /\ request[r].at \in {"ok", "failed"}
  /\ LET s == request[r].of
     IN  IF ~request[r].heard THEN UNCHANGED <<shot, mine, stale, mishaps>>
         ELSE IF request[r].at = "failed"
         THEN shot' = [shot EXCEPT ![s] = "queued"] /\ UNCHANGED <<mine, stale, mishaps>>
         ELSE /\ shot' = [shot EXCEPT ![s] = "done"]
              /\ \E left \in BOOLEAN : /\ Sometimes(~left)
                                       /\ mine' = IF left THEN mine ELSE mine \ {s}
              /\ stale' = stale \cap mine'
  /\ request' = [request EXCEPT ![r] = NoRequest]
  /\ UNCHANGED <<family, sweep, slept, storeVars, aged, purge>>

\* The agent waits no longer, while the server works on.
WaitsNoMore(r) ==
  /\ request[r] # NoRequest /\ request[r].heard /\ Mishandled
  /\ request' = [request EXCEPT ![r].heard = FALSE]
  /\ shot' = [shot EXCEPT ![request[r].of] = "queued"]
  /\ UNCHANGED <<family, mine, stale, sweep, slept, storeVars, aged, purge>>

\* The agent ends: what is under way is given up, a file without a row stays.
AgentDies ==
  /\ Mishandled
  /\ shot' = [s \in Shot |-> CASE shot[s] = "file"    -> "stray"
                               [] shot[s] = "sending" -> "queued"
                               [] OTHER               -> shot[s]]
  /\ request' = [r \in Request |-> IF request[r] = NoRequest THEN NoRequest
                                   ELSE [request[r] EXCEPT !.heard = FALSE]]
  /\ sweep' = Asleep
  /\ UNCHANGED <<family, mine, stale, slept, storeVars, aged, purge>>

(***************************************************************************)
(* The server: ScreenshotIngestService.                                    *)
(***************************************************************************)
Becomes(r, step) == request' = [request EXCEPT ![r].at = step]
Serving          == UNCHANGED <<family, pcShotVars, aged, purge>>

\* client_uuid, or device, slot and monitor.
Existing(s) == {t \in Stored : t = s \/ family.slot[t] = family.slot[s]}

\* The row first, and without its thumbnail.
InsertRow(r) ==
  /\ request[r].at = "insert"
  /\ LET s == request[r].of
     IN  IF Existing(s) # {} THEN Becomes(r, "find") /\ UNCHANGED row
         ELSE /\ row' = [row EXCEPT ![s] = [path |-> request[r].path, thumb |-> FALSE, marked |-> FALSE]]
              /\ Becomes(r, "write")
  /\ Serving /\ UNCHANGED <<disk, thumbs, hurt, unrecorded, mishaps>>

\* Mutant: a row is there, so the file is (what G81 was about).
RowSuffices(t) == TRUE

\* access().
OnDisk(t) == disk[row[t].path] # NoFile

\* resolveDuplicate: a duplicate if the existing row's file is there, or else the
\* file is written for that row, under that row's path.
FindRow(r) ==
  /\ request[r].at = "find"
  /\ \E t \in Existing(request[r].of) :
       IF OnDisk(t) THEN Becomes(r, "ok")
       ELSE request' = [request EXCEPT ![r] = [at |-> "write", of |-> @.of, path |-> row[t].path,
                                               heard |-> @.heard]]
  /\ Serving /\ UNCHANGED <<storeVars, mishaps>>

\* writeFile truncates, then writes; it may fail before or in the middle.
WriteBegins(r) ==
  /\ request[r].at = "write"
  /\ disk' = [disk EXCEPT ![request[r].path] = [pic |-> request[r].of, whole |-> FALSE]]
  /\ Becomes(r, "writing")
  /\ Serving /\ UNCHANGED <<row, thumbs, hurt, unrecorded, mishaps>>

WriteFails(r) ==
  /\ request[r].at \in {"insert", "write", "writing"} /\ Mishandled
  /\ hurt' = IF request[r].at = "writing" THEN hurt \cup {request[r].path} ELSE hurt
  /\ Becomes(r, "failed")
  /\ Serving /\ UNCHANGED <<row, disk, thumbs, unrecorded>>

WriteEnds(r) ==
  /\ request[r].at = "writing"
  /\ disk' = [disk EXCEPT ![request[r].path] = [pic |-> request[r].of, whole |-> TRUE]]
  /\ Becomes(r, "thumb")
  /\ Serving /\ UNCHANGED <<row, thumbs, hurt, unrecorded, mishaps>>

\* storeThumb: its file, then the row; it answers "accepted" whatever fails.
ThumbWritten(r) ==
  /\ request[r].at = "thumb"
  /\ \/ thumbs' = thumbs \cup {request[r].path} /\ Becomes(r, "record") /\ UNCHANGED mishaps
     \/ Becomes(r, "ok") /\ UNCHANGED <<thumbs, mishaps>>   \* no thumbnail came, or not a good one
  /\ Serving /\ UNCHANGED <<row, disk, hurt, unrecorded>>

ThumbRecorded(r) ==
  /\ request[r].at = "record"
  /\ LET told == Existing(request[r].of)
     IN  \/ /\ row' = [s \in Shot |-> IF s \in told THEN [row[s] EXCEPT !.thumb = TRUE] ELSE row[s]]
            /\ UNCHANGED <<unrecorded, mishaps>>
         \/ Mishandled /\ unrecorded' = unrecorded \cup {request[r].path} /\ UNCHANGED row
  /\ Becomes(r, "ok")
  /\ Serving /\ UNCHANGED <<disk, thumbs, hurt>>

PathsAt(step) == {request[r].path : r \in {q \in Request : request[q] # NoRequest /\ request[q].at = step}}

\* The server ends, with every request and the retention job.
ServerDies ==
  /\ Mishandled
  /\ hurt' = hurt \cup PathsAt("writing") /\ unrecorded' = unrecorded \cup PathsAt("record")
  /\ shot' = [s \in Shot |-> IF shot[s] = "sending" THEN "queued" ELSE shot[s]]
  /\ request' = [r \in Request |-> NoRequest]
  /\ purge' = Asleep
  /\ UNCHANGED <<family, mine, stale, sweep, slept, row, disk, thumbs, aged>>

(***************************************************************************)
(* The retention job.  The outbox keeps a shot for a week at most, so      *)
(* nothing of it is under way any more when it is due.                     *)
(***************************************************************************)
NinetyDays ==
  /\ ~aged /\ \A s \in Shot : shot[s] \notin {"file", "queued", "sending"}
  /\ \A r \in Request : request[r] = NoRequest
  /\ aged' = TRUE
  /\ UNCHANGED <<family, pcShotVars, request, storeVars, purge, mishaps>>

Retaining == UNCHANGED <<family, pcShotVars, request, hurt, unrecorded, aged>>

\* Out of the gallery first: every reader leaves marked rows out.
PurgeMarks ==
  /\ aged /\ purge = Asleep /\ Stored # {}
  /\ row' = [s \in Shot |-> IF s \in Stored THEN [row[s] EXCEPT !.marked = TRUE] ELSE NoRow]
  /\ purge' = [at |-> "files", todo |-> Stored, gone |-> {}]
  /\ Retaining /\ UNCHANGED <<disk, thumbs, mishaps>>

\* The file and then the thumbnail the row names; a missing one is as good as
\* deleted, one that cannot be deleted keeps its row.
PurgeFiles(s) ==
  /\ purge.at = "files" /\ s \in purge.todo
  /\ \E file, thumb \in BOOLEAN :
       /\ thumb => file
       /\ Sometimes(file /\ thumb)
       /\ disk' = IF file THEN [disk EXCEPT ![row[s].path] = NoFile] ELSE disk
       /\ thumbs' = IF thumb /\ row[s].thumb THEN thumbs \ {row[s].path} ELSE thumbs
       /\ purge' = [at |-> "files", todo |-> purge.todo \ {s},
                     gone |-> IF file /\ thumb THEN purge.gone \cup {s} ELSE purge.gone]
  /\ Retaining /\ UNCHANGED row

\* Mutant: the rows of the batch, whatever became of their files.
WholeBatch == Stored

\* Only the rows whose files are gone.
Deletable == purge.gone

PurgeRows ==
  /\ purge.at = "files" /\ purge.todo = {}
  /\ row' = [s \in Shot |-> IF s \in Deletable THEN NoRow ELSE row[s]]
  /\ purge' = Asleep
  /\ Retaining /\ UNCHANGED <<disk, thumbs, mishaps>>

(***************************************************************************)
(* Specification.                                                          *)
(***************************************************************************)
ShotsInit ==
  /\ family \in Families
  /\ shot = [s \in Shot |-> "none"] /\ mine = {} /\ stale = {} /\ sweep = Asleep
  /\ request = [r \in Request |-> NoRequest]
  /\ row = [s \in Shot |-> NoRow] /\ disk = [p \in Path |-> NoFile] /\ thumbs = {}
  /\ aged = FALSE /\ purge = Asleep /\ mishaps = 0
  /\ slept = {} /\ hurt = {} /\ unrecorded = {}

OnPc(s)    == Capture(s) \/ EnqueueShot(s) \/ \E r \in Request : SendShot(s, r)
Served(r)  == \/ InsertRow(r) \/ FindRow(r) \/ WriteBegins(r) \/ WriteFails(r) \/ WriteEnds(r)
              \/ ThumbWritten(r) \/ ThumbRecorded(r)
Retention  == NinetyDays \/ PurgeMarks \/ PurgeRows \/ \E s \in Shot : PurgeFiles(s)

ShotsNext ==
  \/ \E s \in Shot : OnPc(s)
  \/ \E r \in Request : Served(r) \/ ShotAnswered(r) \/ WaitsNoMore(r)
  \/ HourPasses \/ SweepReads \/ SweepDeletes \/ AgentDies \/ ServerDies
  \/ Retention

ShotsSpec == ShotsInit /\ [][ShotsNext]_shotVars

(***************************************************************************)
(* Properties.                                                             *)
(***************************************************************************)
ShotsTypeOK ==
  /\ shot \in [Shot -> {"none", "file", "stray", "queued", "sending", "done", "dropped"}]
  /\ stale \subseteq mine /\ mine \subseteq Shot /\ slept \subseteq Shot
  /\ row \in [Shot -> {NoRow} \cup [path : Path, thumb : BOOLEAN, marked : BOOLEAN]]
  /\ disk \in [Path -> [pic : Shot \cup {NoShot}, whole : BOOLEAN]]
  /\ {thumbs, hurt, unrecorded} \subseteq SUBSET Path
  /\ aged \in BOOLEAN /\ mishaps \in 0..MaxMishaps

Whole(s)    == LET file == disk[row[s].path] IN file.whole /\ family.slot[file.pic] = family.slot[s]
Shared(s)   == \E t \in Shot \ {s} : /\ family.slot[t] # family.slot[s] /\ row[s] # NoRow
                                     /\ row[s].path \in family.paths[t]
Excused(s)  == row[s].path \in hurt \cup PathsAt("writing") \/ Shared(s)
Retired(s)  == aged /\ (row[s] = NoRow \/ row[s].marked)

\* What the agent deletes, because the server said so, the server has: a row for the
\* slot and the whole picture under its path, until a retired row has left the
\* gallery (screenshot-ingest.service.ts:230-250, retention.job.ts:37-61).  But for a
\* write that broke off, whose torn file the retry takes for the picture, one still
\* going on, and two PCs of one person in one second.  And the agent drops no shot
\* unsent but one that had no row for an hour.
ShotKept ==
  \A s \in Shot :
    /\ shot[s] = "done" => \/ Retired(s)
                           \/ \E t \in Existing(s) : Whole(t) \/ Excused(t)
    /\ shot[s] = "dropped" => s \in slept

\* No file without a row, however often the job or the server breaks off
\* (retention.job.ts:58-61), but a thumbnail whose row was never told of it.
NoStrays ==
  /\ \A p \in Path : disk[p] # NoFile => \E s \in Stored : row[s].path = p
  /\ \A p \in thumbs : p \in unrecorded \/ \E s \in Stored : row[s].path = p

\* No shot is lost on its way, no file is left behind.
ShotsSound == ShotKept /\ NoStrays
=============================================================================
