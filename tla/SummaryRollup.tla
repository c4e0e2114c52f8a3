--------------------------- MODULE SummaryRollup ---------------------------
(***************************************************************************)
(* The server's daily and monthly summaries: the ingest of late segments,  *)
(* the marks it leaves (summary_dirty), the two scheduled jobs and the     *)
(* time adjustments that recount a day (SummaryService.refreshDate), and   *)
(* the closing of a month. Every query of theirs is a step of its own,     *)
(* since nothing but the database orders them; a transaction of writes is  *)
(* one step, and so are the queries of one Promise.all.                    *)
(*                                                                         *)
(* One employee is followed. A row stands for what it was counted from:    *)
(* how many segments and how many adjustments in force there were.         *)
(***************************************************************************)
EXTENDS Integers, Sequences, SequencesExt

CONSTANTS
  MaxDay,       \* bound: the last day
  MonthLength,  \* days in a month
  PerTick,      \* DIRTY_PER_TICK
  Skews,        \* by how many days the drift-corrected clock may misjudge the date
  Kinds,        \* which of these happen: "upload", "adjust", "closing", "failure"
  MaxEvents     \* bound: how often in all

ASSUME CalendarAssumption == MaxDay \in Nat \ {0} /\ MonthLength \in Nat \ {0}
ASSUME RollupAssumption   == PerTick \in Nat \ {0} /\ Skews \subseteq -1 .. 1
ASSUME EventAssumption    == MaxEvents \in Nat

Day        == 1 .. MaxDay
MonthOf(d) == (d + MonthLength - 1) \div MonthLength
Month      == {MonthOf(d) : d \in Day}
Job        == {"K06", "K05", "admin"}
NoDay      == 0
Holes      == {"raced", "overtaken", "skewed", "missed", "failed", "shut"}

VARIABLES
  today,
  segs, adj,   \* activity_segments and time_adjustments in force, per day
  daily,       \* daily_summary
  monthly,     \* monthly_summary: the daily rows it is the sum of
  marks,       \* summary_dirty, in the order of marked_at
  closed,      \* month_closures
  upload,      \* the ingest transaction in flight
  run,         \* each job: where it is and what it has read
  closeDue,    \* it is after midnight and K05 has not run yet
  holes,       \* history: the days something went wrong for, and what
  events

inputVars == <<today, segs, adj, upload>>
rollupVars == <<inputVars, daily, monthly, marks, closed, run, closeDue, holes, events>>

-----------------------------------------------------------------------------

Nothing   == [segs |-> 0, adj |-> 0]
Input(d)  == [segs |-> segs[d], adj |-> adj[d]]
SummaryRow == [segs : Nat, adj : Nat]
\* Mutant: the row just written is not part of the month yet.
RowsBefore(m) == [d \in {e \in Day : MonthOf(e) = m} |-> IF d = today THEN Nothing ELSE daily[d]]
Rows(m)   == [d \in {e \in Day : MonthOf(e) = m} |-> daily[d]]
Marked    == Range(marks)
Hole(d, why, if) == IF if THEN holes \cup {<<d, why>>} ELSE holes

IdleJob == [pc |-> "idle", day |-> NoDay, seen |-> Nothing,
         open |-> FALSE, rows |-> <<>>, list |-> <<>>, drain |-> FALSE]
NoUpload == [day |-> NoDay, skewed |-> FALSE, late |-> FALSE, mark |-> FALSE]

At(j, pc)    == run[j].pc = pc
Busy(j)      == ~At(j, "idle")
Draining(d)  == run["K06"].drain /\ run["K06"].day = d

\* Something happens that the jobs do not do of themselves.
Event(kind) == kind \in Kinds /\ events < MaxEvents /\ events' = events + 1

-----------------------------------------------------------------------------
\* The agents upload segments; ingestSegments is one transaction, which decides
\* on the mark before it commits.

\* Mutant: only the days before yesterday are taken to be late.
LateAfterTwoDays(d, date) == d < date - 1
IsLate(d, date)           == d < date

\* Mutant: a second mark for a day that has one (skipDuplicates forgotten).
MarksAgain(d, late) == late
NeedsMark(d, late)  == late /\ d \notin Marked

BeginUpload ==
  /\ upload = NoUpload
  /\ Event("upload")
  /\ \E d \in 1 .. today, skew \in Skews :
       LET late == IsLate(d, today + skew) IN
       upload' = [day |-> d, skewed |-> skew # 0, late |-> late, mark |-> NeedsMark(d, late)]
  /\ UNCHANGED <<today, segs, adj, daily, monthly, marks, closed, run, closeDue, holes>>

\* The segment may turn out to be a duplicate; the day is marked all the same.
CommitUpload ==
  LET d == upload.day
      raced == upload.late /\ ~upload.mark
                 /\ (d \notin Marked \/ (Draining(d) /\ ~At("K06", "read")))
      skewed == d < today /\ upload.skewed /\ ~upload.late /\ ~(closeDue /\ d = today - 1)
  IN
  /\ upload # NoUpload
  /\ upload' = NoUpload
  /\ \E fresh \in {0, 1} : segs' = [segs EXCEPT ![d] = @ + fresh]
  /\ marks' = IF upload.mark THEN Append(marks, d) ELSE marks
  /\ holes' = holes \cup {<<d, why>> : why \in {w \in {"raced"} : raced}
                                            \cup {w \in {"skewed"} : skewed}}
  /\ UNCHANGED <<today, adj, daily, monthly, closed, run, closeDue, events>>

-----------------------------------------------------------------------------
\* SummaryService.refreshDate, whoever calls it; j is the job it runs in.

Start(j, d) == [IdleJob EXCEPT !.pc = "read", !.day = d]

Read(j) ==
  LET d == run[j].day
      overlaps == \E i \in Job \ {j} : At(i, "write") /\ run[i].day = d
  IN
  /\ At(j, "read")
  /\ run' = [run EXCEPT ![j].pc = "write", ![j].seen = Input(d)]
  /\ holes' = Hole(d, "overtaken", overlaps)
  /\ UNCHANGED <<inputVars, daily, monthly, marks, closed, closeDue, events>>

\* Where a recount ends: K06 goes on to the marks, or removes the one it has done.
Finished(j) ==
  IF j # "K06" THEN IdleJob
  ELSE [run[j] EXCEPT !.pc = IF run[j].drain THEN "unmark" ELSE "list"]

\* refreshMonth looks for a closure first; the mutant does not.
GateForgotten(open) == TRUE
PassesGate(open)    == open

\* The write of the daily rows and refreshMonth's look at the closures. (One step:
\* closing a month does not touch the rows, so it may as well come before both.)
WriteDay(j) ==
  LET open == MonthOf(run[j].day) \notin closed IN
  /\ At(j, "write")
  /\ daily' = [daily EXCEPT ![run[j].day] = run[j].seen]
  /\ run' = [run EXCEPT ![j] =
       IF PassesGate(open) THEN [@ EXCEPT !.pc = "sum", !.seen = Nothing, !.open = open]
       ELSE [Finished(j) EXCEPT !.seen = Nothing]]
  /\ UNCHANGED <<inputVars, monthly, marks, closed, closeDue, holes, events>>

SumMonth(j) ==
  /\ At(j, "sum")
  /\ run' = [run EXCEPT ![j].pc = "put", ![j].rows = Rows(MonthOf(run[j].day))]
  /\ UNCHANGED <<inputVars, daily, monthly, marks, closed, closeDue, holes, events>>

WriteMonth(j) ==
  /\ At(j, "put")
  /\ monthly' = [monthly EXCEPT ![MonthOf(run[j].day)] = run[j].rows]
  /\ run' = [run EXCEPT ![j] = [Finished(j) EXCEPT !.open = FALSE, !.rows = <<>>]]
  /\ UNCHANGED <<inputVars, daily, marks, closed, closeDue, holes, events>>

-----------------------------------------------------------------------------
\* K06, every fifteen minutes: today, then the marked days.

StartTick ==
  /\ At("K06", "idle")
  /\ run' = [run EXCEPT !["K06"] = Start("K06", today)]
  /\ UNCHANGED <<inputVars, daily, monthly, marks, closed, closeDue, holes, events>>

ListMarks ==
  /\ At("K06", "list")
  /\ run' = [run EXCEPT !["K06"] =
       [IdleJob EXCEPT !.pc = "mark", !.drain = TRUE,
                    !.list = SubSeq(marks, 1, IF Len(marks) < PerTick THEN Len(marks)
                                              ELSE PerTick)]]
  /\ UNCHANGED <<inputVars, daily, monthly, marks, closed, closeDue, holes, events>>

\* A day of a closed month is not recounted, but its mark goes all the same (in
\* the mutant it stays).
KeepsClosed(d) == IF MonthOf(d) \in closed THEN "mark" ELSE "read"
MarkStep(d)    == IF MonthOf(d) \in closed THEN "unmark" ELSE "read"

NextMark ==
  LET list == run["K06"].list IN
  /\ At("K06", "mark")
  /\ run' = [run EXCEPT !["K06"] =
       IF list = <<>> THEN IdleJob
       ELSE [@ EXCEPT !.day = Head(list), !.pc = MarkStep(Head(list))]]
  /\ holes' = IF list = <<>> THEN holes
              ELSE Hole(Head(list), "shut", MonthOf(Head(list)) \in closed)
  /\ UNCHANGED <<inputVars, daily, monthly, marks, closed, closeDue, events>>

Unmark ==
  /\ At("K06", "unmark")
  /\ marks' = RemoveFirst(marks, run["K06"].day)
  /\ run' = [run EXCEPT !["K06"] =
       [IdleJob EXCEPT !.pc = "mark", !.drain = TRUE, !.list = Tail(run["K06"].list)]]
  /\ UNCHANGED <<inputVars, daily, monthly, closed, closeDue, holes, events>>

-----------------------------------------------------------------------------
\* K05, at 00:15: yesterday once more. No transaction and no tick of the day
\* before is still going on by then. (The sessions it closes are left out.)

DayTurns ==
  /\ today < MaxDay /\ ~closeDue
  /\ today' = today + 1
  /\ closeDue' = TRUE
  /\ UNCHANGED <<segs, adj, upload, daily, monthly, marks, closed, run, holes, events>>

StartDayClose ==
  /\ closeDue /\ At("K05", "idle")
  /\ upload.day \in {NoDay, today} \/ upload.late
  /\ run["K06"].day = today - 1 => run["K06"].drain
  /\ closeDue' = FALSE
  /\ run' = [run EXCEPT !["K05"] = Start("K05", today - 1)]
  /\ UNCHANGED <<inputVars, daily, monthly, marks, closed, holes, events>>

\* The server is down at 00:15.
MissDayClose ==
  /\ closeDue /\ Event("failure")
  /\ closeDue' = FALSE
  /\ holes' = Hole(today - 1, "missed", TRUE)
  /\ UNCHANGED <<inputVars, daily, monthly, marks, closed, run>>

-----------------------------------------------------------------------------
\* The office: time adjustments, and closing and reopening a month.

\* create and revoke both look for a closure before they write.
StartAdjust ==
  /\ At("admin", "idle")
  /\ Event("adjust")
  /\ \E d \in 1 .. today :
       /\ MonthOf(d) \notin closed
       /\ run' = [run EXCEPT !["admin"] = [IdleJob EXCEPT !.pc = "adjust", !.day = d]]
  /\ UNCHANGED <<inputVars, daily, monthly, marks, closed, closeDue, holes>>

Adjust ==
  /\ At("admin", "adjust")
  /\ \E by \in {1, -1} : adj[run["admin"].day] + by >= 0
       /\ adj' = [adj EXCEPT ![run["admin"].day] = @ + by]
  /\ run' = [run EXCEPT !["admin"] = Start("admin", run["admin"].day)]
  /\ UNCHANGED <<today, segs, upload, daily, monthly, marks, closed, closeDue, holes, events>>

CloseMonth ==
  /\ Event("closing")
  /\ \E m \in Month \ closed : m < MonthOf(today) /\ closed' = closed \cup {m}
  /\ UNCHANGED <<inputVars, daily, monthly, marks, run, closeDue, holes>>

ReopenMonth ==
  /\ \E m \in closed : closed' = closed \ {m}
  /\ UNCHANGED <<inputVars, daily, monthly, marks, run, closeDue, holes, events>>

\* A job throws, wherever it is. K06 leaves its mark; K05 and an adjustment
\* leave nothing (the adjustment's failure is only logged).
Fail(j) ==
  /\ Busy(j) /\ Event("failure")
  /\ run' = [run EXCEPT ![j] = IdleJob]
  /\ holes' = CASE j = "K06"   -> holes
                [] j = "K05"   -> Hole(run[j].day, "missed", TRUE)
                [] j = "admin" -> Hole(run[j].day, "failed", ~At(j, "adjust"))
  /\ UNCHANGED <<inputVars, daily, monthly, marks, closed, closeDue>>

-----------------------------------------------------------------------------

RollupInit ==
  /\ today = 1
  /\ segs = [d \in Day |-> 0] /\ adj = [d \in Day |-> 0]
  /\ daily = [d \in Day |-> Nothing]
  /\ monthly = [m \in Month |-> [d \in {e \in Day : MonthOf(e) = m} |-> Nothing]]
  /\ marks = <<>> /\ closed = {}
  /\ upload = NoUpload
  /\ run = [j \in Job |-> IdleJob]
  /\ closeDue = FALSE /\ holes = {}
  /\ events = 0

Recount(j) == Read(j) \/ WriteDay(j) \/ SumMonth(j) \/ WriteMonth(j)

SummaryTick == StartTick \/ ListMarks \/ NextMark \/ Unmark \/ Recount("K06")
DayClose == StartDayClose \/ Recount("K05")

RollupNext ==
  \/ BeginUpload \/ CommitUpload
  \/ SummaryTick \/ DayTurns \/ DayClose \/ MissDayClose
  \/ StartAdjust \/ Adjust \/ Recount("admin")
  \/ CloseMonth \/ ReopenMonth
  \/ \E j \in Job : Fail(j)

RollupSpec == RollupInit /\ [][RollupNext]_rollupVars

\* The jobs keep being scheduled and a query comes to an end.
RollupFairness ==
  WF_rollupVars(SummaryTick) /\ WF_rollupVars(DayClose) /\ WF_rollupVars(CommitUpload) /\ WF_rollupVars(Adjust)
  /\ WF_rollupVars(Recount("admin"))

LiveRollupSpec == RollupSpec /\ RollupFairness

-----------------------------------------------------------------------------

RollupTypeOK ==
  /\ today \in Day
  /\ segs \in [Day -> Nat] /\ adj \in [Day -> Nat]
  /\ daily \in [Day -> SummaryRow]
  /\ \A m \in Month : monthly[m] \in [{d \in Day : MonthOf(d) = m} -> SummaryRow]
  /\ Marked \subseteq 1 .. today /\ IsInjective(marks)
  /\ closed \subseteq {m \in Month : m < MonthOf(today)}
  /\ upload \in [day : {NoDay} \cup 1 .. today, skewed : BOOLEAN, late : BOOLEAN, mark : BOOLEAN]
  /\ \A j \in Job :
       /\ run[j].day \in {NoDay} \cup 1 .. today /\ run[j].seen \in SummaryRow
       /\ run[j].pc \in {"idle", "read", "write", "sum", "put",
                          "list", "mark", "unmark", "adjust"}
  /\ holes \subseteq Day \X Holes

(***************************************************************************)
(* What the marks are for ("these hours would silently be lost"): the row  *)
(* of a day that is over is what its segments and adjustments say, or the  *)
(* day will be counted again, except for what the given holes explain.     *)
(***************************************************************************)
WillCount(d) ==
  \/ d \in Marked
  \/ closeDue /\ d = today - 1
  \/ \E j \in Job : run[j].day = d
       /\ (At(j, "adjust") \/ At(j, "read") \/ (At(j, "write") /\ run[j].seen = Input(d)))
CountedExcept(known) ==
  \A d \in 1 .. today - 1 :
    daily[d] = Input(d) \/ WillCount(d) \/ \E why \in known : <<d, why>> \in holes

(***************************************************************************)
(* These are all the ways in which late hours are lost: an upload that     *)
(* meets the tick removing the mark of its day, a recount overtaken by     *)
(* another one of the same day, a date judged by a skewed clock, a day     *)
(* close that never ran, an adjustment whose recount failed, and a mark    *)
(* found in a closed month. Nothing else loses any: no order of the jobs,  *)
(* no tick that fails halfway, no limit of a tick.                         *)
(***************************************************************************)
LateHoursCounted == CountedExcept(Holes)

(***************************************************************************)
(* ingest: yesterday and everything before it is marked, so that late      *)
(* hours reach daily_summary, "the same transaction" keeping segment and   *)
(* mark together. A tick that recounts the day meanwhile changes nothing.  *)
(***************************************************************************)
MarkedHoursCounted == CountedExcept(Holes \ {"raced"})

(***************************************************************************)
(* R1: once a month is closed nobody touches its figures, but for a        *)
(* recount that had found it open just before.                             *)
(***************************************************************************)
ClosedMonthFrozen ==
  [][\A m \in closed \cap closed' :
       monthly'[m] = monthly[m] \/ \E j \in Job : MonthOf(run[j].day) = m /\ run[j].open]_rollupVars

(***************************************************************************)
(* "Fresh every fifteen minutes": when nothing more comes in, the current  *)
(* day and the current month's figures become right and stay so, whatever  *)
(* recounts overtook each other before.                                    *)
(***************************************************************************)
CurrentMonthSettles ==
  <>[](/\ daily[today] = Input(today)
       /\ \A d \in Day : MonthOf(d) = MonthOf(today) => monthly[MonthOf(today)][d] = daily[d])

(***************************************************************************)
(* No mark waits for ever, neither behind the limit of a tick nor behind   *)
(* the days of a closed month.                                             *)
(***************************************************************************)
MarksLeave == \A d \in Day : d \in Marked ~> d \notin Marked
=============================================================================
