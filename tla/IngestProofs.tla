---------------------------- MODULE IngestProofs ----------------------------
(***************************************************************************)
(* What the server makes of uploads, for any number of days, marks and     *)
(* jobs: late hours reach the daily rows or leave a hole behind, and a     *)
(* closed month keeps its figures. That no picture is lost on its way, for *)
(* any number of shots, slots and requests. And what it keeps of the       *)
(* segments (WorkSessions), however often they are sent: each once, and    *)
(* whole, in a session of its date that holds it.                          *)
(***************************************************************************)
EXTENDS SummaryRollup, Screenshots, WorkSessions, SequenceTheorems, FiniteSetTheorems, WellFoundedInduction, TLAPS

\* Something went wrong for a day, and the model remembers it.
Hit(d) == \E why \in Holes : <<d, why>> \in holes

\* A day that is not over, or whose day close is still to come.
Current(d) == d >= today \/ (closeDue /\ d = today - 1)

\* A job is about to read the day.
Reading(d) == \E j \in Job : At(j, "read") /\ run[j].day = d

Safe(d) == Current(d) \/ Hit(d) \/ Reading(d)

\* K06 has read the marked day and will remove its mark.
Drained(d) == /\ run["K06"].drain /\ run["K06"].day = d
              /\ run["K06"].pc \in {"write", "sum", "put", "unmark"}

\* A mark that brings another recount.
MarkSafe(d) == d \in Marked /\ ~Drained(d)

Writing(j, d) == At(j, "write") /\ run[j].day = d

\* What a job is about to write is right, or the day is counted again.
WriteInv == \A j \in Job, d \in Day : Writing(j, d) =>
              run[j].seen = Input(d) \/ Safe(d) \/ MarkSafe(d)

RowInv == \A d \in Day : \/ daily[d] = Input(d) \/ Safe(d) \/ MarkSafe(d)
                         \/ \E j \in Job : Writing(j, d)

\* Two recounts of one day that overlap leave a hole.
OneWriter == \A i, j \in Job, d \in Day : Writing(i, d) /\ Writing(j, d) => i = j \/ Hit(d)

\* K06 recounts the days of its list, all of them marked still; its first recount is of
\* the day it began on.
DrainInv ==
  LET k == run["K06"] IN
  /\ k.list \in Seq(Day) /\ Range(k.list) \subseteq Marked /\ IsInjective(k.list)
  /\ k.drain /\ k.day # NoDay => k.list # <<>> /\ k.day = Head(k.list)
  /\ k.pc \in {"mark", "unmark"} => k.drain
  /\ ~k.drain /\ k.day # NoDay => Current(k.day) \/ Hit(k.day)

\* An upload that will mark its day finds it unmarked; one that judged its day to be the
\* current one was right, or its clock was not.
UploadInv ==
  /\ upload \in [day : Nat, skewed : BOOLEAN, late : BOOLEAN, mark : BOOLEAN]
  /\ upload # NoUpload =>
       /\ upload.day \in 1 .. today
       /\ upload.mark => upload.day \notin Marked /\ upload.late
       /\ upload.late \/ upload.skewed \/ Current(upload.day) \/ Hit(upload.day)

IsJob(r) == r \in [pc : {r.pc}, day : {r.day}, seen : {r.seen}, open : {r.open},
                   rows : {r.rows}, list : {r.list}, drain : {r.drain}]

\* Where a job may be; a month is written by one that found it open.
JobOK(j, r, due) ==
  /\ IsJob(r)
  /\ r.day \in {NoDay} \cup 1 .. due
  /\ r.pc \in {"read", "write", "sum", "put", "unmark", "adjust"} => r.day # NoDay
  /\ r.pc \in {"unmark", "list", "mark"} => j = "K06"
  /\ j # "K06" => ~r.drain
  /\ r.pc \in {"sum", "put"} => r.open

PcInv == run = [j \in Job |-> run[j]] /\ \A j \in Job : JobOK(j, run[j], today)

CalendarInv ==
  /\ today \in 1 .. MaxDay /\ closeDue \in BOOLEAN /\ (closeDue => today > 1)
  /\ segs = [d \in Day |-> segs[d]] /\ adj = [d \in Day |-> adj[d]]
  /\ daily = [d \in Day |-> daily[d]]
  /\ marks \in Seq(Day) /\ IsInjective(marks) /\ Marked \subseteq 1 .. today

RollupInv ==
  /\ WriteInv /\ RowInv /\ OneWriter
  /\ DrainInv /\ UploadInv /\ PcInv /\ CalendarInv

-----------------------------------------------------------------------------
\* Frames.

LEMMA Days == /\ MaxDay \in Nat \ {0}
              /\ \A d : d \in Day <=> d \in Int /\ 1 <= d /\ d <= MaxDay
              /\ NoDay \notin Day
              /\ \A t \in Day : \A d \in 1 .. t : d \in Day
BY CalendarAssumption DEF Day, NoDay

\* What is still to be counted stays so, and what a job will write stays what it was.
LEMMA CountsKept ==
  ASSUME RollupInv,
         \A d \in Day : \/ daily'[d] \in {daily[d], Input(d)} /\ Input(d)' = Input(d)
                        \/ Safe(d)' \/ MarkSafe(d)',
         \A d \in Day : Safe(d) => Safe(d)' \/ MarkSafe(d)',
         \A d \in Day : MarkSafe(d) => Safe(d)' \/ MarkSafe(d)',
         \A d \in Day : Hit(d) => Hit(d)',
         \A j \in Job, d \in Day : Writing(j, d)' => Writing(j, d) /\ run'[j].seen = run[j].seen,
         \A j \in Job, d \in Day : Writing(j, d) => Writing(j, d)' \/ Safe(d)' \/ MarkSafe(d)'
                                                   \/ daily'[d] = Input(d)'
  PROVE  WriteInv' /\ RowInv' /\ OneWriter'
<1>1. WriteInv'
  <2> SUFFICES ASSUME NEW j \in Job, NEW d \in Day, Writing(j, d)'
               PROVE  run'[j].seen = Input(d)' \/ Safe(d)' \/ MarkSafe(d)'
    BY DEF WriteInv
  <2>1. run[j].seen = Input(d) \/ Safe(d) \/ MarkSafe(d)
    BY DEF RollupInv, WriteInv
  <2> QED
    BY <2>1
<1>2. RowInv'
  <2> SUFFICES ASSUME NEW d \in Day
               PROVE  \/ daily'[d] = Input(d)' \/ Safe(d)' \/ MarkSafe(d)'
                      \/ \E j \in Job : Writing(j, d)'
    BY DEF RowInv
  <2>1. daily[d] = Input(d) \/ Safe(d) \/ MarkSafe(d) \/ \E j \in Job : Writing(j, d)
    BY DEF RollupInv, RowInv
  <2> QED
    BY <2>1
<1>3. OneWriter'
  BY DEF RollupInv, OneWriter
<1> QED
  BY <1>1, <1>2, <1>3

\* Holes are never taken back, and days do not become current again.
LEMMA HolesStay == ASSUME holes \subseteq holes' PROVE \A d : Hit(d) => Hit(d)'
BY DEF Hit

LEMMA CalendarSame ==
  ASSUME UNCHANGED <<today, closeDue>>, holes \subseteq holes'
  PROVE  \A d : /\ Current(d)' <=> Current(d)
                /\ Hit(d) => Hit(d)'
BY HolesStay DEF Current

\* A step that changes one job only.
LEMMA JobChanged ==
  ASSUME PcInv, NEW j \in Job, NEW r, run' = [run EXCEPT ![j] = r]
  PROVE  /\ run' = [i \in Job |-> run'[i]]
         /\ run'[j] = r /\ \A i \in Job : i # j => run'[i] = run[i]
BY DEF PcInv

\* ... to one that neither has read a day it will write, nor gives up one it was to read.
LEMMA JobsKept ==
  ASSUME RollupInv, NEW j \in Job, \A i \in Job : i # j => run'[i] = run[i],
         run[j].pc \notin {"read", "write"}, run'[j].pc # "write",
         UNCHANGED <<today, closeDue, segs, adj, daily, marks>>, holes \subseteq holes',
         \A d \in Day : Drained(d)' => Drained(d) \/ Hit(d)'
  PROVE  WriteInv' /\ RowInv' /\ OneWriter'
<1>1. \A d : (Current(d)' <=> Current(d)) /\ (Hit(d) => Hit(d)')
  BY CalendarSame
<1>2. \A d : Reading(d) => Reading(d)'
  BY DEF Reading, At
<1>3. \A d \in Day : Safe(d) => Safe(d)'
  BY <1>1, <1>2 DEF Safe
<1>4. \A d \in Day : MarkSafe(d) => MarkSafe(d)' \/ Safe(d)'
  BY DEF MarkSafe, Safe, Marked
<1>5. \A i \in Job : \A d : /\ Writing(i, d)' => Writing(i, d) /\ run'[i].seen = run[i].seen
                            /\ Writing(i, d) => Writing(i, d)'
  BY DEF Writing, At
<1>6. \A d \in Day : daily'[d] = daily[d] /\ Input(d)' = Input(d)
  BY DEF Input
<1> QED
  BY <1>1, <1>3, <1>4, <1>5, <1>6, CountsKept

LEMMA UploadKept ==
  ASSUME UploadInv, upload' = upload, today \in Int, today' \in Int, today <= today',
         Marked' \subseteq Marked,
         \A d \in 1 .. today : Current(d) \/ Hit(d) => \/ Current(d)' \/ Hit(d)'
                                                       \/ upload.late \/ upload.day # d
  PROVE  UploadInv'
BY DEF UploadInv

LEMMA PcKept ==
  ASSUME PcInv, today \in Int, today' \in Int, today <= today',
         NEW j \in Job, NEW r, run' = [run EXCEPT ![j] = r], JobOK(j, r, today')
  PROVE  PcInv'
<1>1. \A i \in Job : JobOK(i, run[i], today')
  BY DEF PcInv, JobOK
<1> QED
  BY <1>1, JobChanged DEF PcInv

\* A step of one job between its queries that writes no row of a day.
LEMMA QuietJob ==
  ASSUME RollupInv, NEW j \in Job, NEW r, run' = [run EXCEPT ![j] = r], JobOK(j, r, today),
         run[j].pc \notin {"read", "write"}, r.pc # "write",
         UNCHANGED <<inputVars, daily, marks, closeDue>>, holes \subseteq holes',
         \A d \in Day : Drained(d)' => Drained(d) \/ Hit(d)',
         j = "K06" => DrainInv'
  PROVE  RollupInv'
<1>1. UNCHANGED <<today, segs, adj, upload, daily, marks, closeDue>>
  BY DEF inputVars
<1>2. run'[j] = r /\ \A i \in Job : i # j => run'[i] = run[i]
  BY JobChanged DEF RollupInv
<1>3. WriteInv' /\ RowInv' /\ OneWriter'
  BY <1>1, <1>2, JobsKept
<1>4. today \in Int
  BY DEF RollupInv, CalendarInv
<1>5. PcInv'
  <2>1. today <= today' /\ JobOK(j, r, today')
    BY <1>1, <1>4
  <2> QED
    BY <1>1, <1>4, <2>1, PcKept DEF RollupInv
<1>6. UploadInv'
  BY <1>1, <1>4, CalendarSame, UploadKept DEF RollupInv, Marked
<1>7. DrainInv'
  <2>1. CASE j # "K06"
    <3>1. run'["K06"] = run["K06"]
      BY <1>2, <2>1 DEF Job
    <3> QED
      BY <1>1, <3>1, CalendarSame DEF RollupInv, DrainInv, Marked
  <2> QED
    BY <2>1
<1>8. CalendarInv'
  BY <1>1 DEF RollupInv, CalendarInv, Marked
<1> QED
  BY <1>3, <1>5, <1>6, <1>7, <1>8 DEF RollupInv

LEMMA IdleOK == /\ \A j, t : JobOK(j, IdleJob, t)
                /\ IdleJob.day = NoDay /\ IdleJob.pc = "idle" /\ IdleJob.list = <<>> /\ ~IdleJob.drain
BY DEF IdleJob, JobOK, IsJob, NoDay

\* Where a recount ends.
LEMMA FinishedIs ==
  ASSUME RollupInv, NEW j \in Job, run[j].pc \in {"write", "put"}
  PROVE  /\ JobOK(j, Finished(j), today)
         /\ Finished(j).pc \in {"idle", "list", "unmark"}
         /\ j = "K06" => /\ Finished(j).day = run[j].day /\ Finished(j).drain = run[j].drain
                         /\ Finished(j).list = run[j].list
                         /\ Finished(j).pc = "unmark" => run[j].drain
<1>1. JobOK(j, run[j], today)
  BY DEF RollupInv, PcInv
<1>2. CASE j # "K06"
  BY <1>2, IdleOK DEF Finished
<1>3. CASE j = "K06"
  BY <1>1, <1>3 DEF Finished, JobOK, IsJob
<1> QED
  BY <1>2, <1>3

LEMMA SumKeeps == ASSUME RollupInv, NEW j \in Job, SumMonth(j) PROVE RollupInv'
<1> DEFINE r == [run[j] EXCEPT !.pc = "put", !.rows = Rows(MonthOf(run[j].day))]
<1>1. JobOK(j, run[j], today) /\ run[j].pc = "sum"
  BY DEF RollupInv, PcInv, SumMonth, At
<1>2. run' = [run EXCEPT ![j] = r] /\ UNCHANGED <<inputVars, daily, marks, closeDue, holes>>
  BY DEF SumMonth
<1>3. /\ r.pc = "put" /\ r.day = run[j].day /\ r.drain = run[j].drain /\ r.open = run[j].open
      /\ r.list = run[j].list /\ IsJob(r)
  BY <1>1 DEF JobOK, IsJob
<1> HIDE DEF r
<1>4. JobOK(j, r, today)
  BY <1>1, <1>3 DEF JobOK
<1>5. run'[j] = r /\ \A i \in Job : i # j => run'[i] = run[i]
  BY <1>2, JobChanged DEF RollupInv
<1>6. \A d \in Day : Drained(d)' => Drained(d)
  BY <1>1, <1>3, <1>5 DEF Drained, Job
<1>7. j = "K06" => DrainInv'
  BY <1>1, <1>2, <1>3, <1>5, CalendarSame DEF RollupInv, DrainInv, Marked, inputVars
<1> QED
  BY <1>1, <1>2, <1>3, <1>4, <1>6, <1>7, QuietJob

LEMMA WriteMonthKeeps == ASSUME RollupInv, NEW j \in Job, WriteMonth(j) PROVE RollupInv'
<1> DEFINE r == [Finished(j) EXCEPT !.open = FALSE, !.rows = <<>>]
<1>1. run[j].pc = "put" /\ JobOK(j, run[j], today) /\ JobOK(j, Finished(j), today)
  BY FinishedIs DEF RollupInv, PcInv, WriteMonth, At
<1>2. run' = [run EXCEPT ![j] = r] /\ UNCHANGED <<inputVars, daily, marks, closeDue, holes>>
  BY DEF WriteMonth
<1>3. /\ r.pc = Finished(j).pc /\ r.day = Finished(j).day /\ r.drain = Finished(j).drain
      /\ r.list = Finished(j).list /\ IsJob(r)
  BY <1>1 DEF JobOK, IsJob
<1> HIDE DEF r
<1>4. JobOK(j, r, today) /\ r.pc \in {"idle", "list", "unmark"}
  BY <1>1, <1>3, FinishedIs DEF JobOK
<1>5. run'[j] = r /\ \A i \in Job : i # j => run'[i] = run[i]
  BY <1>2, JobChanged DEF RollupInv
<1>6. \A d \in Day : Drained(d)' => Drained(d)
  BY <1>1, <1>3, <1>5, FinishedIs DEF Drained, Job
<1>7. j = "K06" => DrainInv'
  BY <1>1, <1>2, <1>3, <1>5, FinishedIs, CalendarSame DEF RollupInv, DrainInv, Marked, inputVars
<1> QED
  BY <1>1, <1>2, <1>4, <1>6, <1>7, QuietJob

LEMMA StartKeeps == ASSUME RollupInv, StartTick PROVE RollupInv'
<1> DEFINE r == Start("K06", today)
<1>1. run["K06"].pc = "idle" /\ "K06" \in Job /\ today \in 1 .. today /\ today # NoDay
  BY DEF RollupInv, CalendarInv, StartTick, At, Job, NoDay
<1>2. run' = [run EXCEPT !["K06"] = r] /\ UNCHANGED <<inputVars, daily, marks, closeDue, holes>>
  BY DEF StartTick
<1>3. r.pc = "read" /\ r.day = today /\ ~r.drain /\ r.list = <<>> /\ IsJob(r)
  BY DEF Start, IdleJob, IsJob
<1> HIDE DEF r
<1>4. JobOK("K06", r, today)
  BY <1>1, <1>3 DEF JobOK
<1>5. run'["K06"] = r
  BY <1>1, <1>2, JobChanged DEF RollupInv
<1>6. \A d \in Day : Drained(d)' => Drained(d)
  BY <1>3, <1>5 DEF Drained
<1>7. DrainInv'
  <2>1. Current(today)' /\ Range(<<>>) = {} /\ IsInjective(<<>>) /\ <<>> \in Seq(Day)
    BY <1>2 DEF Current, inputVars, RollupInv, CalendarInv, Range, IsInjective
  <2> QED
    BY <1>2, <1>3, <1>5, <2>1 DEF DrainInv, inputVars
<1> QED
  BY <1>1, <1>2, <1>3, <1>4, <1>6, <1>7, QuietJob

\* The first marks, at most so many.
LEMMA FirstMarks ==
  ASSUME NEW S, NEW s \in Seq(S), IsInjective(s), NEW n \in Nat, n <= Len(s)
  PROVE  LET t == SubSeq(s, 1, n)
         IN  t \in Seq(S) /\ Range(t) \subseteq Range(s) /\ IsInjective(t)
<1> DEFINE t == SubSeq(s, 1, n)
<1>1. t \in Seq(S) /\ Len(t) = n /\ \A i \in 1 .. n : t[i] = s[i]
  OBVIOUS
<1>2. DOMAIN t = 1 .. n /\ DOMAIN s = 1 .. Len(s)
  BY <1>1
<1> HIDE DEF t
<1> QED
  BY <1>1, <1>2 DEF Range, IsInjective, t

LEMMA ListKeeps == ASSUME RollupInv, ListMarks PROVE RollupInv'
<1> DEFINE n == IF Len(marks) < PerTick THEN Len(marks) ELSE PerTick
           r == [IdleJob EXCEPT !.pc = "mark", !.drain = TRUE, !.list = SubSeq(marks, 1, n)]
<1>1. run["K06"].pc = "list" /\ "K06" \in Job
  BY DEF ListMarks, At, Job
<1>2. run' = [run EXCEPT !["K06"] = r] /\ UNCHANGED <<inputVars, daily, marks, closeDue, holes>>
  BY DEF ListMarks
<1>3. r.pc = "mark" /\ r.day = NoDay /\ r.drain /\ r.list = SubSeq(marks, 1, n) /\ IsJob(r)
  BY DEF IdleJob, IsJob
<1>4. n \in Nat /\ n <= Len(marks)
  BY RollupAssumption DEF RollupInv, CalendarInv
<1> HIDE DEF r, n
<1>5. JobOK("K06", r, today)
  BY <1>3 DEF JobOK
<1>6. run'["K06"] = r
  BY <1>1, <1>2, JobChanged DEF RollupInv
<1>7. \A d \in Day : Drained(d)' => Drained(d)
  BY <1>3, <1>6 DEF Drained
<1>8. r.list \in Seq(Day) /\ Range(r.list) \subseteq Marked /\ IsInjective(r.list)
  BY <1>3, <1>4, FirstMarks DEF RollupInv, CalendarInv, Marked
<1>9. DrainInv'
  BY <1>2, <1>3, <1>6, <1>8 DEF DrainInv, Marked
<1> QED
  BY <1>1, <1>2, <1>3, <1>5, <1>7, <1>9, QuietJob

\* The first of a list of days, and the others.
LEMMA HeadTail ==
  ASSUME NEW S, NEW s \in Seq(S), s # <<>>
  PROVE  /\ Head(s) \in S /\ Head(s) \in Range(s) /\ Tail(s) \in Seq(S)
         /\ IsInjective(s) => IsInjective(Tail(s)) /\ Range(Tail(s)) \subseteq Range(s) \ {Head(s)}
<1>1. Len(s) \in Nat \ {0} /\ Head(s) = s[1] /\ DOMAIN s = 1 .. Len(s) /\ \A i \in 1 .. Len(s) : s[i] \in S
  OBVIOUS
<1>2. Head(s) \in S /\ Head(s) \in Range(s) /\ Tail(s) \in Seq(S)
  BY <1>1 DEF Range
<1>3. ASSUME IsInjective(s)
      PROVE  IsInjective(Tail(s)) /\ Range(Tail(s)) \subseteq Range(s) \ {Head(s)}
  <2> DEFINE t == Tail(s)
  <2>1. DOMAIN t = 1 .. Len(s) - 1 /\ \A i \in 1 .. Len(s) - 1 : t[i] = s[i + 1]
    BY <1>1
  <2> HIDE DEF t
  <2>2. IsInjective(t)
    BY <1>1, <1>3, <2>1 DEF IsInjective
  <2>3. \A i \in 1 .. Len(s) - 1 : t[i] \in Range(s) /\ t[i] # s[1]
    BY <1>1, <1>3, <2>1 DEF IsInjective, Range
  <2>4. Range(t) \subseteq Range(s) \ {Head(s)}
    BY <1>1, <2>1, <2>3 DEF Range
  <2> QED
    BY <2>2, <2>4 DEF t
<1> QED
  BY <1>2, <1>3

\* A list without a day.
LEMMA NoList == <<>> \in Seq(Day) /\ Range(<<>>) = {} /\ IsInjective(<<>>)
BY DEF Range, IsInjective

LEMMA NextKeeps == ASSUME RollupInv, NextMark PROVE RollupInv'
<1> DEFINE k == run["K06"]
           d == Head(k.list)
           r == IF k.list = <<>> THEN IdleJob ELSE [k EXCEPT !.day = d, !.pc = MarkStep(d)]
<1>1. k.pc = "mark" /\ "K06" \in Job /\ JobOK("K06", k, today)
  BY DEF RollupInv, PcInv, NextMark, At, Job
<1>2. run' = [run EXCEPT !["K06"] = r] /\ UNCHANGED <<inputVars, daily, marks, closeDue>>
      /\ holes \subseteq holes'
  BY DEF NextMark, Hole
<1>3. run'["K06"] = r
  BY <1>1, <1>2, JobChanged DEF RollupInv
<1>4. CASE k.list = <<>>
  <2>1. r = IdleJob
    BY <1>4
  <2>2. \A e \in Day : Drained(e)' => Drained(e)
    BY <1>3, <2>1, IdleOK DEF Drained
  <2>3. DrainInv'
    BY <1>3, <2>1, IdleOK, NoList DEF DrainInv
  <2>4. JobOK("K06", r, today) /\ r.pc # "write"
    BY <2>1, IdleOK
  <2> HIDE DEF r, k
  <2> QED
    BY <1>1, <1>2, <2>2, <2>3, <2>4, QuietJob DEF k
<1>5. CASE k.list # <<>>
  <2>1. d \in Marked /\ d \in 1 .. today
    BY <1>5, HeadTail DEF RollupInv, DrainInv, CalendarInv
  <2>2. /\ r.pc = MarkStep(d) /\ r.day = d /\ r.drain = k.drain /\ r.list = k.list
        /\ r.open = k.open /\ IsJob(r)
    BY <1>1, <1>5 DEF JobOK, IsJob
  <2>3. k.drain
    BY <1>1 DEF RollupInv, DrainInv
  <2>4. \A e \in {d} : MarkStep(e) = "unmark" => Hit(e)'
    BY <1>5 DEF MarkStep, NextMark, Hole, Hit, Holes
  <2>5. MarkStep(d) \in {"read", "unmark"} /\ d # NoDay
    BY <2>1 DEF MarkStep, NoDay
  <2> HIDE DEF r, k, d
  <2>6. JobOK("K06", r, today)
    BY <2>1, <2>2, <2>5 DEF JobOK
  <2>7. \A e \in Day : Drained(e)' => Hit(e)'
    BY <1>3, <2>2, <2>4, <2>5 DEF Drained
  <2>8. DrainInv'
    BY <1>2, <1>3, <1>5, <2>2, <2>3 DEF DrainInv, RollupInv, Marked, d, k
  <2> QED
    BY <1>1, <1>2, <2>2, <2>5, <2>6, <2>7, <2>8, QuietJob DEF k
<1> QED
  BY <1>4, <1>5

\* The first (and here the only) mark of a day is removed.
LEMMA MarkRemoved ==
  ASSUME NEW S, NEW s \in Seq(S), IsInjective(s), NEW d
  PROVE  LET t == RemoveFirst(s, d)
         IN  t \in Seq(S) /\ IsInjective(t) /\ Range(t) = Range(s) \ {d}
<1> DEFINE t == RemoveFirst(s, d)
<1>1. DOMAIN s = 1 .. Len(s) /\ Len(s) \in Nat
  OBVIOUS
<1>2. CASE \E i \in 1 .. Len(s) : s[i] = d
  <2>1. PICK n \in 1 .. Len(s) : s[n] = d
    BY <1>2
  <2>2. {i \in 1 .. Len(s) : s[i] = d} = {n}
    BY <1>1, <2>1 DEF IsInjective
  <2>3. Min({n}) = n
    BY <2>1 DEF Min
  <2>4. SelectInSeq(s, LAMBDA v : v = d) = n
    BY <2>2, <2>3 DEF SelectInSeq
  <2>5. t = SubSeq(s, 1, n - 1) \o SubSeq(s, n + 1, Len(s))
    BY <1>2, <2>4 DEF RemoveFirst, RemoveAt
  <2>6. /\ t \in Seq(S) /\ DOMAIN t = 1 .. Len(s) - 1
        /\ \A i \in 1 .. Len(s) - 1 : t[i] = IF i < n THEN s[i] ELSE s[i + 1]
    <3> DEFINE a == SubSeq(s, 1, n - 1)
               b == SubSeq(s, n + 1, Len(s))
    <3>1. a \in Seq(S) /\ Len(a) = n - 1 /\ \A i \in 1 .. n - 1 : a[i] = s[i]
      BY <1>1, <2>1
    <3>2. b \in Seq(S) /\ Len(b) = Len(s) - n /\ \A i \in 1 .. Len(s) - n : b[i] = s[i + n]
      <4>1. \A i \in n + 1 .. Len(s) : s[i] \in S
        BY <1>1, <2>1
      <4>2. /\ b \in Seq(S) /\ Len(b) = IF n + 1 <= Len(s) THEN Len(s) - (n + 1) + 1 ELSE 0
            /\ \A i \in 1 .. Len(s) - (n + 1) + 1 : b[i] = s[n + 1 + i - 1]
        BY <1>1, <2>1, <4>1, SubSeqProperties
      <4>3. n \in Int /\ Len(s) \in Int /\ n <= Len(s)
        BY <1>1, <2>1
      <4>4. \A i \in 1 .. Len(s) - n : n + 1 + i - 1 = i + n
        BY <4>3
      <4>5. Len(s) - (n + 1) + 1 = Len(s) - n
        BY <4>3
      <4> HIDE DEF b
      <4>6. Len(b) = Len(s) - n
        BY <4>2, <4>3
      <4>7. \A i \in 1 .. Len(s) - n : b[i] = s[i + n]
        <5> TAKE i \in 1 .. Len(s) - n
        <5>1. b[i] = s[n + 1 + i - 1]
          BY <4>2, <4>5
        <5> QED
          BY <4>4, <5>1
      <4> QED
        BY <4>2, <4>6, <4>7
    <3> HIDE DEF a, b
    <3>3. a \o b \in Seq(S) /\ DOMAIN (a \o b) = 1 .. Len(s) - 1
      <4>1. a \o b \in Seq(S) /\ Len(a \o b) = Len(a) + Len(b)
        BY <3>1, <3>2, ConcatProperties
      <4>2. Len(a) + Len(b) = Len(s) - 1
        BY <1>1, <2>1, <3>1, <3>2
      <4> QED
        BY <4>1, <4>2
    <3>4. \A i \in 1 .. Len(s) - 1 : (a \o b)[i] = IF i < n THEN a[i] ELSE b[i - (n - 1)]
      BY <1>1, <2>1, <3>1, <3>2
    <3>5. \A i \in 1 .. Len(s) - 1 : i >= n => i - (n - 1) \in 1 .. Len(s) - n /\ i - (n - 1) + n = i + 1
      BY <1>1, <2>1
    <3>6. \A i \in 1 .. Len(s) - 1 : (a \o b)[i] = IF i < n THEN s[i] ELSE s[i + 1]
      BY <1>1, <2>1, <3>1, <3>2, <3>4, <3>5
    <3> QED
      BY <2>5, <3>3, <3>6 DEF a, b
  <2> HIDE DEF t
  <2>7. IsInjective(t)
    <3> SUFFICES ASSUME NEW i \in 1 .. Len(s) - 1, NEW j \in 1 .. Len(s) - 1, t[i] = t[j]
                 PROVE  i = j
      BY <2>6 DEF IsInjective
    <3>1. \A x, y \in 1 .. Len(s) : s[x] = s[y] => x = y
      BY <1>1 DEF IsInjective
    <3>2. i \in 1 .. Len(s) /\ i + 1 \in 1 .. Len(s) /\ j \in 1 .. Len(s) /\ j + 1 \in 1 .. Len(s)
      BY <1>1
    <3> QED
      BY <1>1, <2>1, <2>6, <3>1, <3>2
  <2>8. Range(t) \subseteq Range(s) \ {d}
    <3>1. \A x \in 1 .. Len(s) : s[x] = d => x = n
      BY <1>1, <2>1 DEF IsInjective
    <3>2. \A i \in 1 .. Len(s) - 1 : \E x \in 1 .. Len(s) : t[i] = s[x] /\ x # n
      <4> TAKE i \in 1 .. Len(s) - 1
      <4>1. CASE i < n
        BY <1>1, <2>1, <2>6, <4>1
      <4>2. CASE i >= n
        <5>1. i + 1 \in 1 .. Len(s) /\ i + 1 # n /\ t[i] = s[i + 1]
          BY <1>1, <2>1, <2>6, <4>2
        <5> QED
          BY <5>1
      <4> QED
        BY <2>1, <4>1, <4>2
    <3>3. \A i \in 1 .. Len(s) - 1 : t[i] \in Range(s) /\ t[i] # d
      BY <1>1, <3>1, <3>2 DEF Range
    <3> QED
      BY <2>6, <3>3 DEF Range
  <2>9. ASSUME NEW x \in Range(s) \ {d} PROVE x \in Range(t)
    <3>1. PICK i \in 1 .. Len(s) : s[i] = x
      BY <1>1 DEF Range
    <3>2. i # n
      BY <2>1, <3>1
    <3>3. CASE i < n
      BY <1>1, <2>1, <2>6, <3>1, <3>3 DEF Range
    <3>4. CASE i > n
      <4>1. i - 1 \in 1 .. Len(s) - 1 /\ t[i - 1] = x
        BY <1>1, <2>1, <2>6, <3>1, <3>4
      <4> QED
        BY <2>6, <4>1 DEF Range
    <3> QED
      BY <2>1, <3>2, <3>3, <3>4
  <2> QED
    BY <2>6, <2>7, <2>8, <2>9 DEF t
<1>3. CASE ~\E i \in 1 .. Len(s) : s[i] = d
  <2>1. t = s
    BY <1>3 DEF RemoveFirst
  <2>2. d \notin Range(s)
    BY <1>1, <1>3 DEF Range
  <2> QED
    BY <2>1, <2>2
<1> QED
  BY <1>2, <1>3

LEMMA UnmarkKeeps == ASSUME RollupInv, Unmark PROVE RollupInv'
<1> DEFINE k == run["K06"]
           r == [IdleJob EXCEPT !.pc = "mark", !.drain = TRUE, !.list = Tail(k.list)]
<1>1. k.pc = "unmark" /\ "K06" \in Job /\ JobOK("K06", k, today) /\ k.drain /\ k.day # NoDay
      /\ k.list \in Seq(Day) /\ k.list # <<>> /\ k.day = Head(k.list)
      /\ Range(k.list) \subseteq Marked /\ IsInjective(k.list)
  BY DEF RollupInv, PcInv, DrainInv, JobOK, Unmark, At, Job
<1>2. run' = [run EXCEPT !["K06"] = r]
      /\ UNCHANGED <<today, segs, adj, upload, daily, closeDue, holes>>
      /\ marks' = RemoveFirst(marks, k.day)
  BY DEF Unmark, inputVars
<1>3. r.pc = "mark" /\ r.day = NoDay /\ r.drain /\ r.list = Tail(k.list) /\ IsJob(r)
  BY DEF IdleJob, IsJob
<1>4. marks' \in Seq(Day) /\ IsInjective(marks)' /\ Marked' = Marked \ {k.day}
  BY <1>2, MarkRemoved DEF RollupInv, CalendarInv, Marked
<1>5. Tail(k.list) \in Seq(Day) /\ IsInjective(Tail(k.list))
      /\ Range(Tail(k.list)) \subseteq Marked \ {k.day}
  BY <1>1, HeadTail
<1>6. run'["K06"] = r /\ \A i \in Job : i # "K06" => run'[i] = run[i]
  BY <1>1, <1>2, JobChanged DEF RollupInv
<1> HIDE DEF r
<1>7. \A d : (Current(d)' <=> Current(d)) /\ (Hit(d) => Hit(d)')
  BY <1>2, CalendarSame
<1>8. \A d : Drained(k.day) /\ ~Drained(d)'
  BY <1>1, <1>3, <1>6 DEF Drained
<1>9. WriteInv' /\ RowInv' /\ OneWriter'
  <2>1. \A d \in Day : Safe(d) => Safe(d)'
    BY <1>1, <1>6, <1>7 DEF Safe, Reading, At
  <2>2. \A d \in Day : MarkSafe(d) => MarkSafe(d)'
    BY <1>4, <1>8 DEF MarkSafe
  <2>3. \A j \in Job : \A d : /\ Writing(j, d)' => Writing(j, d) /\ run'[j].seen = run[j].seen
                              /\ Writing(j, d) => Writing(j, d)'
    BY <1>1, <1>3, <1>6 DEF Writing, At
  <2>4. \A d \in Day : daily'[d] = daily[d] /\ Input(d)' = Input(d)
    BY <1>2 DEF Input
  <2> QED
    BY <1>7, <2>1, <2>2, <2>3, <2>4, CountsKept
<1>10. DrainInv'
  BY <1>3, <1>4, <1>5, <1>6 DEF DrainInv
<1>11. today \in Int /\ today' = today
  BY <1>2 DEF RollupInv, CalendarInv
<1>12. UploadInv'
  BY <1>2, <1>4, <1>7, <1>11, UploadKept DEF RollupInv
<1>13. PcInv'
  <2>1. JobOK("K06", r, today') /\ today <= today'
    BY <1>3, <1>11 DEF JobOK
  <2> QED
    BY <1>1, <1>2, <1>11, <2>1, PcKept DEF RollupInv
<1>14. CalendarInv'
  BY <1>2, <1>4 DEF RollupInv, CalendarInv
<1> QED
  BY <1>9, <1>10, <1>12, <1>13, <1>14 DEF RollupInv

\* A step that leaves the jobs, the rows and what they are counted from alone.
LEMMA NothingMoved ==
  ASSUME RollupInv, UNCHANGED <<today, segs, adj, upload, daily, marks, run, closeDue, holes>>
  PROVE  RollupInv'
<1> USE DEF Writing, Safe, MarkSafe, Drained, Reading, Current, Hit, Marked, At, Input
<1>1. WriteInv' /\ RowInv' /\ OneWriter'
  BY DEF RollupInv, WriteInv, RowInv, OneWriter
<1>2. DrainInv' /\ UploadInv' /\ CalendarInv'
  BY DEF RollupInv, DrainInv, UploadInv, CalendarInv
<1>3. PcInv'
  BY DEF RollupInv, PcInv
<1> QED
  BY <1>1, <1>2, <1>3 DEF RollupInv

\* A step that moves the calendar on and leaves the jobs and their days alone.
LEMMA CalendarMoves ==
  ASSUME RollupInv, UNCHANGED <<segs, adj, upload, daily, marks, run>>,
         holes \subseteq holes', today' \in today .. MaxDay,
         closeDue' \in BOOLEAN, closeDue' => today' > 1,
         \A d \in Day : Current(d) => Current(d)' \/ Hit(d)'
  PROVE  RollupInv'
<1>1. today \in 1 .. MaxDay /\ today' \in 1 .. MaxDay /\ today <= today' /\ MaxDay \in Int
  BY Days DEF RollupInv, CalendarInv
<1>2. \A d : Hit(d) => Hit(d)'
  BY HolesStay
<1>3. WriteInv' /\ RowInv' /\ OneWriter'
  <2>1. \A d \in Day : Safe(d) => Safe(d)'
    BY <1>2 DEF Safe, Reading, At
  <2>2. \A d \in Day : MarkSafe(d) => MarkSafe(d)'
    BY DEF MarkSafe, Marked, Drained
  <2>3. \A j \in Job : \A d : /\ Writing(j, d)' => Writing(j, d) /\ run'[j].seen = run[j].seen
                              /\ Writing(j, d) => Writing(j, d)'
    BY DEF Writing, At
  <2>4. \A d \in Day : daily'[d] = daily[d] /\ Input(d)' = Input(d)
    BY DEF Input
  <2> QED
    BY <1>2, <2>1, <2>2, <2>3, <2>4, CountsKept
<1>4. UploadInv'
  <2>1. \A d \in 1 .. today : d \in Day
    BY <1>1, Days DEF Day
  <2>2. \A d \in 1 .. today : Current(d) \/ Hit(d) => Current(d)' \/ Hit(d)'
    BY <1>2, <2>1
  <2>3. Marked' \subseteq Marked /\ today \in Int /\ today' \in Int
    BY <1>1 DEF Marked
  <2> QED
    BY <1>1, <2>2, <2>3, UploadKept DEF RollupInv
<1>5. PcInv'
  BY <1>1 DEF RollupInv, PcInv, JobOK
<1>6. DrainInv'
  <2>1. run["K06"].day # NoDay => run["K06"].day \in Day
    BY <1>1, Days DEF RollupInv, PcInv, JobOK, Job, Day
  <2>2. \A d \in Day : Current(d) \/ Hit(d) => Current(d)' \/ Hit(d)'
    BY <1>2
  <2>3. \A d \in {run["K06"].day} : d # NoDay /\ (Current(d) \/ Hit(d)) => Current(d)' \/ Hit(d)'
    BY <2>1, <2>2
  <2> QED
    BY <2>3 DEF RollupInv, DrainInv, Marked
<1>7. CalendarInv'
  BY <1>1 DEF RollupInv, CalendarInv, Marked
<1> QED
  BY <1>3, <1>4, <1>5, <1>6, <1>7 DEF RollupInv

LEMMA TurnKeeps == ASSUME RollupInv, DayTurns PROVE RollupInv'
<1>1. today \in 1 .. MaxDay /\ MaxDay \in Int
  BY Days DEF RollupInv, CalendarInv
<1>2. /\ today' = today + 1 /\ today < MaxDay /\ ~closeDue /\ closeDue'
      /\ closeDue' \in BOOLEAN /\ UNCHANGED <<segs, adj, upload, daily, marks, run, holes>>
  BY DEF DayTurns
<1>3. \A d \in Day : Current(d) => Current(d)'
  BY <1>1, <1>2, Days DEF Current
<1>4. today' \in today .. MaxDay /\ today' > 1
  BY <1>1, <1>2
<1> QED
  BY <1>2, <1>3, <1>4, CalendarMoves

LEMMA MissKeeps == ASSUME RollupInv, MissDayClose PROVE RollupInv'
<1>1. today \in 1 .. MaxDay /\ MaxDay \in Int
  BY Days DEF RollupInv, CalendarInv
<1>2. /\ today' = today /\ ~closeDue' /\ closeDue' \in BOOLEAN
      /\ UNCHANGED <<segs, adj, upload, daily, marks, run>>
      /\ holes' = holes \cup {<<today - 1, "missed">>}
  BY DEF MissDayClose, Hole, inputVars
<1>3. \A d \in Day : Current(d) => Current(d)' \/ Hit(d)'
  BY <1>2 DEF Current, Hit, Holes
<1>4. today' \in today .. MaxDay
  BY <1>1, <1>2
<1> QED
  BY <1>2, <1>3, <1>4, CalendarMoves

LEMMA DayCloseKeeps == ASSUME RollupInv, StartDayClose PROVE RollupInv'
<1> DEFINE r == Start("K05", today - 1)
<1>1. today \in 1 .. MaxDay /\ today > 1 /\ MaxDay \in Int /\ closeDue /\ run["K05"].pc = "idle"
      /\ "K05" \in Job /\ "K06" # "K05" /\ "K06" \in Job
  BY Days DEF RollupInv, CalendarInv, StartDayClose, At, Job
<1>2. run' = [run EXCEPT !["K05"] = r] /\ ~closeDue' /\ closeDue' \in BOOLEAN
      /\ UNCHANGED <<today, segs, adj, upload, daily, marks, holes>>
  BY DEF StartDayClose, inputVars
<1>3. r.pc = "read" /\ r.day = today - 1 /\ ~r.drain /\ IsJob(r)
  BY DEF Start, IdleJob, IsJob
<1>4. run'["K05"] = r /\ \A i \in Job : i # "K05" => run'[i] = run[i]
  BY <1>1, <1>2, JobChanged DEF RollupInv
<1> HIDE DEF r
<1>5. \A d : Hit(d) => Hit(d)'
  BY <1>2 DEF Hit
<1>6. \A d \in Day : Current(d) => Current(d)' \/ (Reading(d)' /\ d = today - 1)
  BY <1>1, <1>2, <1>3, <1>4 DEF Current, Reading, At
<1>7. WriteInv' /\ RowInv' /\ OneWriter'
  <2>1. \A d \in Day : Safe(d) => Safe(d)'
    BY <1>1, <1>4, <1>5, <1>6 DEF Safe, Reading, At
  <2>2. \A d \in Day : MarkSafe(d) => MarkSafe(d)'
    BY <1>1, <1>2, <1>4 DEF MarkSafe, Marked, Drained
  <2>3. \A j \in Job : \A d : /\ Writing(j, d)' => Writing(j, d) /\ run'[j].seen = run[j].seen
                              /\ Writing(j, d) => Writing(j, d)'
    BY <1>1, <1>3, <1>4 DEF Writing, At
  <2>4. \A d \in Day : daily'[d] = daily[d] /\ Input(d)' = Input(d)
    BY <1>2 DEF Input
  <2> QED
    BY <1>5, <2>1, <2>2, <2>3, <2>4, CountsKept
<1>8. UploadInv'
  <2>1. upload = NoUpload \/ upload.day = today \/ upload.late
    BY DEF StartDayClose, RollupInv, UploadInv, NoDay
  <2>2. Current(today)'
    BY <1>1, <1>2 DEF Current
  <2> QED
    BY <1>2, <2>1, <2>2 DEF RollupInv, UploadInv, Marked
<1>9. PcInv'
  <2>1. JobOK("K05", r, today') /\ today \in Int /\ today' \in Int /\ today <= today'
    BY <1>1, <1>2, <1>3 DEF JobOK, NoDay
  <2> QED
    BY <1>1, <1>2, <2>1, PcKept DEF RollupInv
<1>10. DrainInv'
  <2>1. run'["K06"] = run["K06"] /\ (run["K06"].day = today - 1 => run["K06"].drain)
    BY <1>1, <1>4 DEF StartDayClose
  <2>2. \A d : d # today - 1 => (Current(d) => Current(d)')
    BY <1>2 DEF Current
  <2>3. \A d \in {run["K06"].day} : d # today - 1 /\ (Current(d) \/ Hit(d)) => Current(d)' \/ Hit(d)'
    BY <1>5, <2>2
  <2> QED
    BY <1>2, <2>1, <2>3 DEF RollupInv, DrainInv, Marked
<1>11. CalendarInv'
  BY <1>1, <1>2 DEF RollupInv, CalendarInv, Marked
<1> QED
  BY <1>7, <1>8, <1>9, <1>10, <1>11 DEF RollupInv

LEMMA StartAdjustKeeps == ASSUME RollupInv, StartAdjust PROVE RollupInv'
<1>1. PICK d \in 1 .. today :
        run' = [run EXCEPT !["admin"] = [IdleJob EXCEPT !.pc = "adjust", !.day = d]]
  BY DEF StartAdjust
<1> DEFINE r == [IdleJob EXCEPT !.pc = "adjust", !.day = d]
<1>2. today \in 1 .. MaxDay /\ MaxDay \in Int /\ d # NoDay
  BY Days DEF RollupInv, CalendarInv, NoDay
<1>3. /\ "admin" \in Job /\ "admin" # "K06" /\ run["admin"].pc = "idle"
      /\ UNCHANGED <<inputVars, daily, marks, closeDue, holes>>
  BY DEF StartAdjust, At, Job
<1>4. r.pc = "adjust" /\ r.day = d /\ ~r.drain /\ IsJob(r)
  BY DEF IdleJob, IsJob
<1> HIDE DEF r
<1>5. JobOK("admin", r, today)
  BY <1>2, <1>4 DEF JobOK
<1>6. \A i \in Job : i # "admin" => run'[i] = run[i]
  BY <1>1, <1>3, JobChanged DEF RollupInv, r
<1>7. \A e \in Day : Drained(e)' => Drained(e)
  BY <1>3, <1>6 DEF Drained, Job
<1> QED
  BY <1>1, <1>3, <1>4, <1>5, <1>7, QuietJob DEF r

LEMMA AdjustKeeps == ASSUME RollupInv, Adjust PROVE RollupInv'
<1> DEFINE r == Start("admin", run["admin"].day)
<1>1. /\ "admin" \in Job /\ "K06" \in Job /\ "admin" # "K06" /\ run["admin"].pc = "adjust"
      /\ JobOK("admin", run["admin"], today)
  BY DEF RollupInv, PcInv, Adjust, At, Job
<1>2. run' = [run EXCEPT !["admin"] = r]
      /\ UNCHANGED <<today, segs, upload, daily, marks, closeDue, holes>>
  BY DEF Adjust
<1>3. r.pc = "read" /\ r.day = run["admin"].day /\ ~r.drain /\ IsJob(r)
  BY DEF Start, IdleJob, IsJob
<1>4. run'["admin"] = r /\ \A i \in Job : i # "admin" => run'[i] = run[i]
  BY <1>1, <1>2, JobChanged DEF RollupInv
<1>5. adj' = [d \in Day |-> adj'[d]] /\ \A d \in Day : d # run["admin"].day => adj'[d] = adj[d]
  BY DEF Adjust, RollupInv, CalendarInv
<1> HIDE DEF r
<1>6. \A d : (Current(d)' <=> Current(d)) /\ (Hit(d) => Hit(d)')
  BY <1>2, CalendarSame
<1>7. WriteInv' /\ RowInv' /\ OneWriter'
  <2>1. \A d \in Day : Safe(d) => Safe(d)'
    BY <1>1, <1>4, <1>6 DEF Safe, Reading, At
  <2>2. \A d \in Day : MarkSafe(d) => MarkSafe(d)'
    BY <1>1, <1>2, <1>4 DEF MarkSafe, Marked, Drained
  <2>3. \A j \in Job : \A d : /\ Writing(j, d)' => Writing(j, d) /\ run'[j].seen = run[j].seen
                              /\ Writing(j, d) => Writing(j, d)'
    BY <1>1, <1>3, <1>4 DEF Writing, At
  <2>4. \A d \in Day : d = run["admin"].day => Safe(d)'
    BY <1>1, <1>3, <1>4 DEF Safe, Reading, At
  <2>5. \A d \in Day : daily'[d] = daily[d] /\ (Input(d)' = Input(d) \/ Safe(d)')
    BY <1>2, <1>5, <2>4 DEF Input
  <2> QED
    BY <1>6, <2>1, <2>2, <2>3, <2>5, CountsKept
<1>8. today \in Int /\ today' \in Int /\ today <= today' /\ today' = today
  BY <1>2 DEF RollupInv, CalendarInv
<1>9. UploadInv'
  BY <1>2, <1>6, <1>8, UploadKept DEF RollupInv, Marked
<1>10. PcInv'
  <2>1. JobOK("admin", r, today')
    BY <1>1, <1>3, <1>8 DEF JobOK
  <2> QED
    BY <1>1, <1>2, <1>8, <2>1, PcKept DEF RollupInv
<1>11. DrainInv'
  <2>1. run'["K06"] = run["K06"]
    BY <1>1, <1>4
  <2> QED
    BY <1>2, <1>6, <2>1 DEF RollupInv, DrainInv, Marked
<1>12. CalendarInv'
  BY <1>2, <1>5 DEF RollupInv, CalendarInv, Marked
<1> QED
  BY <1>7, <1>9, <1>10, <1>11, <1>12 DEF RollupInv

LEMMA ClosingKeeps == ASSUME RollupInv, CloseMonth \/ ReopenMonth PROVE RollupInv'
<1>1. UNCHANGED <<today, segs, adj, upload, daily, marks, run, closeDue, holes>>
  BY DEF CloseMonth, ReopenMonth, inputVars
<1> QED
  BY <1>1, NothingMoved

LEMMA FailKeeps == ASSUME RollupInv, NEW j \in Job, Fail(j) PROVE RollupInv'
<1> DEFINE k == run["K06"]
<1>1. run' = [run EXCEPT ![j] = IdleJob] /\ "K06" \in Job
      /\ UNCHANGED <<today, segs, adj, upload, daily, marks, closeDue>>
  BY DEF Fail, inputVars, Job
<1>2. run'[j] = IdleJob /\ \A i \in Job : i # j => run'[i] = run[i]
  BY <1>1, JobChanged DEF RollupInv
<1>3. holes \subseteq holes'
  BY DEF Fail, Hole, Job
<1>4. \A d \in {run[j].day} : j # "K06" /\ run[j].pc # "adjust" => Hit(d)'
  BY DEF Fail, Hole, Hit, Holes, Job, At
<1>5. \A d : (Current(d)' <=> Current(d)) /\ (Hit(d) => Hit(d)')
  BY <1>1, <1>3, CalendarSame
<1>6. \A d \in {k.day} : d # NoDay => (k.drain /\ d \in Marked) \/ Current(d) \/ Hit(d)
  BY HeadTail DEF RollupInv, DrainInv
<1>7. \A d : Drained(d)' => Drained(d)
  BY <1>1, <1>2, IdleOK DEF Drained
<1>8. \A d \in Day : d = run[j].day /\ run[j].pc \in {"read", "write"} => Safe(d)' \/ MarkSafe(d)'
  <2> SUFFICES ASSUME NEW d \in Day, d = run[j].day, run[j].pc \in {"read", "write"}
               PROVE  Safe(d)' \/ MarkSafe(d)'
    OBVIOUS
  <2>1. CASE j # "K06"
    BY <1>4, <2>1 DEF Safe
  <2>2. CASE j = "K06"
    <3>1. (k.drain /\ d \in Marked) \/ Current(d) \/ Hit(d)
      BY <1>6, <2>2, Days
    <3>2. ~Drained(d)' /\ Marked' = Marked
      BY <1>1, <1>2, <2>2, IdleOK DEF Drained, Marked
    <3> QED
      BY <1>5, <3>1, <3>2 DEF Safe, MarkSafe
  <2> QED
    BY <2>1, <2>2
<1>9. WriteInv' /\ RowInv' /\ OneWriter'
  <2>1. \A d \in Day : Reading(d) => Reading(d)' \/ Safe(d)' \/ MarkSafe(d)'
    BY <1>2, <1>8 DEF Reading, At
  <2>2. \A d \in Day : Safe(d) => Safe(d)' \/ MarkSafe(d)'
    BY <1>5, <2>1 DEF Safe
  <2>3. \A d \in Day : MarkSafe(d) => MarkSafe(d)'
    BY <1>1, <1>7 DEF MarkSafe, Marked
  <2>4. \A i \in Job, d \in Day : /\ Writing(i, d)' => Writing(i, d) /\ run'[i].seen = run[i].seen
                                  /\ Writing(i, d) => Writing(i, d)' \/ Safe(d)' \/ MarkSafe(d)'
    BY <1>2, <1>8, IdleOK DEF Writing, At
  <2>5. \A d \in Day : daily'[d] = daily[d] /\ Input(d)' = Input(d)
    BY <1>1 DEF Input
  <2> QED
    BY <1>5, <2>2, <2>3, <2>4, <2>5, CountsKept
<1>10. today \in Int /\ today' \in Int /\ today <= today' /\ today' = today
  BY <1>1 DEF RollupInv, CalendarInv
<1>11. UploadInv'
  BY <1>1, <1>5, <1>10, UploadKept DEF RollupInv, Marked
<1>12. PcInv'
  BY <1>1, <1>10, IdleOK, PcKept DEF RollupInv
<1>13. DrainInv'
  <2>1. CASE j # "K06"
    BY <1>1, <1>2, <1>5, <2>1 DEF RollupInv, DrainInv, Marked
  <2>2. CASE j = "K06"
    BY <1>2, <2>2, IdleOK, NoList DEF DrainInv
  <2> QED
    BY <2>1, <2>2
<1>14. CalendarInv'
  BY <1>1 DEF RollupInv, CalendarInv, Marked
<1> QED
  BY <1>9, <1>11, <1>12, <1>13, <1>14 DEF RollupInv

LEMMA BeginKeeps == ASSUME RollupInv, BeginUpload PROVE RollupInv'
<1>1. UNCHANGED <<today, segs, adj, daily, marks, run, closeDue, holes>>
  BY DEF BeginUpload
<1>2. WriteInv' /\ RowInv' /\ OneWriter' /\ DrainInv' /\ PcInv' /\ CalendarInv'
  <2> USE DEF Writing, Safe, MarkSafe, Drained, Reading, Current, Hit, Marked, At, Input
  <2>1. WriteInv' /\ RowInv' /\ OneWriter'
    BY <1>1 DEF RollupInv, WriteInv, RowInv, OneWriter
  <2>2. DrainInv' /\ CalendarInv'
    BY <1>1 DEF RollupInv, DrainInv, CalendarInv
  <2>3. PcInv'
    BY <1>1 DEF RollupInv, PcInv
  <2> QED
    BY <2>1, <2>2, <2>3
<1>3. UploadInv'
  <2>1. PICK d \in 1 .. today, skew \in Skews :
          upload' = [day |-> d, skewed |-> skew # 0, late |-> IsLate(d, today + skew),
                     mark |-> NeedsMark(d, IsLate(d, today + skew))]
    BY DEF BeginUpload
  <2>2. today \in Nat /\ skew \in Int /\ d \in Nat
    BY Days, RollupAssumption DEF RollupInv, CalendarInv
  <2>3. skew = 0 /\ ~IsLate(d, today + skew) => Current(d)'
    BY <1>1, <2>2 DEF IsLate, Current
  <2> DEFINE late == IsLate(d, today + skew)
             mark == NeedsMark(d, late)
  <2>4. /\ upload' = [day |-> d, skewed |-> skew # 0, late |-> late, mark |-> mark]
        /\ late \in BOOLEAN /\ mark \in BOOLEAN /\ (skew # 0) \in BOOLEAN
        /\ (mark => d \notin Marked /\ late)
    BY <2>1 DEF IsLate, NeedsMark
  <2> HIDE DEF late, mark
  <2>5. upload'.day = d /\ upload'.skewed = (skew # 0) /\ upload'.late = late /\ upload'.mark = mark
    BY <2>4
  <2>6. upload' \in [day : Nat, skewed : BOOLEAN, late : BOOLEAN, mark : BOOLEAN]
    BY <2>2, <2>4
  <2>7. upload'.mark => d \notin Marked' /\ upload'.late
    BY <1>1, <2>4, <2>5 DEF Marked
  <2>8. upload'.late \/ upload'.skewed \/ Current(d)'
    BY <2>3, <2>5 DEF late
  <2> HIDE DEF UploadInv
  <2> QED
    BY <1>1, <2>5, <2>6, <2>7, <2>8 DEF UploadInv
<1> QED
  BY <1>2, <1>3 DEF RollupInv

\* A list and one more.
LEMMA OneMore ==
  ASSUME NEW S, NEW s \in Seq(S), NEW e \in S
  PROVE  /\ Append(s, e) \in Seq(S) /\ Range(Append(s, e)) = Range(s) \cup {e}
         /\ IsInjective(s) /\ e \notin Range(s) => IsInjective(Append(s, e))
<1> DEFINE t == Append(s, e)
<1>1. /\ t \in Seq(S) /\ Len(s) \in Nat /\ DOMAIN s = 1 .. Len(s) /\ DOMAIN t = 1 .. Len(s) + 1
      /\ \A i \in 1 .. Len(s) : t[i] = s[i]
      /\ t[Len(s) + 1] = e
  OBVIOUS
<1> HIDE DEF t
<1>2. \A i \in 1 .. Len(s) + 1 : i \in 1 .. Len(s) \/ i = Len(s) + 1
  BY <1>1
<1>3. Range(t) = Range(s) \cup {e}
  <2>1. Range(t) \subseteq Range(s) \cup {e}
    BY <1>1, <1>2 DEF Range
  <2>2. \A i \in 1 .. Len(s) : i \in 1 .. Len(s) + 1
    BY <1>1
  <2>3. Range(s) \cup {e} \subseteq Range(t)
    <3>1. Len(s) + 1 \in DOMAIN t
      BY <1>1
    <3>2. e \in Range(t)
      BY <1>1, <3>1 DEF Range
    <3>3. Range(s) \subseteq Range(t)
      BY <1>1, <2>2 DEF Range
    <3> QED
      BY <3>2, <3>3
  <2> QED
    BY <2>1, <2>3
<1>4. IsInjective(s) /\ e \notin Range(s) => IsInjective(t)
  <2> SUFFICES ASSUME IsInjective(s), e \notin Range(s),
                      NEW i \in 1 .. Len(s) + 1, NEW j \in 1 .. Len(s) + 1, t[i] = t[j]
               PROVE  i = j
    BY <1>1 DEF IsInjective
  <2>1. \A x \in 1 .. Len(s) : s[x] # e
    BY <1>1 DEF Range
  <2>2. \A x, y \in 1 .. Len(s) : s[x] = s[y] => x = y
    BY <1>1 DEF IsInjective
  <2> QED
    BY <1>1, <1>2, <2>1, <2>2
<1> QED
  BY <1>1, <1>3, <1>4 DEF t

LEMMA CommitKeeps == ASSUME RollupInv, CommitUpload PROVE RollupInv'
<1> DEFINE d == upload.day
           crossed == upload.late /\ ~upload.mark
                      /\ (d \notin Marked \/ (Draining(d) /\ ~At("K06", "read")))
           skewed == d < today /\ upload.skewed /\ ~upload.late /\ ~(closeDue /\ d = today - 1)
<1>1. /\ upload # NoUpload /\ upload' = NoUpload
      /\ UNCHANGED <<today, adj, daily, run, closeDue>>
      /\ marks' = IF upload.mark THEN Append(marks, d) ELSE marks
      /\ holes' = holes \cup {<<d, why>> : why \in {w \in {"raced"} : crossed}
                                                \cup {w \in {"skewed"} : skewed}}
  BY DEF CommitUpload
<1>2. segs' = [e \in Day |-> segs'[e]] /\ \A e \in Day : e # d => segs'[e] = segs[e]
  BY DEF CommitUpload, RollupInv, CalendarInv
<1>3. /\ d \in 1 .. today /\ today \in 1 .. MaxDay /\ MaxDay \in Int /\ d \in Day
      /\ (upload.mark => d \notin Marked /\ upload.late)
      /\ (upload.late \/ upload.skewed \/ Current(d) \/ Hit(d))
      /\ upload \in [day : Nat, skewed : BOOLEAN, late : BOOLEAN, mark : BOOLEAN]
  BY <1>1, Days DEF RollupInv, UploadInv, CalendarInv, Day
<1>4. /\ marks' \in Seq(Day) /\ IsInjective(marks)' /\ Marked \subseteq Marked'
      /\ Marked' \subseteq Marked \cup {d}
      /\ (upload.mark => d \in Marked')
  <2>1. CASE upload.mark
    BY <1>1, <1>3, <2>1, OneMore DEF RollupInv, CalendarInv, Marked
  <2>2. CASE ~upload.mark
    BY <1>1, <2>2 DEF RollupInv, CalendarInv, Marked
  <2> QED
    BY <2>1, <2>2
<1>5. \A e \in {d} : (crossed => Hit(e)') /\ (skewed => Hit(e)')
  BY <1>1 DEF Hit, Holes
<1>6. \A e : (Current(e)' <=> Current(e)) /\ (Hit(e) => Hit(e)') /\ (Drained(e)' <=> Drained(e))
  <2>1. holes \subseteq holes'
    BY <1>1
  <2> QED
    BY <1>1, <2>1, CalendarSame DEF Drained
<1> HIDE DEF crossed, skewed
\* Nothing of the day that comes in is lost.
<1>7. \A e \in {d} : Safe(e)' \/ MarkSafe(e)'
  <2>1. SUFFICES ASSUME NEW e, e = d PROVE Safe(e)' \/ MarkSafe(e)'
    OBVIOUS
  <2>2. CASE upload.mark
    <3>1. ~Drained(e)
      BY <1>3, <2>1, <2>2, HeadTail DEF RollupInv, DrainInv, Drained, NoDay
    <3> QED
      BY <1>4, <1>6, <2>1, <2>2, <3>1 DEF MarkSafe
  <2>3. CASE ~upload.mark /\ upload.late
    <3>1. crossed \/ (e \in Marked /\ ~Drained(e))
      BY <2>1, <2>3 DEF crossed, Drained, Draining, At
    <3> QED
      BY <1>4, <1>5, <1>6, <2>1, <3>1 DEF MarkSafe, Safe
  <2>4. CASE ~upload.late
    <3>1. Current(e) \/ Hit(e) \/ skewed
      BY <1>3, <2>1, <2>4 DEF skewed, Current
    <3> QED
      BY <1>5, <1>6, <2>1, <3>1 DEF Safe
  <2> QED
    BY <1>3, <2>2, <2>3, <2>4
<1>8. WriteInv' /\ RowInv' /\ OneWriter'
  <2>1. \A e \in Day : Safe(e) => Safe(e)'
    BY <1>1, <1>6 DEF Safe, Reading, At
  <2>2. \A e \in Day : MarkSafe(e) => MarkSafe(e)'
    BY <1>4, <1>6 DEF MarkSafe
  <2>3. \A j \in Job : \A e : /\ Writing(j, e)' => Writing(j, e) /\ run'[j].seen = run[j].seen
                              /\ Writing(j, e) => Writing(j, e)'
    BY <1>1 DEF Writing, At
  <2>4. \A e \in Day : daily'[e] = daily[e] /\ (Input(e)' = Input(e) \/ Safe(e)' \/ MarkSafe(e)')
    BY <1>1, <1>2, <1>7 DEF Input
  <2> QED
    BY <1>6, <2>1, <2>2, <2>3, <2>4, CountsKept
<1>9. UploadInv'
  BY <1>1 DEF UploadInv, NoUpload, NoDay
<1>10. PcInv'
  BY <1>1 DEF RollupInv, PcInv
<1>11. DrainInv'
  BY <1>1, <1>4, <1>6 DEF RollupInv, DrainInv
<1>12. CalendarInv'
  BY <1>1, <1>2, <1>3, <1>4 DEF RollupInv, CalendarInv
<1> QED
  BY <1>8, <1>9, <1>10, <1>11, <1>12 DEF RollupInv

LEMMA ReadKeeps == ASSUME RollupInv, NEW j \in Job, Read(j) PROVE RollupInv'
<1> DEFINE d == run[j].day
           r == [run[j] EXCEPT !.pc = "write", !.seen = Input(d)]
           overlaps == \E i \in Job \ {j} : At(i, "write") /\ run[i].day = d
<1>1. /\ run' = [run EXCEPT ![j] = r] /\ run[j].pc = "read"
      /\ UNCHANGED <<today, segs, adj, upload, daily, marks, closeDue>>
  BY DEF Read, At, inputVars
<1>2. /\ JobOK(j, run[j], today) /\ today \in 1 .. MaxDay /\ MaxDay \in Int /\ d \in 1 .. today
      /\ d \in Day
  BY <1>1, Days DEF RollupInv, PcInv, JobOK, CalendarInv, Day
<1>3. /\ r.pc = "write" /\ r.day = d /\ r.seen = Input(d) /\ r.drain = run[j].drain
      /\ r.list = run[j].list /\ r.open = run[j].open /\ IsJob(r)
  BY <1>2 DEF JobOK, IsJob
<1>4. run'[j] = r /\ \A i \in Job : i # j => run'[i] = run[i]
  BY <1>1, JobChanged DEF RollupInv
<1>5. \A e \in {d} : /\ overlaps => Hit(e)'
                     /\ \A i \in Job : i # j /\ Writing(i, e) => Hit(e)'
  BY DEF Read, Hole, Hit, Holes, Writing
<1>6. \A e : (Current(e)' <=> Current(e)) /\ (Hit(e) => Hit(e)')
  <2>1. holes \subseteq holes'
    BY DEF Read, Hole
  <2> QED
    BY <1>1, <2>1, CalendarSame
<1> HIDE DEF r, overlaps
<1>7. \A e \in Day : e # d => /\ Safe(e) => Safe(e)'
                              /\ MarkSafe(e) => MarkSafe(e)'
  <2>1. \A e \in Day : e # d => (Safe(e) => Safe(e)')
    BY <1>1, <1>4, <1>6 DEF Safe, Reading, At
  <2>2. \A e \in Day : e # d => (MarkSafe(e) => MarkSafe(e)')
    BY <1>1, <1>3, <1>4 DEF MarkSafe, Marked, Drained, Job
  <2> QED
    BY <2>1, <2>2
<1>8. \A i \in Job : \A e : /\ i # j => (Writing(i, e)' <=> Writing(i, e)) /\ run'[i].seen = run[i].seen
                            /\ Writing(j, e)' <=> e = d
  BY <1>3, <1>4 DEF Writing, At
<1>9. \A e : Input(e)' = Input(e)
  BY <1>1 DEF Input
<1>10. WriteInv'
  <2> SUFFICES ASSUME NEW i \in Job, NEW e \in Day, Writing(i, e)'
               PROVE  run'[i].seen = Input(e)' \/ Safe(e)' \/ MarkSafe(e)'
    BY DEF WriteInv
  <2>1. CASE i = j
    BY <1>3, <1>4, <1>8, <1>9, <2>1
  <2>2. CASE i # j /\ e = d
    BY <1>5, <1>8, <2>2 DEF Safe
  <2>3. CASE i # j /\ e # d
    <3>1. run[i].seen = Input(e) \/ Safe(e) \/ MarkSafe(e)
      BY <1>8, <2>3 DEF RollupInv, WriteInv
    <3> QED
      BY <1>7, <1>8, <1>9, <2>3, <3>1
  <2> QED
    BY <2>1, <2>2, <2>3
<1>11. RowInv'
  <2> SUFFICES ASSUME NEW e \in Day
               PROVE  \/ daily'[e] = Input(e)' \/ Safe(e)' \/ MarkSafe(e)'
                      \/ \E i \in Job : Writing(i, e)'
    BY DEF RowInv
  <2>1. CASE e = d
    BY <1>8, <2>1
  <2>2. CASE e # d
    <3>1. \/ daily[e] = Input(e) \/ Safe(e) \/ MarkSafe(e)
          \/ \E i \in Job : Writing(i, e)
      BY DEF RollupInv, RowInv
    <3>2. ~Writing(j, e)
      BY <1>1 DEF Writing, At
    <3> QED
      BY <1>1, <1>7, <1>8, <1>9, <2>2, <3>1, <3>2
  <2> QED
    BY <2>1, <2>2
<1>12. OneWriter'
  <2> SUFFICES ASSUME NEW i \in Job, NEW n \in Job, NEW e \in Day, Writing(i, e)', Writing(n, e)', i # n
               PROVE  Hit(e)'
    BY DEF OneWriter
  <2>1. CASE i # j /\ n # j
    BY <1>6, <1>8, <2>1 DEF RollupInv, OneWriter
  <2>2. CASE i = j \/ n = j
    BY <1>5, <1>8, <2>2
  <2> QED
    BY <2>1, <2>2
<1>13. today \in Int /\ today' \in Int /\ today <= today' /\ today' = today
  BY <1>1, <1>2
<1>14. UploadInv'
  BY <1>1, <1>6, <1>13, UploadKept DEF RollupInv, Marked
<1>15. PcInv'
  <2>1. JobOK(j, r, today')
    BY <1>1, <1>2, <1>3, <1>13 DEF JobOK
  <2> QED
    BY <1>1, <1>13, <2>1, PcKept DEF RollupInv
<1>16. DrainInv'
  <2>1. CASE j # "K06"
    BY <1>1, <1>4, <1>6, <2>1 DEF RollupInv, DrainInv, Marked, Job
  <2>2. CASE j = "K06"
    BY <1>1, <1>3, <1>4, <1>6, <2>2 DEF RollupInv, DrainInv, Marked
  <2> QED
    BY <2>1, <2>2
<1>17. CalendarInv'
  BY <1>1 DEF RollupInv, CalendarInv, Marked
<1> QED
  BY <1>10, <1>11, <1>12, <1>14, <1>15, <1>16, <1>17 DEF RollupInv

LEMMA WriteDayKeeps == ASSUME RollupInv, NEW j \in Job, WriteDay(j) PROVE RollupInv'
<1> DEFINE d == run[j].day
           open == MonthOf(d) \notin closed
           r == IF PassesGate(open) THEN [run[j] EXCEPT !.pc = "sum", !.seen = Nothing, !.open = open]
                ELSE [Finished(j) EXCEPT !.seen = Nothing]
<1>1. /\ run' = [run EXCEPT ![j] = r] /\ run[j].pc = "write"
      /\ UNCHANGED <<today, segs, adj, upload, marks, closeDue, holes>>
      /\ daily' = [daily EXCEPT ![d] = run[j].seen]
  BY DEF WriteDay, At, inputVars
<1>2. /\ JobOK(j, run[j], today) /\ today \in 1 .. MaxDay /\ MaxDay \in Int /\ d \in 1 .. today
      /\ d \in Day
  BY <1>1, Days DEF RollupInv, PcInv, JobOK, CalendarInv, Day
<1>3. /\ r.pc \in {"sum", "idle", "list", "unmark"} /\ JobOK(j, r, today)
      /\ j = "K06" => /\ r.day = d /\ r.drain = run[j].drain /\ r.list = run[j].list
                      /\ r.pc = "unmark" => r.drain
  <2>1. CASE open
    <3>1. /\ r.pc = "sum" /\ r.day = d /\ r.drain = run[j].drain /\ r.list = run[j].list
          /\ r.open /\ IsJob(r)
      BY <1>2, <2>1 DEF PassesGate, JobOK, IsJob
    <3> HIDE DEF r
    <3> QED
      BY <1>1, <1>2, <3>1 DEF JobOK
  <2>2. CASE ~open
    <3>1. r = [Finished(j) EXCEPT !.seen = Nothing]
      BY <2>2 DEF PassesGate
    <3> HIDE DEF r
    <3>2. JobOK(j, Finished(j), today)
      BY <1>1, FinishedIs
    <3>3. /\ r.pc = Finished(j).pc /\ r.day = Finished(j).day /\ r.drain = Finished(j).drain
          /\ r.list = Finished(j).list /\ r.open = Finished(j).open /\ IsJob(r)
      BY <3>1, <3>2 DEF JobOK, IsJob
    <3>4. JobOK(j, r, today)
      BY <3>2, <3>3 DEF JobOK
    <3> QED
      BY <1>1, <3>3, <3>4, FinishedIs
  <2> QED
    BY <2>1, <2>2
<1>4. run'[j] = r /\ \A i \in Job : i # j => run'[i] = run[i]
  BY <1>1, JobChanged DEF RollupInv
<1> HIDE DEF r
<1>5. \A e : (Current(e)' <=> Current(e)) /\ (Hit(e) => Hit(e)')
  BY <1>1, CalendarSame
<1>6. \A e : Input(e)' = Input(e)
  BY <1>1 DEF Input
<1>7. \A e \in Day : Safe(e) => Safe(e)'
  BY <1>1, <1>4, <1>5 DEF Safe, Reading, At
<1>8. \A e \in Day : MarkSafe(e) => MarkSafe(e)'
  <2>1. \A e : Drained(e)' => Drained(e)
    BY <1>1, <1>3, <1>4 DEF Drained, Job
  <2> QED
    BY <1>1, <2>1 DEF MarkSafe, Marked
<1>9. run[j].seen = Input(d) \/ Safe(d) \/ MarkSafe(d)
  BY <1>1, <1>2 DEF RollupInv, WriteInv, Writing, At
<1>10. /\ \A e \in Day : e # d => daily'[e] = daily[e]
       /\ daily'[d] = run[j].seen /\ daily' = [e \in Day |-> daily'[e]]
  BY <1>1, <1>2 DEF RollupInv, CalendarInv
<1>11. \A e \in {d} : daily'[e] = Input(e)' \/ Safe(e)' \/ MarkSafe(e)'
  BY <1>2, <1>6, <1>7, <1>8, <1>9, <1>10
<1>12. WriteInv' /\ RowInv' /\ OneWriter'
  <2>1. \A i \in Job, e \in Day :
          /\ Writing(i, e)' => Writing(i, e) /\ run'[i].seen = run[i].seen
          /\ Writing(i, e) => Writing(i, e)' \/ e = d
    BY <1>3, <1>4 DEF Writing, At
  <2>2. \A e \in Day : \/ daily'[e] \in {daily[e], Input(e)} /\ Input(e)' = Input(e)
                       \/ Safe(e)' \/ MarkSafe(e)'
    BY <1>6, <1>10, <1>11
  <2>3. \A i \in Job, e \in Day : Writing(i, e) => \/ Writing(i, e)' \/ Safe(e)' \/ MarkSafe(e)'
                                                   \/ daily'[e] = Input(e)'
    BY <1>11, <2>1
  <2> QED
    BY <1>5, <1>7, <1>8, <2>1, <2>2, <2>3, CountsKept
<1>13. today \in Int /\ today' \in Int /\ today <= today' /\ today' = today
  BY <1>1, <1>2
<1>14. UploadInv'
  BY <1>1, <1>5, <1>13, UploadKept DEF RollupInv, Marked
<1>15. PcInv'
  BY <1>1, <1>3, <1>13, PcKept DEF RollupInv
<1>16. DrainInv'
  <2>1. CASE j # "K06"
    BY <1>1, <1>4, <1>5, <2>1 DEF RollupInv, DrainInv, Marked, Job
  <2>2. CASE j = "K06"
    BY <1>1, <1>3, <1>4, <1>5, <2>2 DEF RollupInv, DrainInv, Marked
  <2> QED
    BY <2>1, <2>2
<1>17. CalendarInv'
  BY <1>1, <1>10 DEF RollupInv, CalendarInv, Marked
<1> QED
  BY <1>12, <1>14, <1>15, <1>16, <1>17 DEF RollupInv

-----------------------------------------------------------------------------
\* The invariant.

LEMMA RollupStarts == RollupInit => RollupInv
<1> SUFFICES ASSUME RollupInit PROVE RollupInv
  OBVIOUS
<1>1. /\ today = 1 /\ segs = [d \in Day |-> 0] /\ adj = [d \in Day |-> 0]
      /\ daily = [d \in Day |-> Nothing] /\ marks = <<>> /\ upload = NoUpload
      /\ run = [j \in Job |-> IdleJob] /\ closeDue = FALSE /\ holes = {}
  BY DEF RollupInit
<1>2. \A j \in Job : run[j] = IdleJob
  BY <1>1
<1>3. WriteInv /\ OneWriter
  BY <1>2, IdleOK DEF WriteInv, OneWriter, Writing, At
<1>4. RowInv
  BY <1>1 DEF RowInv, Input, Nothing
<1>5. DrainInv
  <2>1. "K06" \in Job
    BY DEF Job
  <2> QED
    BY <1>2, <2>1, IdleOK, NoList DEF DrainInv
<1>6. UploadInv
  BY <1>1 DEF UploadInv, NoUpload, NoDay
<1>7. PcInv
  BY <1>1, <1>2, IdleOK DEF PcInv
<1>8. CalendarInv
  <2>1. today \in 1 .. MaxDay
    <3>1. MaxDay \in Nat /\ MaxDay >= 1
      BY Days
    <3> QED
      BY <1>1, <3>1
  <2>2. marks \in Seq(Day) /\ IsInjective(marks) /\ Marked = {}
    BY <1>1, NoList DEF Marked
  <2>3. closeDue \in BOOLEAN /\ ~closeDue
    BY <1>1
  <2>4. /\ segs = [d \in Day |-> segs[d]] /\ adj = [d \in Day |-> adj[d]]
        /\ daily = [d \in Day |-> daily[d]]
    BY <1>1
  <2> QED
    BY <2>1, <2>2, <2>3, <2>4 DEF CalendarInv
<1> QED
  BY <1>3, <1>4, <1>5, <1>6, <1>7, <1>8 DEF RollupInv

LEMMA RollupKept == RollupInv /\ [RollupNext]_rollupVars => RollupInv'
<1> SUFFICES ASSUME RollupInv, [RollupNext]_rollupVars PROVE RollupInv'
  OBVIOUS
<1>1. ASSUME NEW j \in Job, Recount(j) PROVE RollupInv'
  BY <1>1, ReadKeeps, WriteDayKeeps, SumKeeps, WriteMonthKeeps DEF Recount
<1>2. "K05" \in Job /\ "K06" \in Job /\ "admin" \in Job
  BY DEF Job
<1>3. CASE BeginUpload \/ CommitUpload
  BY <1>3, BeginKeeps, CommitKeeps
<1>4. CASE SummaryTick
  BY <1>1, <1>2, <1>4, StartKeeps, ListKeeps, NextKeeps, UnmarkKeeps DEF SummaryTick
<1>5. CASE DayTurns \/ MissDayClose
  BY <1>5, TurnKeeps, MissKeeps
<1>6. CASE DayClose
  BY <1>1, <1>2, <1>6, DayCloseKeeps DEF DayClose
<1>7. CASE StartAdjust \/ Adjust \/ Recount("admin")
  BY <1>1, <1>2, <1>7, StartAdjustKeeps, AdjustKeeps
<1>8. CASE CloseMonth \/ ReopenMonth
  BY <1>8, ClosingKeeps
<1>9. CASE \E j \in Job : Fail(j)
  BY <1>9, FailKeeps
<1>10. CASE UNCHANGED rollupVars
  BY <1>10, NothingMoved DEF rollupVars, inputVars
<1> QED
  BY <1>3, <1>4, <1>5, <1>6, <1>7, <1>8, <1>9, <1>10 DEF RollupNext

LEMMA RollupHolds == RollupSpec => []RollupInv
BY RollupStarts, RollupKept, PTL DEF RollupSpec

(***************************************************************************)
(* The row of a day that is over is what its segments and adjustments say, *)
(* or the day will be counted again, or a known hole explains it: whatever *)
(* the order of uploads, ticks, day closes, adjustments and failures, and  *)
(* however many marks a tick takes (segments.service.ts, summary.service). *)
(***************************************************************************)
THEOREM HoursArrive == RollupSpec => []LateHoursCounted
<1>1. ASSUME RollupInv PROVE LateHoursCounted
  <2> USE <1>1
  <2> SUFFICES ASSUME NEW d \in 1 .. today - 1
               PROVE  daily[d] = Input(d) \/ WillCount(d) \/ Hit(d)
    BY DEF LateHoursCounted, CountedExcept, Hit
  <2>1. today \in 1 .. MaxDay /\ MaxDay \in Int /\ d \in Day
    BY Days DEF RollupInv, CalendarInv, Day
  <2>2. Safe(d) => WillCount(d) \/ Hit(d)
    BY <2>1 DEF Safe, Current, Reading, WillCount
  <2>3. MarkSafe(d) => WillCount(d)
    BY DEF MarkSafe, WillCount
  <2>4. \A j \in Job : Writing(j, d) => WillCount(d) \/ Safe(d) \/ MarkSafe(d)
    BY <2>1 DEF RollupInv, WriteInv, WillCount, Writing
  <2> QED
    BY <2>1, <2>2, <2>3, <2>4 DEF RollupInv, RowInv
<1> QED
  BY <1>1, RollupHolds, PTL

\* A step leaves the figures of a closed month alone, or a recount is under way that had
\* found it open.
Frozen == \A m \in closed \cap closed' :
            monthly'[m] = monthly[m] \/ \E j \in Job : MonthOf(run[j].day) = m /\ run[j].open

(***************************************************************************)
(* A closed month keeps its figures, but for a recount that had looked at  *)
(* the closures just before (SummaryService.refreshMonth).                 *)
(***************************************************************************)
THEOREM FiguresStay == RollupSpec => ClosedMonthFrozen
<1>1. ASSUME RollupInv, [RollupNext]_rollupVars PROVE [Frozen]_rollupVars
  <2> USE <1>1
  <2> SUFFICES ASSUME RollupNext, NEW m \in closed \cap closed',
                      ~\E j \in Job : MonthOf(run[j].day) = m /\ run[j].open
               PROVE  monthly'[m] = monthly[m]
    BY DEF Frozen
  <2>1. ASSUME NEW j \in Job, WriteMonth(j) PROVE monthly'[m] = monthly[m]
    <3>1. run[j].open
      BY <2>1 DEF RollupInv, PcInv, JobOK, WriteMonth, At
    <3>2. MonthOf(run[j].day) # m
      BY <3>1
    <3> QED
      BY <2>1, <3>2 DEF WriteMonth
  <2>2. ASSUME NEW j \in Job, Recount(j) PROVE monthly'[m] = monthly[m]
    BY <2>1, <2>2 DEF Recount, Read, WriteDay, SumMonth
  <2>3. "K05" \in Job /\ "K06" \in Job /\ "admin" \in Job
    BY DEF Job
  <2>4. CASE SummaryTick \/ DayClose \/ Recount("admin")
    BY <2>2, <2>3, <2>4
       DEF SummaryTick, DayClose, StartTick, ListMarks, NextMark, Unmark, StartDayClose
  <2>5. CASE \/ BeginUpload \/ CommitUpload \/ DayTurns \/ MissDayClose \/ StartAdjust \/ Adjust
             \/ CloseMonth \/ ReopenMonth \/ \E j \in Job : Fail(j)
    BY <2>5 DEF BeginUpload, CommitUpload, DayTurns, MissDayClose, StartAdjust, Adjust,
                CloseMonth, ReopenMonth, Fail
  <2> QED
    BY <2>4, <2>5 DEF RollupNext
<1>2. RollupSpec => [][Frozen]_rollupVars
  BY <1>1, RollupHolds, PTL DEF RollupSpec
<1> QED
  BY <1>2 DEF Frozen, ClosedMonthFrozen

LEMMA QuotientsGrow ==
  ASSUME NEW L \in Nat \ {0}, NEW a \in Nat, NEW b \in Nat, a <= b
  PROVE  a \div L \in Nat /\ b \div L \in Nat /\ a \div L <= b \div L
<1> DEFINE p == a \div L
           q == b \div L
<1>1. /\ p \in Int /\ L * p <= a /\ a < L * p + L
      /\ q \in Int /\ L * q <= b /\ b < L * q + L
  OBVIOUS
<1> HIDE DEF p, q
<1>2. p \in Nat /\ q \in Nat
  BY <1>1
<1>3. ASSUME p > q PROVE FALSE
  <2>1. PICK k \in Nat : p = q + 1 + k
    BY <1>1, <1>2, <1>3
  <2>2. L * p = L * q + L + L * k /\ L * k \in Nat /\ L * q \in Nat
    BY <1>2, <2>1
  <2> QED
    BY <1>1, <2>2
<1> QED
  BY <1>2, <1>3 DEF p, q

\* Later days are in no earlier months.
LEMMA MonthsGrow ==
  \A d, e \in Day : d <= e => MonthOf(d) \in Int /\ MonthOf(e) \in Int /\ MonthOf(d) <= MonthOf(e)
<1> SUFFICES ASSUME NEW d \in Day, NEW e \in Day, d <= e
             PROVE  MonthOf(d) \in Int /\ MonthOf(e) \in Int /\ MonthOf(d) <= MonthOf(e)
  OBVIOUS
<1>1. d + MonthLength - 1 \in Nat /\ e + MonthLength - 1 \in Nat /\ MonthLength \in Nat \ {0}
      /\ d + MonthLength - 1 <= e + MonthLength - 1
  BY CalendarAssumption DEF Day
<1> QED
  BY <1>1, QuotientsGrow DEF MonthOf

MonthRows(m) == [{d \in Day : MonthOf(d) = m} -> SummaryRow]
JobSteps == {"idle", "read", "write", "sum", "put", "list", "mark", "unmark", "adjust"}

\* What a job has in hand: what it counted, and a month of rows once it has read them.
HandOK(r) == /\ r.seen \in SummaryRow /\ r.pc \in JobSteps
             /\ r.pc = "put" => r.rows \in MonthRows(MonthOf(r.day))

CountsInv ==
  /\ segs \in [Day -> Nat] /\ adj \in [Day -> Nat] /\ daily \in [Day -> SummaryRow]
  /\ monthly = [m \in Month |-> monthly[m]] /\ \A m \in Month : monthly[m] \in MonthRows(m)
  /\ closed \subseteq {m \in Month : m < MonthOf(today)}
  /\ \A j \in Job : HandOK(run[j])
  /\ holes \subseteq Day \X Holes

LEMMA NothingIsRow == Nothing \in SummaryRow /\ HandOK(IdleJob)
BY DEF Nothing, SummaryRow, HandOK, IdleJob, JobSteps

\* The days that jobs and uploads are about are days.
LEMMA DaysAtHand ==
  ASSUME RollupInv
  PROVE  /\ today \in Day
         /\ \A j \in Job : IsJob(run[j]) /\ (run[j].day # NoDay => run[j].day \in Day)
         /\ \A j \in Job : run[j].pc \in {"read", "write", "sum", "put", "adjust"} => run[j].day \in Day
         /\ upload # NoUpload => upload.day \in Day
<1>1. today \in Day
  BY DEF RollupInv, CalendarInv, Day
<1>2. \A j \in Job : JobOK(j, run[j], today)
  BY DEF RollupInv, PcInv
<1>3. \A d \in 1 .. today : d \in Day
  BY <1>1, Days
<1>4. upload # NoUpload => upload.day \in 1 .. today
  BY DEF RollupInv, UploadInv
<1> QED
  BY <1>1, <1>2, <1>3, <1>4 DEF JobOK

\* A step of one job that touches none of the rows.
LEMMA HandChanged ==
  ASSUME RollupInv, CountsInv, NEW j \in Job, NEW r, HandOK(r), run' = [run EXCEPT ![j] = r],
         UNCHANGED <<today, segs, adj, daily, monthly, closed>>, holes' \subseteq Day \X Holes
  PROVE  CountsInv'
<1>1. \A i \in Job : run'[i] = IF i = j THEN r ELSE run[i]
  BY DEF RollupInv, PcInv
<1> QED
  BY <1>1 DEF CountsInv

LEMMA HoleTyped ==
  ASSUME CountsInv, NEW d \in Day, NEW why \in Holes, NEW if \in BOOLEAN
  PROVE  Hole(d, why, if) \subseteq Day \X Holes
BY DEF CountsInv, Hole

\* What a recount leaves of its job.
LEMMA FinishedTyped ==
  ASSUME RollupInv, CountsInv, NEW j \in Job
  PROVE  /\ HandOK([Finished(j) EXCEPT !.seen = Nothing])
         /\ HandOK([Finished(j) EXCEPT !.open = FALSE, !.rows = <<>>])
<1>1. IsJob(run[j]) /\ run[j].seen \in SummaryRow
  BY DaysAtHand DEF CountsInv, HandOK
<1>2. CASE j # "K06"
  BY <1>2, NothingIsRow DEF Finished, IdleJob, HandOK, JobSteps
<1>3. CASE j = "K06"
  <2>1. Finished(j) = [run[j] EXCEPT !.pc = IF run[j].drain THEN "unmark" ELSE "list"]
    BY <1>3 DEF Finished
  <2>2. /\ [Finished(j) EXCEPT !.seen = Nothing].seen = Nothing
        /\ [Finished(j) EXCEPT !.seen = Nothing].pc \in {"unmark", "list"}
        /\ [Finished(j) EXCEPT !.open = FALSE, !.rows = <<>>].seen = run[j].seen
        /\ [Finished(j) EXCEPT !.open = FALSE, !.rows = <<>>].pc \in {"unmark", "list"}
    BY <1>1, <2>1 DEF IsJob
  <2> QED
    BY <1>1, <2>2, NothingIsRow DEF HandOK, JobSteps
<1> QED
  BY <1>2, <1>3

LEMMA RecountTyped == ASSUME RollupInv, CountsInv, NEW j \in Job, Recount(j) PROVE CountsInv'
<1> DEFINE d == run[j].day
<1>0. IsJob(run[j]) /\ HandOK(run[j]) /\ (run[j].pc \in {"read", "write", "sum", "put"} => d \in Day)
  BY DaysAtHand DEF CountsInv
<1>1. CASE Read(j)
  <2>1. Input(d) \in SummaryRow /\ d \in Day
    BY <1>0, <1>1 DEF Read, At, Input, SummaryRow, CountsInv
  <2> DEFINE r == [run[j] EXCEPT !.pc = "write", !.seen = Input(d)]
  <2>2. run' = [run EXCEPT ![j] = r]
    BY <1>1 DEF Read
  <2>3. HandOK(r)
    BY <1>0, <2>1 DEF IsJob, HandOK, JobSteps
  <2>4. holes' \subseteq Day \X Holes
    BY <1>1, <2>1 DEF Read, Hole, Holes, CountsInv
  <2>5. UNCHANGED <<today, segs, adj, daily, monthly, closed>>
    BY <1>1 DEF Read, inputVars
  <2> HIDE DEF r
  <2> QED
    BY <2>2, <2>3, <2>4, <2>5, HandChanged
<1>2. CASE WriteDay(j)
  <2>1. d \in Day /\ run[j].seen \in SummaryRow
    BY <1>0, <1>2 DEF WriteDay, At, HandOK
  <2>2. daily' \in [Day -> SummaryRow]
    BY <1>2, <2>1 DEF WriteDay, CountsInv
  <2> DEFINE open == MonthOf(run[j].day) \notin closed
             r == IF PassesGate(open)
                  THEN [run[j] EXCEPT !.pc = "sum", !.seen = Nothing, !.open = open]
                  ELSE [Finished(j) EXCEPT !.seen = Nothing]
  <2>3. run' = [run EXCEPT ![j] = r]
    BY <1>2 DEF WriteDay
  <2>4. HandOK(r)
    <3>1. HandOK([run[j] EXCEPT !.pc = "sum", !.seen = Nothing, !.open = open])
      BY <1>0, NothingIsRow DEF IsJob, HandOK, JobSteps
    <3> QED
      BY <3>1, FinishedTyped
  <2> HIDE DEF r
  <2>5. \A i \in Job : HandOK(run'[i])
    BY <2>3, <2>4 DEF RollupInv, PcInv, CountsInv
  <2>6. UNCHANGED <<today, segs, adj, monthly, closed, holes>>
    BY <1>2 DEF WriteDay, inputVars
  <2> QED
    BY <2>2, <2>5, <2>6 DEF CountsInv
<1>3. CASE SumMonth(j)
  <2>1. d \in Day
    BY <1>0, <1>3 DEF SumMonth, At
  <2>2. Rows(MonthOf(d)) \in MonthRows(MonthOf(d))
    BY DEF Rows, MonthRows, CountsInv
  <2> DEFINE r == [run[j] EXCEPT !.pc = "put", !.rows = Rows(MonthOf(d))]
  <2>3. run' = [run EXCEPT ![j] = r]
    BY <1>3 DEF SumMonth
  <2>4. HandOK(r)
    BY <1>0, <2>2 DEF IsJob, HandOK, JobSteps
  <2>5. UNCHANGED <<today, segs, adj, daily, monthly, closed, holes>>
    BY <1>3 DEF SumMonth, inputVars
  <2> HIDE DEF r
  <2> QED
    BY <2>3, <2>4, <2>5, HandChanged DEF CountsInv
<1>4. CASE WriteMonth(j)
  <2>1. d \in Day /\ run[j].rows \in MonthRows(MonthOf(d)) /\ MonthOf(d) \in Month
    BY <1>0, <1>4 DEF WriteMonth, At, HandOK, Month
  <2>2. monthly' = [m \in Month |-> monthly'[m]] /\ \A m \in Month : monthly'[m] \in MonthRows(m)
    BY <1>4, <2>1 DEF WriteMonth, CountsInv
  <2> DEFINE r == [Finished(j) EXCEPT !.open = FALSE, !.rows = <<>>]
  <2>3. run' = [run EXCEPT ![j] = r] /\ HandOK(r)
    BY <1>4, FinishedTyped DEF WriteMonth
  <2> HIDE DEF r
  <2>4. \A i \in Job : HandOK(run'[i])
    BY <2>3 DEF RollupInv, PcInv, CountsInv
  <2>5. UNCHANGED <<today, segs, adj, daily, closed, holes>>
    BY <1>4 DEF WriteMonth, inputVars
  <2> QED
    BY <2>2, <2>4, <2>5 DEF CountsInv
<1> QED
  BY <1>1, <1>2, <1>3, <1>4 DEF Recount

LEMMA StartTyped == \A j, d : HandOK(Start(j, d))
BY NothingIsRow DEF Start, IdleJob, HandOK, JobSteps

LEMMA TickTyped ==
  ASSUME RollupInv, CountsInv, StartTick \/ ListMarks \/ NextMark \/ Unmark PROVE CountsInv'
<1>1. "K06" \in Job /\ UNCHANGED <<today, segs, adj, daily, monthly, closed>>
  BY DEF Job, StartTick, ListMarks, NextMark, Unmark, inputVars
<1>2. ASSUME NEW list PROVE HandOK([IdleJob EXCEPT !.pc = "mark", !.drain = TRUE, !.list = list])
  BY NothingIsRow DEF IdleJob, HandOK, JobSteps
<1>3. CASE StartTick
  BY <1>1, <1>3, StartTyped, HandChanged DEF StartTick, CountsInv
<1>4. CASE ListMarks
  <2>1. PICK list : run' = [run EXCEPT !["K06"] = [IdleJob EXCEPT !.pc = "mark", !.drain = TRUE,
                                                                  !.list = list]]
    BY <1>4 DEF ListMarks
  <2> QED
    BY <1>1, <1>2, <1>4, <2>1, HandChanged DEF ListMarks, CountsInv
<1>5. CASE Unmark
  <2>1. PICK list : run' = [run EXCEPT !["K06"] = [IdleJob EXCEPT !.pc = "mark", !.drain = TRUE,
                                                                  !.list = list]]
    BY <1>5 DEF Unmark
  <2> QED
    BY <1>1, <1>2, <1>5, <2>1, HandChanged DEF Unmark, CountsInv
<1>6. CASE NextMark
  <2> DEFINE list == run["K06"].list
  <2>1. CASE list = <<>>
    BY <1>1, <1>6, <2>1, NothingIsRow, HandChanged DEF NextMark, CountsInv
  <2>2. CASE list # <<>>
    <3>1. list \in Seq(Day)
      BY DEF RollupInv, DrainInv
    <3>2. Head(list) \in Day
      BY <2>2, <3>1
    <3> DEFINE r == [run["K06"] EXCEPT !.day = Head(list), !.pc = MarkStep(Head(list))]
    <3>3. run' = [run EXCEPT !["K06"] = r]
      BY <1>6, <2>2 DEF NextMark
    <3>4. HandOK(r)
      <4>1. IsJob(run["K06"]) /\ HandOK(run["K06"])
        BY <1>1, DaysAtHand DEF CountsInv
      <4>2. MarkStep(Head(list)) \in {"unmark", "read"}
        BY DEF MarkStep
      <4> QED
        BY <4>1, <4>2 DEF IsJob, HandOK, JobSteps
    <3>5. holes' \subseteq Day \X Holes
      BY <1>6, <2>2, <3>2 DEF NextMark, Hole, Holes, CountsInv
    <3> HIDE DEF r
    <3> QED
      BY <1>1, <3>3, <3>4, <3>5, HandChanged
  <2> QED
    BY <2>1, <2>2
<1> QED
  BY <1>3, <1>4, <1>5, <1>6

LEMMA CalendarTyped ==
  ASSUME RollupInv, CountsInv, DayTurns \/ StartDayClose \/ MissDayClose \/ CloseMonth \/ ReopenMonth
  PROVE  CountsInv'
<1>1. CASE DayTurns
  <2>1. today \in Day /\ today + 1 \in Day /\ today' = today + 1
    BY <1>1, DaysAtHand, Days DEF DayTurns
  <2>2. MonthOf(today) \in Int /\ MonthOf(today + 1) \in Int /\ MonthOf(today) <= MonthOf(today + 1)
    <3>1. today <= today + 1
      BY <2>1 DEF Day
    <3> QED
      BY <2>1, <3>1, MonthsGrow
  <2>3. \A m \in Month : m \in Int
    BY MonthsGrow, Days DEF Month, Day
  <2>4. closed' \subseteq {m \in Month : m < MonthOf(today')}
    BY <1>1, <2>1, <2>2, <2>3 DEF DayTurns, CountsInv
  <2> QED
    BY <1>1, <2>4 DEF DayTurns, CountsInv
<1>2. CASE StartDayClose
  <2>1. "K05" \in Job /\ UNCHANGED <<today, segs, adj, daily, monthly, closed, holes>>
        /\ run' = [run EXCEPT !["K05"] = Start("K05", today - 1)]
    BY <1>2 DEF StartDayClose, Job, inputVars
  <2> QED
    BY <2>1, StartTyped, HandChanged DEF CountsInv
<1>3. CASE MissDayClose
  <2>1. today - 1 \in Day
    BY <1>3, Days DEF MissDayClose, RollupInv, CalendarInv
  <2>2. holes' \subseteq Day \X Holes
    BY <1>3, <2>1 DEF MissDayClose, Hole, Holes, CountsInv
  <2> QED
    BY <1>3, <2>2 DEF MissDayClose, inputVars, CountsInv
<1>4. CASE CloseMonth \/ ReopenMonth
  <2>1. closed' \subseteq {m \in Month : m < MonthOf(today)}
    BY <1>4 DEF CloseMonth, ReopenMonth, CountsInv
  <2> QED
    BY <1>4, <2>1 DEF CloseMonth, ReopenMonth, inputVars, CountsInv
<1> QED
  BY <1>1, <1>2, <1>3, <1>4

LEMMA OfficeTyped == ASSUME RollupInv, CountsInv, StartAdjust \/ Adjust PROVE CountsInv'
<1>0. "admin" \in Job
  BY DEF Job
<1>1. CASE StartAdjust
  <2>1. PICK d : run' = [run EXCEPT !["admin"] = [IdleJob EXCEPT !.pc = "adjust", !.day = d]]
    BY <1>1 DEF StartAdjust
  <2>2. HandOK([IdleJob EXCEPT !.pc = "adjust", !.day = d])
    BY NothingIsRow DEF IdleJob, HandOK, JobSteps
  <2> QED
    BY <1>0, <1>1, <2>1, <2>2, HandChanged DEF StartAdjust, inputVars, CountsInv
<1>2. CASE Adjust
  <2> DEFINE d == run["admin"].day
  <2>1. d \in Day
    BY <1>0, <1>2, DaysAtHand DEF Adjust, At
  <2>2. PICK by \in {1, -1} : adj[d] + by >= 0 /\ adj' = [adj EXCEPT ![d] = adj[d] + by]
    BY <1>2 DEF Adjust
  <2>3. adj[d] \in Nat
    BY <2>1 DEF CountsInv
  <2>4. adj' \in [Day -> Nat]
    <3>1. adj[d] + by \in Nat
      BY <2>2, <2>3
    <3> HIDE DEF d
    <3> QED
      BY <2>1, <2>2, <3>1 DEF CountsInv
  <2>5. \A i \in Job : HandOK(run'[i])
    BY <1>2, StartTyped DEF Adjust, RollupInv, PcInv, CountsInv
  <2> QED
    BY <1>2, <2>4, <2>5 DEF Adjust, CountsInv
<1> QED
  BY <1>1, <1>2

LEMMA UploadTyped == ASSUME RollupInv, CountsInv, BeginUpload \/ CommitUpload PROVE CountsInv'
<1>1. CASE BeginUpload
  BY <1>1 DEF BeginUpload, CountsInv
<1>2. CASE CommitUpload
  <2>1. upload.day \in Day
    BY <1>2, DaysAtHand DEF CommitUpload
  <2>2. segs' \in [Day -> Nat]
    BY <1>2, <2>1 DEF CommitUpload, CountsInv
  <2>3. holes' \subseteq Day \X Holes
    <3>1. \A h \in holes' : h \in holes \/ \E why \in {"raced", "skewed"} : h = <<upload.day, why>>
      BY <1>2 DEF CommitUpload
    <3> QED
      BY <2>1, <3>1 DEF CountsInv, Holes
  <2> QED
    BY <1>2, <2>2, <2>3 DEF CommitUpload, CountsInv
<1> QED
  BY <1>1, <1>2

LEMMA FailTyped == ASSUME RollupInv, CountsInv, NEW j \in Job, Fail(j) PROVE CountsInv'
<1>1. UNCHANGED <<today, segs, adj, daily, monthly, closed>> /\ run' = [run EXCEPT ![j] = IdleJob]
  BY DEF Fail, inputVars
<1>2. holes' \subseteq Day \X Holes
  <2>1. CASE j = "K06"
    BY <2>1 DEF Fail, CountsInv
  <2>2. CASE j # "K06"
    <3>1. run[j].day \in Day
      <4>1. JobOK(j, run[j], today) /\ run[j].pc # "idle" /\ run[j].pc \in JobSteps
        BY DEF Fail, Busy, At, RollupInv, PcInv, CountsInv, HandOK
      <4>2. run[j].day # NoDay
        BY <2>2, <4>1 DEF JobOK, JobSteps
      <4> QED
        BY <4>2, DaysAtHand
    <3>2. holes' = Hole(run[j].day, "missed", TRUE)
            \/ holes' = Hole(run[j].day, "failed", ~At(j, "adjust"))
      BY <2>2 DEF Fail, Job
    <3> QED
      BY <3>1, <3>2 DEF Hole, Holes, CountsInv
  <2> QED
    BY <2>1, <2>2
<1> QED
  BY <1>1, <1>2, NothingIsRow, HandChanged

\* The shapes of the summaries, the marks and the jobs: a month's sums are of its days, and
\* only months that are over are closed.
THEOREM RollupTyped == RollupSpec => []RollupTypeOK
<1>1. RollupInit => CountsInv
  BY NothingIsRow DEF RollupInit, CountsInv, MonthRows
<1>2. RollupInv /\ CountsInv /\ [RollupNext]_rollupVars => CountsInv'
  <2> SUFFICES ASSUME RollupInv, CountsInv, [RollupNext]_rollupVars PROVE CountsInv'
    OBVIOUS
  <2>1. CASE UNCHANGED rollupVars
    BY <2>1 DEF rollupVars, inputVars, CountsInv
  <2>2. {"K06", "K05", "admin"} \subseteq Job
    BY DEF Job
  <2>3. CASE RollupNext
    BY <2>2, <2>3, RecountTyped, TickTyped, CalendarTyped, OfficeTyped, UploadTyped, FailTyped
       DEF RollupNext, SummaryTick, DayClose
  <2> QED
    BY <2>1, <2>3
<1>3. RollupInv /\ CountsInv => RollupTypeOK
  <2> SUFFICES ASSUME RollupInv, CountsInv PROVE RollupTypeOK
    OBVIOUS
  <2>1. today \in Day /\ Marked \subseteq 1 .. today /\ IsInjective(marks)
    BY DaysAtHand DEF RollupInv, CalendarInv
  <2>2. upload \in [day : {NoDay} \cup 1 .. today, skewed : BOOLEAN, late : BOOLEAN, mark : BOOLEAN]
    BY DEF RollupInv, UploadInv, NoUpload
  <2>3. \A j \in Job : run[j].day \in {NoDay} \cup 1 .. today
    BY DEF RollupInv, PcInv, JobOK
  <2> QED
    BY <2>1, <2>2, <2>3 DEF CountsInv, MonthRows, HandOK, JobSteps, RollupTypeOK
<1> QED
  BY RollupStarts, RollupKept, <1>1, <1>2, <1>3, PTL DEF RollupSpec

-----------------------------------------------------------------------------
\* Screenshots.

ShotStates  == {"none", "file", "stray", "queued", "sending", "done", "dropped"}
RowType     == [path : Path, thumb : BOOLEAN, marked : BOOLEAN]
FileType    == [pic : Shot \cup {NoShot}, whole : BOOLEAN]
RequestType == [at : {"insert", "find", "write", "writing", "thumb", "record", "ok", "failed"},
                of : Shot, path : Path, heard : BOOLEAN]
PurgeType   == [at : {"files"}, todo : SUBSET Shot, gone : SUBSET Shot]
SweepType   == [at : {"delete"}, doomed : SUBSET Shot]

FamilyInv == family \in [slot : [Shot -> Shot], paths : [Shot -> SUBSET Path]]

\* The PC.  Only a file that was without a row for an hour goes before its shot.
Waiting == {"file", "queued", "sending"}
ShotPcInv ==
  /\ shot \in [Shot -> ShotStates] /\ stale \subseteq mine /\ mine \subseteq Shot /\ slept \subseteq Shot
  /\ sweep \in SweepType \cup {Asleep}
  /\ \A s \in Shot :
       /\ shot[s] = "none" => s \notin mine /\ (sweep # Asleep => s \notin sweep.doomed)
       /\ shot[s] = "file" /\ s \in stale => s \in slept
       /\ shot[s] \in Waiting /\ s \notin mine => s \in slept
       /\ shot[s] \in Waiting /\ sweep # Asleep /\ s \in sweep.doomed => s \in slept
       /\ shot[s] = "dropped" => s \in slept

\* A request the agent still waits for is the one of a shot that is being sent; when the
\* ninety days are over there is none.
HeardInv ==
  /\ request \in [Request -> RequestType \cup {NoRequest}]
  /\ \A r \in Request : request[r] # NoRequest /\ request[r].heard => shot[request[r].of] = "sending"
  /\ \A q, r \in Request :
       request[q] # NoRequest /\ request[r] # NoRequest => \/ ~request[q].heard \/ ~request[r].heard
                                                          \/ request[q].of # request[r].of \/ q = r
  /\ aged \in BOOLEAN
  /\ aged => /\ \A r \in Request : request[r] = NoRequest
             /\ \A s \in Shot : shot[s] \notin Waiting

\* A row has one of its shot's own paths.
ShotRowInv == /\ row \in [Shot -> RowType \cup {NoRow}]
          /\ \A s \in Stored : row[s].path \in family.paths[s]

\* What a file holds may be there, and is whole unless a write broke off or still goes on.
Torn(p) == p \in hurt \cup PathsAt("writing")
Untold(p) == p \in unrecorded \cup PathsAt("record")
FileInv(p) ==
  disk[p] # NoFile =>
    /\ disk[p].pic \in Shot
    /\ disk[p].whole \/ Torn(p)
    /\ \E u \in Shot : family.slot[u] = family.slot[disk[p].pic] /\ p \in family.paths[u]
    /\ \E s \in Stored : row[s].path = p
ThumbInv(p) == p \in thumbs => Untold(p) \/ \E s \in Stored : row[s].path = p /\ row[s].thumb
DiskInv == /\ disk \in [Path -> FileType] /\ thumbs \subseteq Path
           /\ hurt \subseteq Path /\ unrecorded \subseteq Path
           /\ \A p \in Path : FileInv(p) /\ ThumbInv(p)

\* A request writes under the path of a row of its slot, and answers when the file is there.
Owns  == [s \in Shot |-> {row[t].path : t \in Existing(s)}]
Filed == {s \in Shot : \E t \in Existing(s) : disk[row[t].path] # NoFile}
RequestOK(q) ==
  /\ q.at = "insert" => q.path \in family.paths[q.of]
  /\ q.at \in {"write", "writing", "thumb", "record"} => q.path \in Owns[q.of]
  /\ q.at \in {"writing", "thumb", "record"} => disk[q.path] # NoFile
  /\ q.at = "ok" => q.of \in Filed
RequestInv == \A r \in Request : request[r] # NoRequest => RequestOK(request[r])

\* The retention job deletes rows it has marked, whose file and thumbnail are gone.
PurgeInv ==
  /\ purge \in PurgeType \cup {Asleep}
  /\ purge # Asleep =>
       /\ aged /\ purge.todo \subseteq Stored /\ purge.gone \subseteq Stored
       /\ \A s \in Stored : row[s].marked
       /\ \A s \in purge.gone : /\ disk[row[s].path] = NoFile
                                /\ row[s].thumb => row[s].path \notin thumbs

DoneInv == \A s \in Shot : shot[s] = "done" => Retired(s) \/ s \in Filed

ShotInv == /\ FamilyInv /\ ShotPcInv /\ HeardInv /\ ShotRowInv /\ DiskInv /\ RequestInv /\ PurgeInv
           /\ DoneInv /\ mishaps \in 0 .. MaxMishaps

LEMMA ShotConstants ==
  /\ NoRequest \notin RequestType /\ NoRow \notin RowType /\ Asleep \notin PurgeType \cup SweepType
  /\ NoFile \in FileType
BY DEF NoRequest, RequestType, NoRow, RowType, Asleep, PurgeType, SweepType, NoFile, FileType

LEMMA ShotsInitially == ShotsInit => ShotInv
<1> SUFFICES ASSUME ShotsInit PROVE ShotInv
  OBVIOUS
<1> USE ShotsAssumption DEF ShotsInit
<1>1. FamilyInv
  BY FamilyAssumption DEF FamilyInv
<1>2. ShotPcInv
  BY DEF ShotPcInv, ShotStates, Waiting
<1>3. HeardInv
  BY DEF HeardInv
<1>4. ShotRowInv
  BY DEF ShotRowInv, Stored
<1>5. DiskInv
  BY ShotConstants DEF DiskInv, FileInv, ThumbInv
<1>6. RequestInv
  BY DEF RequestInv
<1>7. PurgeInv
  BY DEF PurgeInv
<1>8. DoneInv
  BY DEF DoneInv
<1> QED
  BY <1>1, <1>2, <1>3, <1>4, <1>5, <1>6, <1>7, <1>8 DEF ShotInv

\* The PC's own part.
LEMMA PcStep == ShotPcInv /\ HeardInv /\ [ShotsNext]_shotVars => ShotPcInv'
<1> SUFFICES ASSUME ShotPcInv, HeardInv, [ShotsNext]_shotVars PROVE ShotPcInv'
  OBVIOUS
<1> USE ShotConstants DEF ShotPcInv, ShotStates, Waiting
<1>1. ASSUME NEW s \in Shot, Capture(s) \/ EnqueueShot(s) \/ \E r \in Request : SendShot(s, r) PROVE ShotPcInv'
  BY <1>1 DEF Capture, EnqueueShot, SendShot
<1>2. CASE HourPasses
  BY <1>2 DEF HourPasses
<1>3. CASE SweepReads
  <2>1. sweep' \in SweepType /\ sweep'.doomed = stale \ InTable
    BY <1>3 DEF SweepReads, SweepType
  <2> QED
    BY <1>3, <2>1 DEF SweepReads, InTable
<1>4. CASE SweepDeletes
  BY <1>4 DEF SweepDeletes
<1>5. ASSUME NEW r \in Request, ShotAnswered(r) PROVE ShotPcInv'
  <2>1. request[r] \in RequestType
    BY <1>5 DEF ShotAnswered, HeardInv, NoRequest
  <2>2. request[r].of \in Shot /\ (request[r].heard => shot[request[r].of] = "sending")
    BY <2>1 DEF HeardInv, RequestType
  <2> QED
    BY <1>5, <2>2 DEF ShotAnswered
<1>6. ASSUME NEW r \in Request, WaitsNoMore(r) PROVE ShotPcInv'
  <2>1. request[r].of \in Shot /\ shot[request[r].of] = "sending"
    BY <1>6 DEF WaitsNoMore, HeardInv, RequestType
  <2> QED
    BY <1>6, <2>1 DEF WaitsNoMore
<1>7. CASE AgentDies
  BY <1>7 DEF AgentDies
<1>8. CASE ServerDies
  BY <1>8 DEF ServerDies
<1>9. CASE UNCHANGED pcShotVars
  BY <1>9 DEF pcShotVars
<1> QED
  BY <1>1, <1>2, <1>3, <1>4, <1>5, <1>6, <1>7, <1>8, <1>9 DEF ShotsNext, OnPc, Served, Retention, InsertRow,
     FindRow, WriteBegins, WriteFails, WriteEnds, ThumbWritten, ThumbRecorded, Serving, NinetyDays,
     PurgeMarks, PurgeFiles, PurgeRows, Retaining, shotVars

\* What a request becomes.
LEMMA RequestBecomes ==
  ASSUME HeardInv, NEW r \in Request, request[r] # NoRequest,
         NEW step \in {"insert", "find", "write", "writing", "thumb", "record", "ok", "failed"}, Becomes(r, step)
  PROVE  LET q == [at |-> step, of |-> request[r].of, path |-> request[r].path, heard |-> request[r].heard]
         IN  q \in RequestType /\ request' = [request EXCEPT ![r] = q]
<1> DEFINE q == [at |-> step, of |-> request[r].of, path |-> request[r].path, heard |-> request[r].heard]
<1>1. request[r] \in RequestType
  BY DEF HeardInv
<1>2. q \in RequestType
  BY <1>1 DEF RequestType
<1>3. [request[r] EXCEPT !.at = step] = q
  BY <1>1 DEF RequestType
<1>4. request' = [request EXCEPT ![r] = [request[r] EXCEPT !.at = step]]
  BY DEF Becomes
<1> QED
  BY <1>2, <1>3, <1>4

\* Every answer of the server is a step of its request, for the same shot.
Steps == {"insert", "find", "write", "writing", "thumb", "record", "ok", "failed"}
Moved(r, step, p) == [at |-> step, of |-> request[r].of, path |-> p, heard |-> request[r].heard]

LEMMA MovedTyped ==
  ASSUME HeardInv, NEW r \in Request, request[r] # NoRequest, NEW step \in Steps, NEW p \in Path
  PROVE  /\ Moved(r, step, p) \in RequestType
         /\ Moved(r, step, p).at = step /\ Moved(r, step, p).path = p
         /\ Moved(r, step, p).of = request[r].of /\ Moved(r, step, p).heard = request[r].heard
BY DEF HeardInv, RequestType, Moved, Steps

LEMMA RequestFields ==
  ASSUME HeardInv, NEW r \in Request
  PROVE  /\ request[r] = NoRequest => request[r].at = "free"
         /\ request[r] # NoRequest =>
              /\ request[r] \in RequestType /\ request[r].at \in Steps /\ request[r].of \in Shot
              /\ request[r].path \in Path /\ request[r].heard \in BOOLEAN
BY DEF HeardInv, RequestType, Steps, NoRequest

LEMMA StoredRow ==
  ASSUME ShotRowInv, NEW t \in Stored
  PROVE  t \in Shot /\ row[t] \in RowType /\ row[t].path \in Path /\ row[t].path \in family.paths[t]
BY DEF ShotRowInv, Stored, RowType

LEMMA ServedStep ==
  ASSUME HeardInv, ShotRowInv, NEW r \in Request, Served(r)
  PROVE  /\ request[r] # NoRequest
         /\ \E step \in Steps, p \in Path : request' = [request EXCEPT ![r] = Moved(r, step, p)]
         /\ shot' = shot /\ aged' = aged
<1>1. request[r] # NoRequest
  BY DEF Served, InsertRow, FindRow, WriteBegins, WriteFails, WriteEnds, ThumbWritten, ThumbRecorded, NoRequest
<1>2. shot' = shot /\ aged' = aged
  BY DEF Served, InsertRow, FindRow, WriteBegins, WriteFails, WriteEnds, ThumbWritten, ThumbRecorded,
     Serving, pcShotVars
<1>3. ASSUME NEW step \in Steps, Becomes(r, step)
      PROVE  \E p \in Path : request' = [request EXCEPT ![r] = Moved(r, step, p)]
  BY <1>1, <1>3, RequestBecomes, RequestFields DEF Steps, Moved
<1>4. CASE FindRow(r)
  <2>1. CASE Becomes(r, "ok")
    BY <2>1, <1>1, <1>2, <1>3 DEF Steps
  <2>2. CASE ~Becomes(r, "ok")
    <3>1. PICK t \in Existing(request[r].of) :
            request' = [request EXCEPT ![r] = [at |-> "write", of |-> @.of, path |-> row[t].path, heard |-> @.heard]]
      BY <1>4, <2>2 DEF FindRow
    <3>2. t \in Stored
      BY DEF Existing
    <3>3. row[t].path \in Path
      BY <3>2, StoredRow
    <3>4. request' = [request EXCEPT ![r] = Moved(r, "write", row[t].path)]
      BY <3>1 DEF Moved
    <3> QED
      BY <3>3, <3>4, <1>1, <1>2 DEF Steps
  <2> QED
    BY <2>1, <2>2
<1>5. CASE ~FindRow(r)
  <2>1. \E step \in Steps : Becomes(r, step)
    BY <1>5 DEF Served, InsertRow, WriteBegins, WriteFails, WriteEnds, ThumbWritten, ThumbRecorded, Steps
  <2> QED
    BY <2>1, <1>1, <1>2, <1>3
<1> QED
  BY <1>1, <1>2, <1>3, <1>4, <1>5

\* The requests' part.
LEMMA HeardStep == FamilyInv /\ ShotRowInv /\ HeardInv /\ ShotPcInv /\ [ShotsNext]_shotVars => HeardInv'
<1> SUFFICES ASSUME FamilyInv, ShotRowInv, HeardInv, ShotPcInv, [ShotsNext]_shotVars PROVE HeardInv'
  OBVIOUS
<1> USE ShotConstants, RequestFields
<1>1. ASSUME NEW s \in Shot, Capture(s) \/ EnqueueShot(s) PROVE HeardInv'
  BY <1>1 DEF Capture, EnqueueShot, HeardInv, ShotPcInv, Waiting
<1>2. ASSUME NEW s \in Shot, NEW r \in Request, SendShot(s, r) PROVE HeardInv'
  <2>1. shot[s] = "queued" /\ ~aged /\ aged' = aged
    BY <1>2 DEF SendShot, HeardInv, Waiting
  <2>2. \A q \in Request : request[q] # NoRequest /\ request[q].heard => request[q].of # s
    BY <2>1 DEF HeardInv
  <2>3. CASE shot' = [shot EXCEPT ![s] = "dropped"] /\ request' = request
    BY <2>1, <2>2, <2>3 DEF HeardInv, ShotPcInv
  <2>4. CASE ~(shot' = [shot EXCEPT ![s] = "dropped"] /\ request' = request)
    <3>1. PICK p \in family.paths[s] :
            request' = [request EXCEPT ![r] = [at |-> "insert", of |-> s, path |-> p, heard |-> TRUE]]
      BY <1>2, <2>4 DEF SendShot
    <3>2. shot' = [shot EXCEPT ![s] = "sending"]
      BY <1>2, <2>4 DEF SendShot
    <3> DEFINE q == [at |-> "insert", of |-> s, path |-> p, heard |-> TRUE]
    <3>3. q \in RequestType /\ q.of = s
      BY DEF RequestType, FamilyInv
    <3> HIDE DEF q
    <3>4. request' = [request EXCEPT ![r] = q]
      BY <3>1 DEF q
    <3> QED
      BY <2>1, <2>2, <3>2, <3>3, <3>4 DEF HeardInv, ShotPcInv
  <2> QED
    BY <2>3, <2>4
<1>3. ASSUME NEW r \in Request, Served(r) PROVE HeardInv'
  <2>1. PICK step \in Steps, p \in Path : request' = [request EXCEPT ![r] = Moved(r, step, p)]
    BY <1>3, ServedStep
  <2>2. shot' = shot /\ aged' = aged /\ request[r] # NoRequest
    BY <1>3, ServedStep
  <2> DEFINE q == Moved(r, step, p)
  <2>3. q \in RequestType /\ q.of = request[r].of /\ q.heard = request[r].heard
    BY <2>2, MovedTyped
  <2> HIDE DEF q
  <2>4. request' = [request EXCEPT ![r] = q]
    BY <2>1 DEF q
  <2> QED
    BY <2>2, <2>3, <2>4 DEF HeardInv
<1>4. ASSUME NEW r \in Request, ShotAnswered(r) PROVE HeardInv'
  <2>1. /\ request[r] # NoRequest /\ request' = [request EXCEPT ![r] = NoRequest] /\ aged' = aged
        /\ shot' = shot \/ (request[r].heard /\ \E now \in ShotStates : shot' = [shot EXCEPT ![request[r].of] = now])
    BY <1>4 DEF ShotAnswered, ShotStates
  <2>2. ~aged
    BY <2>1 DEF HeardInv
  <2>3. \A q \in Request \ {r} : request[q] # NoRequest /\ request[q].heard /\ request[r].heard
                                  => request[q].of # request[r].of
    BY <2>1 DEF HeardInv
  <2> QED
    BY <2>1, <2>2, <2>3 DEF HeardInv, ShotPcInv
<1>5. ASSUME NEW r \in Request, WaitsNoMore(r) PROVE HeardInv'
  <2>1. /\ request[r] # NoRequest /\ request[r].heard /\ aged' = aged
        /\ request' = [request EXCEPT ![r].heard = FALSE]
        /\ shot' = [shot EXCEPT ![request[r].of] = "queued"]
    BY <1>5 DEF WaitsNoMore
  <2> DEFINE q == [request[r] EXCEPT !.heard = FALSE]
  <2>2. q \in RequestType /\ ~q.heard
    BY <2>1 DEF RequestType
  <2>3. request' = [request EXCEPT ![r] = q]
    BY <2>1
  <2> HIDE DEF q
  <2>4. ~aged
    BY <2>1 DEF HeardInv
  <2>5. \A x \in Request \ {r} : request[x] # NoRequest /\ request[x].heard => request[x].of # request[r].of
    BY <2>1 DEF HeardInv
  <2>6. request' \in [Request -> RequestType \cup {NoRequest}]
    BY <2>2, <2>3 DEF HeardInv
  <2>7. \A x \in Request : request'[x] # NoRequest /\ request'[x].heard => x # r /\ request[x] = request'[x]
    BY <2>2, <2>3 DEF HeardInv
  <2>8. \A x \in Request \ {r} : request[x] # NoRequest /\ request[x].heard => shot'[request[x].of] = "sending"
    BY <2>1, <2>5 DEF HeardInv, ShotPcInv
  <2> QED
    BY <2>1, <2>4, <2>6, <2>7, <2>8 DEF HeardInv
<1>6. CASE AgentDies
  <2>1. \A r \in Request : request'[r] = IF request[r] = NoRequest THEN NoRequest
                                         ELSE [request[r] EXCEPT !.heard = FALSE]
    BY <1>6 DEF AgentDies
  <2>2. \A q \in RequestType : [q EXCEPT !.heard = FALSE] \in RequestType /\ ~[q EXCEPT !.heard = FALSE].heard
    BY DEF RequestType
  <2>3. request' \in [Request -> RequestType \cup {NoRequest}]
    BY <1>6, <2>2 DEF AgentDies, HeardInv
  <2>4. \A r \in Request : request'[r] # NoRequest => ~request'[r].heard
    BY <2>1, <2>2
  <2>5. aged' = aged /\ \A s \in Shot : shot[s] \notin Waiting => shot'[s] \notin Waiting
    BY <1>6 DEF AgentDies, Waiting, ShotPcInv
  <2>6. (\A r \in Request : request[r] = NoRequest) => (\A r \in Request : request'[r] = NoRequest)
    BY <2>1
  <2> QED
    BY <2>3, <2>4, <2>5, <2>6 DEF HeardInv
<1>7. CASE ServerDies
  <2>1. aged' = aged /\ \A s \in Shot : shot[s] \notin Waiting => shot'[s] \notin Waiting
    BY <1>7 DEF ServerDies, Waiting, ShotPcInv
  <2>2. request' \in [Request -> RequestType \cup {NoRequest}] /\ \A r \in Request : request'[r] = NoRequest
    BY <1>7 DEF ServerDies
  <2> QED
    BY <2>1, <2>2 DEF HeardInv
<1>8. CASE NinetyDays
  BY <1>8 DEF NinetyDays, pcShotVars, HeardInv, Waiting
<1>9. CASE UNCHANGED <<shot, request, aged>>
  BY <1>9 DEF HeardInv
<1> QED
  BY <1>1, <1>2, <1>3, <1>4, <1>5, <1>6, <1>7, <1>8, <1>9 DEF ShotsNext, OnPc, HourPasses, SweepReads,
     SweepDeletes, Retention, PurgeMarks, PurgeFiles, PurgeRows, Retaining, pcShotVars, shotVars

\* The store grows: rows keep their paths and thumbnails, files stay.
Grown ==
  /\ family' = family
  /\ \A t \in Stored : t \in Stored' /\ row'[t].path = row[t].path /\ (row[t].thumb => row'[t].thumb)
  /\ \A p \in Path : disk[p] # NoFile => disk'[p] # NoFile

LEMMA GrownKeeps ==
  ASSUME Grown, ShotRowInv
  PROVE  /\ Filed \subseteq Filed'
         /\ \A s \in Shot : Owns[s] \subseteq Owns'[s]
<1>1. ASSUME NEW s \in Shot, NEW t \in Existing(s)
      PROVE  t \in Stored /\ t \in Existing(s)' /\ row'[t].path = row[t].path /\ row[t].path \in Path
  <2>1. t \in Stored /\ (t = s \/ family.slot[t] = family.slot[s])
    BY DEF Existing
  <2>2. t \in Shot /\ t \in Stored'
    BY <2>1 DEF Grown, Stored
  <2>3. family'.slot[t] = family.slot[t] /\ family'.slot[s] = family.slot[s]
    BY DEF Grown
  <2>4. t \in Existing(s)'
    BY <2>1, <2>2, <2>3 DEF Existing
  <2> QED
    BY <2>1, <2>4, StoredRow DEF Grown
<1>2. ASSUME NEW s \in Filed PROVE s \in Filed'
  <2>1. s \in Shot
    BY DEF Filed
  <2>2. PICK t \in Existing(s) : disk[row[t].path] # NoFile
    BY DEF Filed
  <2>3. disk'[row'[t].path] # NoFile
    BY <1>1, <2>1, <2>2 DEF Grown
  <2> QED
    BY <1>1, <2>1, <2>3 DEF Filed
<1>3. ASSUME NEW s \in Shot, NEW p \in Owns[s] PROVE p \in Owns'[s]
  <2>1. PICK t \in Existing(s) : row[t].path = p
    BY DEF Owns
  <2>2. t \in Existing(s)' /\ row'[t].path = p
    BY <1>1, <2>1
  <2> QED
    BY <2>2 DEF Owns
<1> QED
  BY <1>2, <1>3

\* So what a request found stays found.
RequestOKNext(q) ==
  /\ q.at = "insert" => q.path \in family'.paths[q.of]
  /\ q.at \in {"write", "writing", "thumb", "record"} => q.path \in Owns'[q.of]
  /\ q.at \in {"writing", "thumb", "record"} => disk'[q.path] # NoFile
  /\ q.at = "ok" => q.of \in Filed'

LEMMA RequestsStay ==
  ASSUME Grown, ShotRowInv
  PROVE  \A q \in RequestType : RequestOK(q) => RequestOKNext(q)
<1> SUFFICES ASSUME NEW q \in RequestType, RequestOK(q) PROVE RequestOKNext(q)
  OBVIOUS
<1>1. q.of \in Shot /\ q.path \in Path
  BY DEF RequestType
<1> QED
  BY <1>1, GrownKeeps DEF RequestOK, RequestOKNext, Grown

LEMMA NextRequests ==
  ASSUME \A r \in Request : request'[r] # NoRequest => RequestOKNext(request'[r])
  PROVE  RequestInv'
BY DEF RequestInv, RequestOK, RequestOKNext

\* A request that moves on, and the others, which wait.
LEMMA RequestsMove ==
  ASSUME Grown, ShotRowInv, HeardInv, RequestInv, NEW r \in Request, NEW q \in RequestType,
         request' = [request EXCEPT ![r] = q], RequestOKNext(q)
  PROVE  RequestInv'
<1>1. ASSUME NEW x \in Request, request'[x] # NoRequest PROVE RequestOKNext(request'[x])
  <2>1. CASE x = r
    BY <2>1 DEF HeardInv
  <2>2. CASE x # r
    <3>1. request'[x] = request[x]
      BY <2>2 DEF HeardInv
    <3>2. request[x] \in RequestType /\ RequestOK(request[x])
      BY <1>1, <3>1 DEF HeardInv, RequestInv
    <3>3. RequestOKNext(request[x])
      BY <3>2, RequestsStay
    <3> QED
      BY <3>1, <3>3
  <2> QED
    BY <2>1, <2>2
<1> QED
  BY <1>1, NextRequests

\* A path a request wrote to stays so, but for the one that moved.
LEMMA PathsMove ==
  ASSUME HeardInv, NEW r \in Request, request[r] # NoRequest, NEW q \in RequestType,
         request' = [request EXCEPT ![r] = q], NEW step \in Steps
  PROVE  /\ \A p \in PathsAt(step) : p \in PathsAt(step)' \/ (request[r].at = step /\ request[r].path = p)
         /\ q.at = step => q.path \in PathsAt(step)'
<1>1. \A x \in Request : request'[x] = IF x = r THEN q ELSE request[x]
  BY DEF HeardInv
<1>2. \A p : p \in PathsAt(step) <=> \E x \in Request : /\ request[x] # NoRequest
                                                        /\ request[x].at = step /\ request[x].path = p
  BY DEF PathsAt
<1>3. \A p : p \in PathsAt(step)' <=> \E x \in Request : /\ request'[x] # NoRequest
                                                         /\ request'[x].at = step /\ request'[x].path = p
  BY DEF PathsAt
<1> QED
  BY <1>1, <1>2, <1>3, ShotConstants

\* A path whose file stands and whose request writes on, or broke off, keeps its part.
LEMMA PathStays ==
  ASSUME Grown, ShotRowInv, NEW p \in Path, FileInv(p), ThumbInv(p),
         disk'[p] = disk[p], Torn(p) => Torn(p)', p \in thumbs' => p \in thumbs, Untold(p) => Untold(p)'
  PROVE  FileInv(p)' /\ ThumbInv(p)'
<1>1. \A s \in Stored : s \in Stored' /\ row'[s].path = row[s].path /\ (row[s].thumb => row'[s].thumb)
  BY DEF Grown
<1>2. FileInv(p)'
  BY <1>1 DEF FileInv, Grown
<1>3. ThumbInv(p)'
  BY <1>1 DEF ThumbInv
<1> QED
  BY <1>2, <1>3

StoreInv  == ShotRowInv /\ DiskInv /\ RequestInv
ServerInv == FamilyInv /\ HeardInv /\ StoreInv

LEMMA WriteFailsKeeps ==
  ASSUME ServerInv, NEW r \in Request, WriteFails(r)
  PROVE  Grown /\ StoreInv'
<1> USE DEF ServerInv, StoreInv
<1>1. /\ request[r] # NoRequest /\ row' = row /\ disk' = disk /\ thumbs' = thumbs /\ family' = family
      /\ unrecorded' = unrecorded /\ hurt' = IF request[r].at = "writing" THEN hurt \cup {request[r].path} ELSE hurt
      /\ request[r].at \in {"insert", "write", "writing"} /\ Becomes(r, "failed")
  BY DEF WriteFails, Serving, NoRequest
<1> DEFINE q == Moved(r, "failed", request[r].path)
<1>2. q \in RequestType /\ q.at = "failed" /\ request' = [request EXCEPT ![r] = q]
  BY <1>1, RequestFields, MovedTyped, RequestBecomes DEF Steps, Moved
<1> HIDE DEF q
<1>3. Grown
  BY <1>1 DEF Grown, Stored
<1>4. ShotRowInv'
  BY <1>1 DEF ShotRowInv, Stored
<1>5. RequestInv'
  BY <1>2, <1>3, RequestsMove DEF RequestOKNext
<1>6. ASSUME NEW p \in Path PROVE FileInv(p)' /\ ThumbInv(p)'
  <2>1. Torn(p) => Torn(p)'
    BY <1>1, <1>2, PathsMove DEF Torn, Steps
  <2>2. Untold(p) => Untold(p)'
    BY <1>1, <1>2, PathsMove DEF Untold, Steps
  <2> QED
    BY <1>1, <1>3, <2>1, <2>2, PathStays DEF DiskInv
<1>7. DiskInv'
  BY <1>1, <1>6, RequestFields DEF DiskInv
<1> QED
  BY <1>3, <1>4, <1>5, <1>7

\* The row under whose path a request writes is of its slot, and so may have that path.
LEMMA HeldRow ==
  ASSUME FamilyInv, ShotRowInv, NEW s \in Shot, NEW p \in Owns[s]
  PROVE  \E t \in Stored : /\ t \in Shot /\ t \in Existing(s) /\ row[t].path = p
                           /\ family.slot[t] = family.slot[s] /\ p \in family.paths[t]
<1>1. PICK t \in Existing(s) : row[t].path = p
  BY DEF Owns
<1>2. t \in Stored /\ family.slot[t] = family.slot[s]
  BY DEF Existing
<1> QED
  BY <1>1, <1>2, StoredRow

LEMMA HeldFiled ==
  ASSUME NEW s \in Shot, NEW p \in Owns[s], disk[p] # NoFile
  PROVE  s \in Filed
BY DEF Owns, Filed

LEMMA WriteKeeps ==
  ASSUME ServerInv, NEW r \in Request, WriteBegins(r) \/ WriteEnds(r)
  PROVE  Grown /\ StoreInv'
<1> USE DEF ServerInv, StoreInv
<1> DEFINE ends == request[r].at = "writing"
           step == IF ends THEN "thumb" ELSE "writing"
           q    == Moved(r, step, request[r].path)
           file == [pic |-> request[r].of, whole |-> ends]
<1>1. /\ request[r] # NoRequest /\ row' = row /\ thumbs' = thumbs /\ family' = family
      /\ unrecorded' = unrecorded /\ hurt' = hurt
      /\ request[r].at \in {"write", "writing"} /\ Becomes(r, step)
      /\ disk' = [disk EXCEPT ![request[r].path] = file]
  <2>1. CASE WriteBegins(r)
    <3>1. ~ends /\ step = "writing" /\ ends = FALSE
      BY <2>1 DEF WriteBegins
    <3>2. file = [pic |-> request[r].of, whole |-> FALSE]
      BY <3>1
    <3> HIDE DEF step, file
    <3> QED
      BY <2>1, <3>1, <3>2 DEF WriteBegins, Serving, NoRequest, Becomes
  <2>2. CASE WriteEnds(r)
    <3>1. ends /\ step = "thumb" /\ ends = TRUE
      BY <2>2 DEF WriteEnds
    <3>2. file = [pic |-> request[r].of, whole |-> TRUE]
      BY <3>1
    <3> HIDE DEF step, file
    <3> QED
      BY <2>2, <3>1, <3>2 DEF WriteEnds, Serving, NoRequest, Becomes
  <2> QED
    BY <2>1, <2>2
<1>2. q \in RequestType /\ q.at = step /\ q.of = request[r].of /\ q.path = request[r].path
      /\ request' = [request EXCEPT ![r] = q] /\ step \in {"thumb", "writing"}
  BY <1>1, RequestFields, MovedTyped, RequestBecomes DEF Steps, Moved
<1>3. /\ request[r].of \in Shot /\ request[r].path \in Path /\ RequestOK(request[r])
      /\ request[r].path \in Owns[request[r].of]
  BY <1>1, RequestFields DEF RequestInv, RequestOK
<1>4. file # NoFile /\ file \in FileType /\ file.pic = request[r].of /\ file.whole = ends
  BY <1>3, ShotsAssumption DEF NoFile, FileType
<1>p. PICK t \in Stored : /\ t \in Shot /\ row[t].path = request[r].path
                          /\ family.slot[t] = family.slot[request[r].of] /\ request[r].path \in family.paths[t]
  BY <1>3, HeldRow
<1> HIDE DEF q, file, step
<1>5. Grown
  BY <1>1, <1>4 DEF Grown, Stored, DiskInv
<1>6. ShotRowInv'
  BY <1>1 DEF ShotRowInv, Stored
<1>7. disk' \in [Path -> FileType] /\ disk'[request[r].path] = file
  BY <1>1, <1>3, <1>4 DEF DiskInv
<1>8. RequestOKNext(q)
  <2>1. q.path \in Owns'[q.of]
    BY <1>2, <1>3, <1>5, GrownKeeps
  <2> QED
    BY <1>2, <1>4, <1>7, <2>1 DEF RequestOKNext
<1>9. RequestInv'
  BY <1>2, <1>5, <1>8, RequestsMove
<1>10. ASSUME NEW p \in Path PROVE FileInv(p)' /\ ThumbInv(p)'
  <2>1. Untold(p) => Untold(p)'
    BY <1>1, <1>2, PathsMove DEF Untold, Steps
  <2>2. CASE p # request[r].path
    <3>1. Torn(p) => Torn(p)'
      BY <1>1, <1>2, <2>2, PathsMove DEF Torn, Steps
    <3>2. disk'[p] = disk[p]
      BY <1>1, <2>2 DEF DiskInv
    <3> QED
      BY <1>1, <1>5, <2>1, <3>1, <3>2, PathStays DEF DiskInv
  <2>3. CASE p = request[r].path
    <3>1. file.whole \/ Torn(p)'
      BY <1>1, <1>2, <1>4, <2>3, PathsMove DEF Torn, Steps, step
    <3>2. t \in Stored' /\ row'[t].path = p
      BY <1>1, <1>p, <2>3 DEF Stored
    <3>3. family' = family /\ disk'[p] = file
      BY <1>1, <1>7, <2>3
    <3>4. FileInv(p)'
      BY <1>3, <1>4, <1>p, <2>3, <3>1, <3>2, <3>3 DEF FileInv
    <3>5. ThumbInv(p)'
      BY <1>1, <2>1 DEF DiskInv, ThumbInv, Stored
    <3> QED
      BY <3>4, <3>5
  <2> QED
    BY <2>2, <2>3
<1>11. DiskInv'
  BY <1>1, <1>7, <1>10 DEF DiskInv
<1> QED
  BY <1>5, <1>6, <1>9, <1>11

LEMMA InsertKeeps ==
  ASSUME ServerInv, NEW r \in Request, InsertRow(r)
  PROVE  Grown /\ StoreInv'
<1> USE DEF ServerInv, StoreInv
<1> DEFINE s == request[r].of
           found == Existing(s) # {}
           step  == IF found THEN "find" ELSE "write"
           new == [path |-> request[r].path, thumb |-> FALSE, marked |-> FALSE]
           q == Moved(r, step, request[r].path)
<1>1. /\ request[r] # NoRequest /\ request[r].at = "insert" /\ family' = family
      /\ disk' = disk /\ thumbs' = thumbs /\ hurt' = hurt /\ unrecorded' = unrecorded
      /\ Becomes(r, step) /\ row' = IF found THEN row ELSE [row EXCEPT ![s] = new]
  BY DEF InsertRow, Serving, NoRequest
<1>2. q \in RequestType /\ q.at = step /\ q.of = s /\ q.path = request[r].path
      /\ request' = [request EXCEPT ![r] = q] /\ step \in {"find", "write"}
  BY <1>1, RequestFields, MovedTyped, RequestBecomes DEF Steps, Moved
<1>3. s \in Shot /\ request[r].path \in Path /\ request[r].path \in family.paths[s]
  BY <1>1, RequestFields DEF RequestInv, RequestOK
<1>4. new \in RowType /\ new # NoRow /\ new.path = request[r].path
  <2>1. new \in RowType
    BY <1>3 DEF RowType
  <2> QED
    BY <2>1, ShotConstants
<1> HIDE DEF new, q
<1>5. ~found => s \notin Stored
  BY <1>3 DEF Existing
<1>6. Grown
  BY <1>1, <1>3, <1>4, <1>5 DEF Grown, Stored, ShotRowInv
<1>7. ShotRowInv'
  <2>1. CASE found
    BY <1>1, <2>1 DEF ShotRowInv, Stored
  <2>2. CASE ~found
    BY <1>1, <1>3, <1>4, <2>2 DEF ShotRowInv, Stored
  <2> QED
    BY <2>1, <2>2
<1>8. RequestOKNext(q)
  <2>1. CASE found
    BY <1>2, <2>1 DEF RequestOKNext
  <2>2. CASE ~found
    <3>1. row'[s] = new
      BY <1>1, <1>3, <2>2 DEF ShotRowInv
    <3>2. s \in Stored'
      BY <1>3, <1>4, <3>1 DEF Stored
    <3>3. \A z \in {s} : z \in Existing(z)'
      BY <1>3, <3>2 DEF Existing
    <3>4. \A z \in {s} : row'[z].path \in Owns'[z]
      BY <1>3, <3>3 DEF Owns
    <3> QED
      BY <1>2, <1>4, <2>2, <3>1, <3>4 DEF RequestOKNext
  <2> QED
    BY <2>1, <2>2
<1>9. RequestInv'
  BY <1>2, <1>6, <1>8, RequestsMove
<1>10. ASSUME NEW p \in Path PROVE FileInv(p)' /\ ThumbInv(p)'
  <2>1. Torn(p) => Torn(p)'
    BY <1>1, <1>2, PathsMove DEF Torn, Steps
  <2>2. Untold(p) => Untold(p)'
    BY <1>1, <1>2, PathsMove DEF Untold, Steps
  <2> QED
    BY <1>1, <1>6, <2>1, <2>2, PathStays DEF DiskInv
<1>11. DiskInv'
  BY <1>1, <1>10 DEF DiskInv
<1> QED
  BY <1>6, <1>7, <1>9, <1>11

LEMMA FindKeeps ==
  ASSUME ServerInv, NEW r \in Request, FindRow(r)
  PROVE  Grown /\ StoreInv'
<1> USE DEF ServerInv, StoreInv
<1>1. /\ request[r] # NoRequest /\ request[r].at = "find" /\ UNCHANGED <<family, storeVars>>
  BY DEF FindRow, Serving, NoRequest
<1>2. Grown /\ ShotRowInv'
  BY <1>1 DEF Grown, ShotRowInv, Stored, storeVars
<1>3. request[r].of \in Shot /\ request[r].path \in Path
  BY <1>1, RequestFields
<1>4. \E q \in RequestType : /\ q.at \in {"ok", "write"} /\ request' = [request EXCEPT ![r] = q]
                             /\ RequestOKNext(q)
  <2>1. PICK t \in Existing(request[r].of) :
          IF OnDisk(t) THEN Becomes(r, "ok")
          ELSE request' = [request EXCEPT ![r] = [at |-> "write", of |-> @.of, path |-> row[t].path,
                                                  heard |-> @.heard]]
    BY DEF FindRow
  <2>2. t \in Stored
    BY DEF Existing
  <2>3. CASE OnDisk(t)
    <3> DEFINE q == Moved(r, "ok", request[r].path)
    <3>1. q \in RequestType /\ q.at = "ok" /\ q.of = request[r].of /\ request' = [request EXCEPT ![r] = q]
      BY <1>1, <1>3, <2>1, <2>3, MovedTyped, RequestBecomes DEF Steps, Moved
    <3>2. request[r].of \in Filed
      BY <1>3, <2>3 DEF Filed, OnDisk
    <3>3. RequestOKNext(q)
      BY <3>1, <3>2, <1>2, GrownKeeps DEF RequestOKNext
    <3> QED
      BY <3>1, <3>3
  <2>4. CASE ~OnDisk(t)
    <3> DEFINE q == Moved(r, "write", row[t].path)
    <3>1. row[t].path \in Path /\ row[t].path \in Owns[request[r].of]
      BY <1>3, <2>2, StoredRow DEF Owns
    <3>2. /\ q \in RequestType /\ q.at = "write" /\ q.of = request[r].of /\ q.path = row[t].path
          /\ request' = [request EXCEPT ![r] = q]
      BY <1>1, <2>1, <2>4, <3>1, MovedTyped DEF Steps, Moved
    <3>3. RequestOKNext(q)
      BY <3>1, <3>2, <1>2, <1>3, GrownKeeps DEF RequestOKNext
    <3> QED
      BY <3>2, <3>3
  <2> QED
    BY <2>3, <2>4
<1>5. PICK q \in RequestType : /\ q.at \in {"ok", "write"} /\ request' = [request EXCEPT ![r] = q]
                               /\ RequestOKNext(q)
  BY <1>4
<1>6. RequestInv'
  BY <1>2, <1>5, RequestsMove
<1>7. ASSUME NEW p \in Path PROVE FileInv(p)' /\ ThumbInv(p)'
  <2>1. Torn(p) => Torn(p)'
    BY <1>1, <1>5, PathsMove DEF Torn, Steps, storeVars
  <2>2. Untold(p) => Untold(p)'
    BY <1>1, <1>5, PathsMove DEF Untold, Steps, storeVars
  <2> QED
    BY <1>1, <1>2, <2>1, <2>2, PathStays DEF DiskInv, storeVars
<1>8. DiskInv'
  BY <1>1, <1>7 DEF DiskInv, storeVars
<1> QED
  BY <1>2, <1>6, <1>8

LEMMA ThumbKeeps ==
  ASSUME ServerInv, NEW r \in Request, ThumbWritten(r)
  PROVE  Grown /\ StoreInv'
<1> USE DEF ServerInv, StoreInv
<1>1. /\ request[r] # NoRequest /\ request[r].at = "thumb" /\ family' = family /\ row' = row /\ disk' = disk
      /\ hurt' = hurt /\ unrecorded' = unrecorded
  BY DEF ThumbWritten, Serving, NoRequest
<1>2. /\ request[r].of \in Shot /\ request[r].path \in Path
      /\ request[r].path \in Owns[request[r].of] /\ disk[request[r].path] # NoFile
  BY <1>1, RequestFields DEF RequestInv, RequestOK
<1>3. Grown /\ ShotRowInv'
  BY <1>1 DEF Grown, ShotRowInv, Stored
<1>4. \E step \in {"record", "ok"} : /\ Becomes(r, step)
                                     /\ thumbs' = IF step = "record" THEN thumbs \cup {request[r].path} ELSE thumbs
  BY DEF ThumbWritten
<1>5. PICK step \in {"record", "ok"} : /\ Becomes(r, step)
                                       /\ thumbs' = IF step = "record" THEN thumbs \cup {request[r].path} ELSE thumbs
  BY <1>4
<1> DEFINE q == Moved(r, step, request[r].path)
<1>6. /\ q \in RequestType /\ q.at = step /\ q.of = request[r].of /\ q.path = request[r].path
      /\ request' = [request EXCEPT ![r] = q]
  <2>1. step \in Steps
    BY DEF Steps
  <2>2. request' = [request EXCEPT ![r] = q]
    BY <1>1, <1>5, <2>1, RequestBecomes DEF Steps, Moved
  <2> QED
    BY <1>1, <1>2, <2>1, <2>2, MovedTyped
<1> HIDE DEF q
<1>7. RequestOKNext(q)
  <2>1. q.path \in Owns'[q.of] /\ q.of \in Filed'
    BY <1>2, <1>3, <1>6, GrownKeeps, HeldFiled
  <2> QED
    BY <1>1, <1>2, <1>6, <2>1 DEF RequestOKNext
<1>8. RequestInv'
  BY <1>3, <1>6, <1>7, RequestsMove
<1>9. ASSUME NEW p \in Path PROVE FileInv(p)' /\ ThumbInv(p)'
  <2>1. Torn(p) => Torn(p)'
    BY <1>1, <1>6, PathsMove DEF Torn, Steps
  <2>2. Untold(p) => Untold(p)'
    BY <1>1, <1>6, PathsMove DEF Untold, Steps
  <2>3. CASE p \in thumbs' => p \in thumbs
    BY <1>1, <1>3, <2>1, <2>2, <2>3, PathStays DEF DiskInv
  <2>4. CASE ~(p \in thumbs' => p \in thumbs)
    <3>0. q.at = "record" /\ q.path = p
      BY <1>5, <1>6, <2>4
    <3>1. Untold(p)'
      BY <1>1, <1>6, <3>0, PathsMove DEF Untold, Steps
    <3>2. FileInv(p)'
      BY <1>1, <2>1 DEF DiskInv, FileInv, Stored
    <3> QED
      BY <3>1, <3>2 DEF ThumbInv
  <2> QED
    BY <2>3, <2>4
<1>10. DiskInv'
  BY <1>1, <1>2, <1>5, <1>9 DEF DiskInv
<1> QED
  BY <1>3, <1>8, <1>10

LEMMA RecordKeeps ==
  ASSUME ServerInv, NEW r \in Request, ThumbRecorded(r)
  PROVE  Grown /\ StoreInv'
<1> USE DEF ServerInv, StoreInv
<1> DEFINE told == Existing(request[r].of)
           written(s) == [path |-> row[s].path, thumb |-> TRUE, marked |-> row[s].marked]
           q == Moved(r, "ok", request[r].path)
<1>1. /\ request[r] # NoRequest /\ request[r].at = "record" /\ family' = family
      /\ disk' = disk /\ thumbs' = thumbs /\ hurt' = hurt /\ Becomes(r, "ok")
      /\ \/ /\ row' = [s \in Shot |-> IF s \in told THEN [row[s] EXCEPT !.thumb = TRUE] ELSE row[s]]
            /\ unrecorded' = unrecorded
         \/ row' = row /\ unrecorded' = unrecorded \cup {request[r].path}
  BY DEF ThumbRecorded, Serving, NoRequest
<1>2. /\ request[r].of \in Shot /\ request[r].path \in Path
      /\ request[r].path \in Owns[request[r].of] /\ disk[request[r].path] # NoFile
  BY <1>1, RequestFields DEF RequestInv, RequestOK
<1>3. \A s \in Stored : /\ s \in Shot /\ [row[s] EXCEPT !.thumb = TRUE] = written(s) /\ written(s) \in RowType
                        /\ written(s) # NoRow /\ written(s).path = row[s].path /\ written(s).thumb
  <2>1. ASSUME NEW s \in Stored
        PROVE  /\ s \in Shot /\ [row[s] EXCEPT !.thumb = TRUE] = written(s) /\ written(s) \in RowType
               /\ written(s).path = row[s].path /\ written(s).thumb
    <3>1. s \in Shot /\ row[s] \in RowType
      BY StoredRow
    <3>2. \A t : [row[s] EXCEPT !.thumb = t] = [path |-> row[s].path, thumb |-> t, marked |-> row[s].marked]
      BY <3>1 DEF RowType
    <3>3. written(s) \in RowType
      BY <3>1 DEF RowType
    <3> QED
      BY <3>1, <3>2, <3>3
  <2> QED
    BY <2>1, ShotConstants
<1> HIDE DEF written
<1>4. told \subseteq Stored
  BY DEF Existing
<1>5. /\ \A s \in Stored : row'[s] \in RowType /\ row'[s] # NoRow /\ row'[s].path = row[s].path
                           /\ (row[s].thumb => row'[s].thumb)
      /\ \A s \in Shot \ Stored : row'[s] = NoRow
      /\ row' = [s \in Shot |-> row'[s]]
  <2>1. CASE row' = row
    BY <2>1, StoredRow DEF ShotRowInv, Stored
  <2>2. CASE row' = [s \in Shot |-> IF s \in told THEN [row[s] EXCEPT !.thumb = TRUE] ELSE row[s]]
    <3>1. \A s \in Stored : row'[s] = IF s \in told THEN written(s) ELSE row[s]
      BY <1>3, <1>4, <2>2 DEF Stored
    <3>2. \A s \in Shot \ Stored : row'[s] = NoRow
      BY <1>4, <2>2 DEF Stored
    <3>3. row' = [s \in Shot |-> row'[s]]
      BY <2>2
    <3>4. \A s \in Stored : row[s] \in RowType /\ row[s] # NoRow
      BY StoredRow DEF Stored
    <3> QED
      BY <1>3, <3>1, <3>2, <3>3, <3>4
  <2> QED
    BY <1>1, <2>1, <2>2
<1>6. Grown
  BY <1>1, <1>5 DEF Grown, Stored
<1>7. ShotRowInv'
  <2>1. \A s \in Shot : row'[s] \in RowType \cup {NoRow}
    BY <1>5
  <2>2. row' \in [Shot -> RowType \cup {NoRow}]
    BY <1>5, <2>1
  <2>3. \A s \in Stored' : s \in Stored
    BY <1>5 DEF Stored
  <2> QED
    BY <1>1, <1>5, <2>2, <2>3 DEF ShotRowInv
<1>8. /\ q \in RequestType /\ q.at = "ok" /\ q.of = request[r].of /\ request' = [request EXCEPT ![r] = q]
  BY <1>1, <1>2, MovedTyped, RequestBecomes DEF Steps, Moved
<1> HIDE DEF q
<1>9. RequestOKNext(q)
  BY <1>2, <1>6, <1>8, GrownKeeps, HeldFiled DEF RequestOKNext
<1>10. RequestInv'
  BY <1>6, <1>8, <1>9, RequestsMove
<1>11. ASSUME NEW p \in Path PROVE FileInv(p)' /\ ThumbInv(p)'
  <2>1. Torn(p) => Torn(p)'
    BY <1>1, <1>8, PathsMove DEF Torn, Steps
  <2>2. CASE Untold(p) => Untold(p)'
    BY <1>1, <1>6, <2>1, <2>2, PathStays DEF DiskInv
  <2>3. CASE ~(Untold(p) => Untold(p)')
    <3>1. p = request[r].path /\ p \notin unrecorded'
      BY <1>1, <1>8, <2>3, PathsMove DEF Untold, Steps
    <3>2. row' = [s \in Shot |-> IF s \in told THEN [row[s] EXCEPT !.thumb = TRUE] ELSE row[s]]
      BY <1>1, <3>1
    <3>3. PICK t \in Stored : t \in told /\ row[t].path = p
      BY <1>2, <3>1, HeldRow
    <3>4. row'[t].thumb /\ row'[t].path = p /\ t \in Stored'
      BY <1>3, <3>2, <3>3, <1>5, <1>6 DEF Grown
    <3>5. ThumbInv(p)'
      BY <3>4 DEF ThumbInv
    <3>6. FileInv(p)'
      BY <1>1, <1>6, <2>1 DEF DiskInv, FileInv, Grown
    <3> QED
      BY <3>5, <3>6
  <2> QED
    BY <2>2, <2>3
<1>12. DiskInv'
  BY <1>1, <1>2, <1>11 DEF DiskInv
<1> QED
  BY <1>6, <1>7, <1>10, <1>12

LEMMA ServedKeeps == ASSUME ServerInv, NEW r \in Request, Served(r) PROVE Grown /\ StoreInv'
BY WriteFailsKeeps, WriteKeeps, InsertKeeps, FindKeeps, ThumbKeeps, RecordKeeps DEF Served

\* The steps that leave the store alone: a request is sent, given up, or answered.
LEMMA RequestsWait ==
  ASSUME ServerInv, UNCHANGED <<family, storeVars>>,
         \A r \in Request :
           \/ request'[r] = NoRequest /\ request[r].at \notin {"writing", "record"}
           \/ /\ request[r] # NoRequest /\ request'[r] \in RequestType
              /\ request'[r].at = request[r].at /\ request'[r].of = request[r].of
              /\ request'[r].path = request[r].path
           \/ /\ request[r] = NoRequest /\ request'[r] \in RequestType /\ request'[r].at = "insert"
              /\ request'[r].path \in family.paths[request'[r].of]
  PROVE  Grown /\ StoreInv'
<1> USE DEF ServerInv, StoreInv
<1>1. Grown /\ ShotRowInv'
  BY DEF Grown, ShotRowInv, Stored, storeVars
<1>2. ASSUME NEW r \in Request, request'[r] # NoRequest PROVE RequestOKNext(request'[r])
  <2>1. CASE /\ request[r] # NoRequest /\ request'[r] \in RequestType
             /\ request'[r].at = request[r].at /\ request'[r].of = request[r].of
             /\ request'[r].path = request[r].path
    <3>1. RequestOKNext(request[r])
      BY <2>1, <1>1, RequestsStay, RequestFields DEF RequestInv
    <3> QED
      BY <3>1, <2>1 DEF RequestOKNext
  <2>2. CASE /\ request'[r].at = "insert" /\ request'[r].path \in family.paths[request'[r].of]
    BY <2>2 DEF RequestOKNext
  <2> QED
    BY <1>2, <2>1, <2>2
<1>3. RequestInv'
  BY <1>2, NextRequests
<1>4. ASSUME NEW p \in Path, NEW step \in {"writing", "record"}, p \in PathsAt(step) PROVE p \in PathsAt(step)'
  <2>1. PICK r \in Request : request[r] # NoRequest /\ request[r].at = step /\ request[r].path = p
    BY <1>4 DEF PathsAt
  <2>2. request'[r].at = step /\ request'[r].path = p /\ request'[r] \in RequestType
    BY <2>1
  <2> QED
    BY <2>2, ShotConstants DEF PathsAt
<1>5. ASSUME NEW p \in Path PROVE FileInv(p)' /\ ThumbInv(p)'
  <2>1. (Torn(p) => Torn(p)') /\ (Untold(p) => Untold(p)')
    BY <1>4 DEF Torn, Untold, storeVars
  <2> QED
    BY <1>1, <2>1, PathStays DEF DiskInv, storeVars
<1>6. DiskInv'
  BY <1>5 DEF DiskInv, storeVars
<1> QED
  BY <1>1, <1>3, <1>6

LEMMA OthersKeep ==
  ASSUME ServerInv, ShotPcInv,
         \/ UNCHANGED <<family, request, storeVars>>
         \/ \E s \in Shot, r \in Request : SendShot(s, r)
         \/ \E r \in Request : ShotAnswered(r) \/ WaitsNoMore(r)
         \/ AgentDies
  PROVE  Grown /\ StoreInv'
<1> USE RequestFields, ShotConstants DEF ServerInv
<1>1. CASE UNCHANGED <<family, request, storeVars>>
  BY <1>1, RequestsWait
<1>2. ASSUME NEW s \in Shot, NEW r \in Request, SendShot(s, r) PROVE Grown /\ StoreInv'
  <2>0. UNCHANGED <<family, storeVars>>
    BY <1>2 DEF SendShot
  <2>1. CASE request' = request
    BY <2>0, <2>1, RequestsWait
  <2>2. CASE request' # request
    <3>1. PICK p \in family.paths[s] :
            request' = [request EXCEPT ![r] = [at |-> "insert", of |-> s, path |-> p, heard |-> TRUE]]
      BY <1>2, <2>2 DEF SendShot
    <3>2. request[r] = NoRequest
      BY <1>2, <2>2 DEF SendShot
    <3> DEFINE q == [at |-> "insert", of |-> s, path |-> p, heard |-> TRUE]
    <3>3. q \in RequestType /\ q.at = "insert" /\ q.of = s /\ q.path = p
      BY DEF RequestType, FamilyInv
    <3> HIDE DEF q
    <3>4. request' = [request EXCEPT ![r] = q]
      BY <3>1 DEF q
    <3>5. \A x \in Request : request'[x] = IF x = r THEN q ELSE request[x]
      BY <3>4 DEF HeardInv
    <3> QED
      BY <2>0, <3>2, <3>3, <3>5, RequestsWait
  <2> QED
    BY <2>1, <2>2
<1>3. ASSUME NEW r \in Request, ShotAnswered(r) PROVE Grown /\ StoreInv'
  <2>1. UNCHANGED <<family, storeVars>> /\ request[r].at \in {"ok", "failed"}
        /\ request' = [request EXCEPT ![r] = NoRequest]
    BY <1>3 DEF ShotAnswered
  <2>2. \A x \in Request : request'[x] = IF x = r THEN NoRequest ELSE request[x]
    BY <2>1 DEF HeardInv
  <2> QED
    BY <2>1, <2>2, RequestsWait
<1>4. ASSUME NEW r \in Request, WaitsNoMore(r) PROVE Grown /\ StoreInv'
  <2> DEFINE q == [request[r] EXCEPT !.heard = FALSE]
  <2>1. UNCHANGED <<family, storeVars>> /\ request[r] # NoRequest /\ request' = [request EXCEPT ![r].heard = FALSE]
    BY <1>4 DEF WaitsNoMore
  <2>2. request[r] \in RequestType
    BY <2>1
  <2>3. q \in RequestType /\ q.at = request[r].at /\ q.of = request[r].of /\ q.path = request[r].path
    BY <2>2 DEF RequestType
  <2>4. request' = [request EXCEPT ![r] = q]
    BY <2>1
  <2> HIDE DEF q
  <2>5. \A x \in Request : request'[x] = IF x = r THEN q ELSE request[x]
    BY <2>4 DEF HeardInv
  <2> QED
    BY <2>1, <2>3, <2>5, RequestsWait
<1>5. CASE AgentDies
  <2>1. UNCHANGED <<family, storeVars>>
    BY <1>5 DEF AgentDies
  <2>2. \A r \in Request : request'[r] = IF request[r] = NoRequest THEN NoRequest
                                         ELSE [request[r] EXCEPT !.heard = FALSE]
    BY <1>5 DEF AgentDies
  <2>3. ASSUME NEW q \in RequestType
        PROVE  LET y == [q EXCEPT !.heard = FALSE]
               IN  y \in RequestType /\ y.at = q.at /\ y.of = q.of /\ y.path = q.path
    BY DEF RequestType
  <2>4. ASSUME NEW r \in Request
        PROVE  \/ request'[r] = NoRequest /\ request[r].at \notin {"writing", "record"}
               \/ /\ request[r] # NoRequest /\ request'[r] \in RequestType
                  /\ request'[r].at = request[r].at /\ request'[r].of = request[r].of
                  /\ request'[r].path = request[r].path
    BY <2>2, <2>3
  <2> QED
    BY <2>1, <2>4, RequestsWait
<1> QED
  BY <1>1, <1>2, <1>3, <1>4, <1>5

LEMMA ServerDiesKeeps ==
  ASSUME ServerInv, ServerDies
  PROVE  Grown /\ StoreInv'
<1> USE DEF ServerInv, StoreInv
<1>1. /\ family' = family /\ row' = row /\ disk' = disk /\ thumbs' = thumbs
      /\ hurt' = hurt \cup PathsAt("writing") /\ unrecorded' = unrecorded \cup PathsAt("record")
      /\ \A r \in Request : request'[r] = NoRequest
  BY DEF ServerDies
<1>2. Grown /\ ShotRowInv'
  BY <1>1 DEF Grown, ShotRowInv, Stored
<1>3. RequestInv'
  BY <1>1 DEF RequestInv
<1>4. \A step \in Steps : PathsAt(step) \subseteq Path
  BY RequestFields DEF PathsAt
<1>5. ASSUME NEW p \in Path PROVE FileInv(p)' /\ ThumbInv(p)'
  <2>1. (Torn(p) => Torn(p)') /\ (Untold(p) => Untold(p)')
    BY <1>1 DEF Torn, Untold
  <2> QED
    BY <1>1, <1>2, <2>1, PathStays DEF DiskInv
<1>6. DiskInv'
  BY <1>1, <1>4, <1>5 DEF DiskInv, Steps
<1> QED
  BY <1>2, <1>3, <1>6

\* The retention job, when nothing is under way any more.
LEMMA PurgeKeeps ==
  ASSUME ServerInv, PurgeInv, PurgeMarks \/ PurgeRows \/ \E s \in Shot : PurgeFiles(s)
  PROVE  StoreInv' /\ PurgeInv' /\ \A s \in Shot : Retired(s)'
<1> USE ShotConstants DEF ServerInv, StoreInv
<1>0. /\ aged /\ aged' = aged /\ family' = family /\ request' = request /\ hurt' = hurt /\ unrecorded' = unrecorded
      /\ \A r \in Request : request[r] = NoRequest
  <2>1. aged
    BY DEF PurgeMarks, PurgeRows, PurgeFiles, PurgeInv, Asleep
  <2>2. UNCHANGED <<family, request, hurt, unrecorded, aged>>
    BY DEF PurgeMarks, PurgeRows, PurgeFiles, Retaining
  <2> QED
    BY <2>1, <2>2 DEF HeardInv
<1>a. RequestInv'
  BY <1>0 DEF RequestInv
<1>b. \A p \in Path : (Torn(p) => Torn(p)') /\ (Untold(p) => Untold(p)')
  BY <1>0 DEF Torn, Untold, PathsAt
<1>1. CASE PurgeMarks
  <2> DEFINE marked(s) == [path |-> row[s].path, thumb |-> row[s].thumb, marked |-> TRUE]
  <2>1. /\ disk' = disk /\ thumbs' = thumbs /\ purge' = [at |-> "files", todo |-> Stored, gone |-> {}]
        /\ row' = [s \in Shot |-> IF s \in Stored THEN [row[s] EXCEPT !.marked = TRUE] ELSE NoRow]
    BY <1>1 DEF PurgeMarks
  <2>2. ASSUME NEW s \in Stored
        PROVE  /\ s \in Shot /\ [row[s] EXCEPT !.marked = TRUE] = marked(s) /\ marked(s) \in RowType
               /\ marked(s).path = row[s].path /\ (row[s].thumb => marked(s).thumb) /\ marked(s).marked
    <3>1. s \in Shot /\ row[s] \in RowType
      BY StoredRow
    <3>2. \A t : [row[s] EXCEPT !.marked = t] = [path |-> row[s].path, thumb |-> row[s].thumb, marked |-> t]
      BY <3>1 DEF RowType
    <3>3. marked(s) \in RowType
      BY <3>1 DEF RowType
    <3> QED
      BY <3>1, <3>2, <3>3
  <2> HIDE DEF marked
  <2>3. \A s \in Shot : row'[s] = IF s \in Stored THEN marked(s) ELSE NoRow
    BY <2>1, <2>2
  <2>4. Stored' = Stored
    BY <2>2, <2>3 DEF Stored
  <2>5. Grown
    BY <1>0, <2>1, <2>2, <2>3, <2>4 DEF Grown
  <2>6. row' \in [Shot -> RowType \cup {NoRow}]
    <3>1. row' = [s \in Shot |-> row'[s]] /\ \A s \in Shot : row'[s] \in RowType \cup {NoRow}
      BY <2>1, <2>2, <2>3
    <3> QED
      BY <3>1
  <2>7. ShotRowInv'
    BY <1>0, <2>2, <2>3, <2>4, <2>6 DEF ShotRowInv
  <2>8. DiskInv'
    BY <1>0, <1>b, <2>1, <2>5, PathStays DEF DiskInv
  <2>9. purge' \in PurgeType /\ purge'.todo = Stored /\ purge'.gone = {}
    BY <2>1 DEF PurgeType, Stored
  <2>10. PurgeInv'
    BY <1>0, <2>2, <2>3, <2>4, <2>9 DEF PurgeInv
  <2>11. \A s \in Shot : Retired(s)'
    BY <1>0, <2>2, <2>3 DEF Retired
  <2> QED
    BY <1>a, <2>7, <2>8, <2>10, <2>11
<1>2. ASSUME NEW s \in Shot, PurgeFiles(s) PROVE StoreInv' /\ PurgeInv' /\ \A x \in Shot : Retired(x)'
  <2>1. PICK file \in BOOLEAN, thumb \in BOOLEAN :
          /\ disk' = IF file THEN [disk EXCEPT ![row[s].path] = NoFile] ELSE disk
          /\ thumbs' = IF thumb /\ row[s].thumb THEN thumbs \ {row[s].path} ELSE thumbs
          /\ purge' = [at |-> "files", todo |-> purge.todo \ {s},
                       gone |-> IF file /\ thumb THEN purge.gone \cup {s} ELSE purge.gone]
    BY <1>2 DEF PurgeFiles
  <2>2. row' = row /\ purge # Asleep /\ s \in purge.todo /\ purge \in PurgeType
    BY <1>2 DEF PurgeFiles, PurgeInv, Asleep
  <2>3. s \in Stored /\ row[s].path \in Path
    BY <2>2, StoredRow DEF PurgeInv
  <2>4. \A p \in Path : disk'[p] \in {disk[p], NoFile}
    BY <2>1 DEF DiskInv
  <2>5. disk' \in [Path -> FileType] /\ thumbs' \subseteq thumbs
    BY <2>1 DEF DiskInv
  <2>6. ASSUME NEW p \in Path PROVE FileInv(p)' /\ ThumbInv(p)'
    <3>1. FileInv(p)'
      BY <1>0, <1>b, <2>2, <2>4 DEF DiskInv, FileInv, Stored
    <3>2. ThumbInv(p)'
      BY <1>0, <1>b, <2>2, <2>5 DEF DiskInv, ThumbInv, Stored
    <3> QED
      BY <3>1, <3>2
  <2>7. DiskInv'
    BY <1>0, <2>5, <2>6 DEF DiskInv
  <2>8. ShotRowInv'
    BY <1>0, <2>2 DEF ShotRowInv, Stored
  <2>9. /\ purge' \in PurgeType /\ purge'.todo \subseteq purge.todo
        /\ purge'.gone = IF file /\ thumb THEN purge.gone \cup {s} ELSE purge.gone
    BY <2>1, <2>2 DEF PurgeType
  <2>10. \A x \in purge'.gone : /\ disk'[row[x].path] = NoFile
                                /\ row[x].thumb => row[x].path \notin thumbs'
    <3>1. ASSUME NEW x \in purge.gone PROVE disk'[row[x].path] = NoFile /\ (row[x].thumb => row[x].path \notin thumbs')
      <4>1. disk[row[x].path] = NoFile /\ row[x].path \in Path /\ (row[x].thumb => row[x].path \notin thumbs)
        BY <2>2, StoredRow DEF PurgeInv
      <4> QED
        BY <4>1, <2>4, <2>5
    <3>2. file /\ thumb => disk'[row[s].path] = NoFile /\ (row[s].thumb => row[s].path \notin thumbs')
      BY <2>1, <2>3 DEF DiskInv
    <3> QED
      BY <2>9, <3>1, <3>2
  <2>11. purge'.gone \subseteq Stored /\ purge'.todo \subseteq Stored /\ Stored' = Stored
    BY <2>2, <2>3, <2>9 DEF PurgeInv, Stored
  <2>12. PurgeInv'
    BY <1>0, <2>2, <2>9, <2>10, <2>11 DEF PurgeInv
  <2>13. \A x \in Shot : Retired(x)'
    BY <1>0, <2>2 DEF Retired, PurgeInv, Stored
  <2> QED
    BY <1>a, <2>7, <2>8, <2>12, <2>13
<1>3. CASE PurgeRows
  <2>1. /\ row' = [s \in Shot |-> IF s \in purge.gone THEN NoRow ELSE row[s]]
        /\ purge' = Asleep /\ disk' = disk /\ thumbs' = thumbs /\ purge # Asleep
    BY <1>3 DEF PurgeRows, Deletable, Asleep
  <2>2. \A s \in Shot : row'[s] = IF s \in purge.gone THEN NoRow ELSE row[s]
    BY <2>1
  <2>3. Stored' = Stored \ purge.gone
    BY <2>2 DEF Stored
  <2>4. ShotRowInv'
    BY <1>0, <2>1, <2>2, <2>3 DEF ShotRowInv, Stored
  <2>5. ASSUME NEW p \in Path PROVE FileInv(p)' /\ ThumbInv(p)'
    <3>1. \A s \in purge.gone : disk[row[s].path] = NoFile /\ (row[s].thumb => row[s].path \notin thumbs)
      BY <2>1 DEF PurgeInv
    <3>2. FileInv(p)'
      BY <1>0, <1>b, <2>1, <2>2, <2>3, <3>1 DEF DiskInv, FileInv, Stored
    <3>3. ThumbInv(p)'
      BY <1>0, <1>b, <2>1, <2>2, <2>3, <3>1 DEF DiskInv, ThumbInv, Stored
    <3> QED
      BY <3>2, <3>3
  <2>6. DiskInv'
    BY <1>0, <2>1, <2>5 DEF DiskInv
  <2>7. PurgeInv'
    BY <2>1 DEF PurgeInv
  <2>8. \A s \in Shot : Retired(s)'
    BY <1>0, <2>1, <2>2 DEF Retired, PurgeInv, Stored
  <2> QED
    BY <1>a, <2>4, <2>6, <2>7, <2>8
<1> QED
  BY <1>1, <1>2, <1>3

\* Every step.
PurgeStep == PurgeMarks \/ PurgeRows \/ \E s \in Shot : PurgeFiles(s)

LEMMA StoreStep ==
  ASSUME ServerInv, ShotPcInv, PurgeInv, ShotsNext \/ UNCHANGED shotVars
  PROVE  StoreInv' /\ (Grown \/ (PurgeStep /\ \A s \in Shot : Retired(s)'))
<1>1. CASE PurgeStep
  BY <1>1, PurgeKeeps DEF PurgeStep
<1>2. ASSUME NEW r \in Request, Served(r) PROVE Grown /\ StoreInv'
  BY <1>2, ServedKeeps
<1>3. CASE ServerDies
  BY <1>3, ServerDiesKeeps
<1>4. CASE \/ \E s \in Shot, r \in Request : SendShot(s, r)
           \/ \E r \in Request : ShotAnswered(r) \/ WaitsNoMore(r)
           \/ AgentDies
  BY <1>4, OthersKeep
<1>5. CASE UNCHANGED <<family, request, storeVars>>
  BY <1>5, OthersKeep
<1>6. CASE NinetyDays \/ HourPasses \/ SweepReads \/ SweepDeletes \/ UNCHANGED shotVars
           \/ \E s \in Shot : Capture(s) \/ EnqueueShot(s)
  BY <1>5, <1>6 DEF NinetyDays, HourPasses, SweepReads, SweepDeletes, Capture, EnqueueShot, shotVars
<1> QED
  BY <1>1, <1>2, <1>3, <1>4, <1>6 DEF ShotsNext, OnPc, Retention, PurgeStep

LEMMA PurgeStepKeeps ==
  ASSUME ServerInv, ShotPcInv, PurgeInv, ShotsNext \/ UNCHANGED shotVars
  PROVE  PurgeInv'
<1>1. CASE PurgeStep
  BY <1>1, PurgeKeeps DEF PurgeStep
<1>2. ASSUME NEW r \in Request, Served(r) PROVE PurgeInv'
  <2>1. ~aged /\ purge' = purge
    BY <1>2, ServedStep DEF HeardInv, ServerInv, StoreInv, Served, InsertRow, FindRow, WriteBegins, WriteFails, WriteEnds,
       ThumbWritten, ThumbRecorded, Serving
  <2> QED
    BY <2>1 DEF PurgeInv
<1>3. CASE ServerDies
  BY <1>3 DEF ServerDies, PurgeInv
<1>4. CASE purge' = purge /\ UNCHANGED storeVars /\ (aged => aged')
  BY <1>4 DEF PurgeInv, storeVars, Stored
<1>5. CASE \/ \E s \in Shot, r \in Request : SendShot(s, r)
           \/ \E r \in Request : ShotAnswered(r) \/ WaitsNoMore(r)
           \/ AgentDies \/ NinetyDays \/ HourPasses \/ SweepReads \/ SweepDeletes \/ UNCHANGED shotVars
           \/ \E s \in Shot : Capture(s) \/ EnqueueShot(s)
  BY <1>4, <1>5 DEF SendShot, ShotAnswered, WaitsNoMore, AgentDies, NinetyDays, HourPasses, SweepReads,
     SweepDeletes, Capture, EnqueueShot, shotVars
<1> QED
  BY <1>1, <1>2, <1>3, <1>5 DEF ShotsNext, OnPc, Retention, PurgeStep

LEMMA DoneStep ==
  ASSUME ServerInv, ShotPcInv, PurgeInv, DoneInv, ShotsNext \/ UNCHANGED shotVars
  PROVE  DoneInv'
<1> USE DEF ServerInv, StoreInv
<1>1. CASE \A s \in Shot : Retired(s)'
  BY <1>1 DEF DoneInv
<1>2. CASE Grown
  <2>0. Filed \subseteq Filed'
    BY <1>2, GrownKeeps
  <2>1. ASSUME NEW r \in Request, ShotAnswered(r) PROVE DoneInv'
    <3>1. ~aged /\ request[r] # NoRequest /\ request[r].of \in Shot
      BY <2>1, RequestFields DEF ShotAnswered, HeardInv
    <3>2. \A s \in Shot : shot'[s] = "done" => shot[s] = "done" \/ (s = request[r].of /\ request[r].at = "ok")
      BY <2>1, <3>1 DEF ShotAnswered, ShotPcInv
    <3>3. request[r].at = "ok" => request[r].of \in Filed
      BY <3>1 DEF RequestInv, RequestOK
    <3> QED
      BY <2>0, <3>1, <3>2, <3>3 DEF DoneInv, Retired
  <2>2. ASSUME NEW r \in Request, Served(r) PROVE DoneInv'
    <3>1. ~aged /\ shot' = shot
      BY <2>2, ServedStep DEF HeardInv
    <3> QED
      BY <2>0, <3>1 DEF DoneInv, Retired
  <2>3. CASE (\A s \in Shot : shot'[s] = "done" => shot[s] = "done") /\ row' = row /\ (aged => aged')
    BY <2>0, <2>3 DEF DoneInv, Retired
  <2>4. ASSUME NEW s \in Shot, NEW r \in Request, SendShot(s, r) PROVE DoneInv'
    BY <2>3, <2>4 DEF SendShot, storeVars, ShotPcInv
  <2>5. CASE AgentDies
    <3>1. \A s \in Shot : shot'[s] = "done" => shot[s] = "done"
      BY <2>5 DEF AgentDies
    <3> QED
      BY <2>3, <2>5, <3>1 DEF AgentDies, storeVars
  <2>6. CASE ServerDies
    BY <2>3, <2>6 DEF ServerDies
  <2>7. ASSUME NEW r \in Request, WaitsNoMore(r) PROVE DoneInv'
    BY <2>3, <2>7, RequestFields DEF WaitsNoMore, storeVars, ShotPcInv
  <2>8. CASE \/ NinetyDays \/ HourPasses \/ SweepReads \/ SweepDeletes \/ UNCHANGED shotVars
             \/ \E s \in Shot : Capture(s) \/ EnqueueShot(s)
    BY <2>3, <2>8 DEF NinetyDays, HourPasses, SweepReads, SweepDeletes, Capture, EnqueueShot, storeVars,
       pcShotVars, shotVars, ShotPcInv
  <2>9. CASE PurgeStep
    BY <1>1, <2>9, PurgeKeeps DEF PurgeStep
  <2> QED
    BY <2>1, <2>2, <2>4, <2>5, <2>6, <2>7, <2>8, <2>9 DEF ShotsNext, OnPc, Retention, PurgeStep
<1> QED
  BY <1>1, <1>2, StoreStep

LEMMA ShotStep == ShotInv /\ [ShotsNext]_shotVars => ShotInv'
<1> SUFFICES ASSUME ShotInv, [ShotsNext]_shotVars PROVE ShotInv'
  OBVIOUS
<1>1. /\ ServerInv /\ FamilyInv /\ ShotPcInv /\ HeardInv /\ ShotRowInv /\ PurgeInv /\ DoneInv
      /\ ShotsNext \/ UNCHANGED shotVars
  BY DEF ShotInv, ServerInv, StoreInv
<1>2. ShotPcInv'
  BY <1>1, PcStep
<1>3. HeardInv'
  BY <1>1, HeardStep
<1>4. StoreInv' /\ family' = family
  <2>1. PurgeStep => family' = family
    BY DEF PurgeStep, PurgeMarks, PurgeRows, PurgeFiles, Retaining
  <2> QED
    BY <1>1, <2>1, StoreStep DEF Grown
<1>5. PurgeInv'
  BY <1>1, PurgeStepKeeps
<1>6. DoneInv'
  BY <1>1, DoneStep
<1>7. mishaps' \in 0 .. MaxMishaps
  <2>1. mishaps' = mishaps \/ Mishandled
    BY <1>1 DEF ShotsNext, OnPc, Served, Retention, Capture, EnqueueShot, SendShot, InsertRow, FindRow,
       WriteBegins, WriteFails, WriteEnds, ThumbWritten, ThumbRecorded, Serving, ShotAnswered, WaitsNoMore,
       HourPasses, SweepReads, SweepDeletes, AgentDies, ServerDies, NinetyDays, PurgeMarks, PurgeRows,
       PurgeFiles, Sometimes, shotVars
  <2> QED
    BY <2>1, ShotsAssumption DEF ShotInv, Mishandled
<1> QED
  BY <1>1, <1>2, <1>3, <1>4, <1>5, <1>6, <1>7 DEF ShotInv, StoreInv, FamilyInv

\* A file that is there is the slot's picture, but for the named excuses.
LEMMA FiledIsKept ==
  ASSUME FamilyInv, ShotRowInv, DiskInv, NEW s \in Filed
  PROVE  \E t \in Existing(s) : Whole(t) \/ Excused(t)
<1>1. PICK t \in Existing(s) : disk[row[t].path] # NoFile
  BY DEF Filed
<1>2. t \in Stored /\ t \in Shot /\ row[t].path \in Path /\ row[t] # NoRow
  BY StoredRow DEF Existing, Stored
<1>3. /\ disk[row[t].path].whole \/ Torn(row[t].path)
      /\ \E u \in Shot : /\ family.slot[u] = family.slot[disk[row[t].path].pic]
                         /\ row[t].path \in family.paths[u]
  BY <1>1, <1>2 DEF DiskInv, FileInv
<1>4. CASE Torn(row[t].path)
  BY <1>4 DEF Torn, Excused
<1>5. CASE disk[row[t].path].whole /\ family.slot[disk[row[t].path].pic] = family.slot[t]
  BY <1>5 DEF Whole
<1>6. CASE family.slot[disk[row[t].path].pic] # family.slot[t]
  BY <1>2, <1>3, <1>6 DEF Excused, Shared
<1> QED
  BY <1>3, <1>4, <1>5, <1>6

\* No shot is lost on its way, and no file is left behind without a row, for any number of
\* shots, slots, requests and mishaps: through retries, answers that come too late, ends of
\* the agent or the server between any two steps, and the retention job
\* (screenshot-ingest.service.ts:230-250, retention.job.ts:37-61).
THEOREM ShotsArrive == ShotsSpec => [](ShotsTypeOK /\ ShotsSound)
<1>1. ShotInv => ShotsTypeOK
  BY DEF ShotInv, ShotPcInv, ShotRowInv, DiskInv, HeardInv, ShotsTypeOK, ShotStates, RowType, FileType
<1>2. ASSUME ShotInv PROVE ShotKept
  <2>1. \A s \in Shot : shot[s] = "dropped" => s \in slept
    BY <1>2 DEF ShotInv, ShotPcInv
  <2>2. \A s \in Shot : shot[s] = "done" => Retired(s) \/ \E t \in Existing(s) : Whole(t) \/ Excused(t)
    BY <1>2, FiledIsKept DEF ShotInv, DoneInv
  <2> QED
    BY <2>1, <2>2 DEF ShotKept
<1>3. ASSUME ShotInv PROVE NoStrays
  <2>1. \A p \in Path : disk[p] # NoFile => \E s \in Stored : row[s].path = p
    BY <1>3 DEF ShotInv, DiskInv, FileInv
  <2>2. ASSUME NEW p \in thumbs PROVE p \in unrecorded \/ \E s \in Stored : row[s].path = p
    <3>1. p \in Path /\ ThumbInv(p)
      BY <1>3 DEF ShotInv, DiskInv
    <3>2. CASE p \in PathsAt("record")
      <4>1. PICK r \in Request : request[r] # NoRequest /\ request[r].at = "record" /\ request[r].path = p
        BY <3>2 DEF PathsAt
      <4>2. p \in Owns[request[r].of] /\ request[r].of \in Shot
        BY <1>3, <4>1, RequestFields DEF ShotInv, RequestInv, RequestOK
      <4> QED
        BY <1>3, <4>2, HeldRow DEF ShotInv
    <3> QED
      BY <3>1, <3>2 DEF ThumbInv, Untold
  <2> QED
    BY <2>1, <2>2 DEF NoStrays
<1>4. ShotInv => ShotsTypeOK /\ ShotsSound
  BY <1>1, <1>2, <1>3 DEF ShotsSound
<1> QED
  BY <1>4, ShotsInitially, ShotStep, PTL DEF ShotsSpec

-----------------------------------------------------------------------------
\* The segments of a PC, as the server stores them (WorkSessions).

\* What a request may have made of a segment.
AsSent(s, d) ==
  /\ \A p \in stored : p.seg = s => Part(s, p.i, p.from, p.to) \in PartsOf(s, d)
  /\ \A x \in PartsOf(s, d) : \E p \in stored : p.seg = s /\ p.i = x.i
Mixed(s) == s \in again /\ (\E d \in Drifts : Crosses(s, d)) /\ \E d \in Drifts : ~Crosses(s, d)
NotStored(s) == \A p \in stored : p.seg # s

\* A transaction under way corrects all it was sent by one drift.
BatchesInv ==
  /\ unsent \subseteq Seg /\ batch = [b \in Batch |-> batch[b]]
  /\ \A b \in Batch : batch[b] # NoBatch =>
       /\ batch[b].segs \subseteq Seg
       /\ \E d \in Drifts : batch[b].parts = UNION {PartsOf(s, d) : s \in batch[b].segs}

\* What was not sent again is in the outbox, in one transaction, or stored.
SentOnceInv ==
  \A s \in Seg \ again :
    /\ s \in unsent => NotStored(s) /\ \A b \in Batch : s \notin batch[b].segs
    /\ \A b \in Batch : s \in batch[b].segs =>
         NotStored(s) /\ \A c \in Batch : s \in batch[c].segs => b = c

UniqueInv == \A p, q \in stored : p.seg = q.seg /\ p.i = q.i => p = q

\* What is stored of a segment is what one request made of it.
WholeInv == \A s \in Seg : NotStored(s) \/ Mixed(s) \/ \E d \in Drifts : AsSent(s, d)

SegmentsInv == BatchesInv /\ SentOnceInv /\ UniqueInv /\ WholeInv

LEMMA PartsAre ==
  ASSUME NEW s \in Seg, NEW d \in Drifts
  PROVE  LET from == Span[s].from + d
             to   == Span[s].to + d
         IN  /\ from \in Int /\ to \in Int
             /\ ~Crosses(s, d) => PartsOf(s, d) = {Part(s, 0, from, to)}
             /\ Crosses(s, d) => PartsOf(s, d) = {Part(s, 0, from, Midnight(from)), Part(s, 1, Midnight(from), to)}
<1> DEFINE from == Span[s].from + d
           to   == Span[s].to + d
<1>1. from \in Int /\ to \in Int
  BY SessionsAssumption
<1>2. Midnight(from) \in Int
  BY <1>1, SessionsAssumption DEF Midnight, Date
<1>3. Crosses(s, d) <=> ~(to <= Midnight(from))
  BY <1>1, <1>2 DEF Crosses
<1> QED BY <1>1, <1>3 DEF PartsOf

\* The places of the parts, and that a part is known by its place.
LEMMA PlacesAre ==
  ASSUME NEW s \in Seg, NEW d \in Drifts
  PROVE  /\ \A x \in PartsOf(s, d) : x.seg = s /\ x.i \in {0, 1} /\ x = Part(s, x.i, x.from, x.to)
         /\ \A x, y \in PartsOf(s, d) : x.i = y.i => x = y
         /\ \E x \in PartsOf(s, d) : x.i = 0
         /\ Crosses(s, d) <=> \E x \in PartsOf(s, d) : x.i = 1
<1> DEFINE from == Span[s].from + d
           to   == Span[s].to + d
<1>1. CASE ~Crosses(s, d)
  <2>1. PartsOf(s, d) = {Part(s, 0, from, to)}
    BY <1>1, PartsAre
  <2>2. Part(s, 0, from, to).i = 0 /\ Part(s, 0, from, to).seg = s
        /\ Part(s, 0, from, to).from = from /\ Part(s, 0, from, to).to = to
    BY DEF Part
  <2> HIDE DEF from, to
  <2> QED BY <1>1, <2>1, <2>2
<1>2. CASE Crosses(s, d)
  <2> DEFINE x == Part(s, 0, from, Midnight(from))
             y == Part(s, 1, Midnight(from), to)
  <2>1. PartsOf(s, d) = {x, y}
    BY <1>2, PartsAre
  <2>2. /\ x.i = 0 /\ x.seg = s /\ x = Part(s, x.i, x.from, x.to)
        /\ y.i = 1 /\ y.seg = s /\ y = Part(s, y.i, y.from, y.to)
    BY DEF Part
  <2> HIDE DEF x, y
  <2> QED BY <1>2, <2>1, <2>2
<1> QED BY <1>1, <1>2

\* A segment cut by one drift is stored whole.
LEMMA SentIsWhole ==
  ASSUME UniqueInv, NEW s \in Seg, NEW d \in Drifts, AsSent(s, d)
  PROVE  StoredWhole(s)
<1> DEFINE from == Span[s].from + d
           to   == Span[s].to + d
           mid  == Midnight(from)
           own == {r \in stored : r.seg = s}
<1>1. from \in Int /\ to \in Int /\ to - from = Span[s].to - Span[s].from
  BY SessionsAssumption
<1>2. /\ \A p \in own : Part(s, p.i, p.from, p.to) \in PartsOf(s, d)
      /\ \A x \in PartsOf(s, d) : \E p \in own : p.i = x.i
      /\ \A p, q \in own : p.i = q.i => p = q
  BY DEF AsSent, UniqueInv
<1>3. \A j, a, b : /\ Part(s, j, a, b).i = j /\ Part(s, j, a, b).from = a /\ Part(s, j, a, b).to = b
  BY DEF Part
<1>4. CASE ~Crosses(s, d)
  <2>1. PartsOf(s, d) = {Part(s, 0, from, to)}
    BY <1>4, PartsAre
  <2> HIDE DEF own, from, to, mid
  <2>2. PICK p \in own : p.i = 0
    BY <1>2, <1>3, <2>1
  <2>3. \A q \in own : q.i = 0 /\ q.from = from /\ q.to = to
    BY <1>2, <1>3, <2>1
  <2>4. own = {p, p}
    BY <1>2, <2>2, <2>3
  <2> QED BY <1>1, <2>2, <2>3, <2>4 DEF StoredWhole, own
<1>5. CASE Crosses(s, d)
  <2>1. PartsOf(s, d) = {Part(s, 0, from, mid), Part(s, 1, mid, to)}
    BY <1>5, PartsAre
  <2> HIDE DEF own, from, to, mid
  <2>2. PICK p \in own : p.i = 0
    BY <1>2, <1>3, <2>1
  <2>3. PICK q \in own : q.i = 1
    BY <1>2, <1>3, <2>1
  <2>4. \A r \in own : (r.i = 0 /\ r.from = from /\ r.to = mid) \/ (r.i = 1 /\ r.from = mid /\ r.to = to)
    BY <1>2, <1>3, <2>1
  <2>5. own = {p, q}
    BY <1>2, <2>2, <2>3, <2>4
  <2>6. p.from = from /\ p.to = mid /\ q.from = mid /\ q.to = to
    BY <2>2, <2>3, <2>4
  <2> QED BY <1>1, <2>2, <2>3, <2>5, <2>6 DEF StoredWhole, own
<1> QED BY <1>4, <1>5

\* Nothing is stored, sent or lost.
AwayFromStore == UNCHANGED <<unsent, batch, stored, again>>
LEMMA ElsewhereStep == SegmentsInv /\ AwayFromStore => SegmentsInv'
<1> SUFFICES ASSUME SegmentsInv, AwayFromStore PROVE SegmentsInv'
  OBVIOUS
<1>1. unsent' = unsent /\ batch' = batch /\ stored' = stored /\ again' = again
  BY DEF AwayFromStore
<1>2. BatchesInv' /\ SentOnceInv' /\ UniqueInv'
  BY <1>1 DEF SegmentsInv, BatchesInv, SentOnceInv, NotStored, UniqueInv
<1>3. WholeInv'
  BY <1>1 DEF SegmentsInv, WholeInv, NotStored, Mixed, AsSent
<1> QED BY <1>2, <1>3 DEF SegmentsInv

LEMMA IngestStep == ASSUME SegmentsInv, NEW b \in Batch, Ingest(b) PROVE SegmentsInv'
<1>1. PICK sent \in SUBSET unsent \ {{}}, drift \in Drifts :
        LET parts == UNION {PartsOf(s, drift) : s \in sent}
        IN  /\ batch' = [batch EXCEPT ![b] =
                 [segs |-> sent, parts |-> parts, who |-> owner, heard |-> TRUE,
                  read |-> session, plan |-> Resolved(owner, parts)]]
            /\ unsent' = unsent \ sent
  BY DEF Ingest
<1>2. batch[b] = NoBatch /\ stored' = stored /\ again' = again
  BY DEF Ingest
<1>3. BatchesInv /\ SentOnceInv /\ UniqueInv /\ WholeInv
  BY DEF SegmentsInv
<1> DEFINE parts == UNION {PartsOf(s, drift) : s \in sent}
           new   == [segs |-> sent, parts |-> parts, who |-> owner, heard |-> TRUE,
                     read |-> session, plan |-> Resolved(owner, parts)]
<1>4. batch' = [batch EXCEPT ![b] = new] /\ unsent' = unsent \ sent
  BY <1>1
<1>5. new.segs = sent /\ new.parts = UNION {PartsOf(s, drift) : s \in sent}
  OBVIOUS
<1> HIDE DEF new, parts
<1>6. batch = [c \in Batch |-> batch[c]] /\ unsent \subseteq Seg
  BY <1>3 DEF BatchesInv
<1>7. batch' = [c \in Batch |-> batch'[c]] /\ batch'[b] = new /\ \A c \in Batch : c # b => batch'[c] = batch[c]
  BY <1>4, <1>6
<1>8. BatchesInv'
  <2>1. new.segs \subseteq Seg /\ unsent' \subseteq Seg
    BY <1>4, <1>5, <1>6
  <2>2. ASSUME NEW c \in Batch, batch'[c] # NoBatch
        PROVE  /\ batch'[c].segs \subseteq Seg
               /\ \E d \in Drifts : batch'[c].parts = UNION {PartsOf(s, d) : s \in batch'[c].segs}
    <3>1. CASE c = b
      BY <1>5, <1>7, <2>1, <3>1
    <3>2. CASE c # b
      BY <1>3, <1>7, <2>2, <3>2 DEF BatchesInv
    <3> QED BY <3>1, <3>2
  <2> QED BY <1>7, <2>1, <2>2 DEF BatchesInv
<1>9. SentOnceInv'
  <2> SUFFICES ASSUME NEW s \in Seg \ again
               PROVE  /\ s \in unsent' => NotStored(s)' /\ \A c \in Batch : s \notin batch'[c].segs
                      /\ \A c \in Batch : s \in batch'[c].segs =>
                           NotStored(s)' /\ \A e \in Batch : s \in batch'[e].segs => c = e
    BY <1>2 DEF SentOnceInv
  <2>1. /\ s \in unsent => NotStored(s) /\ \A c \in Batch : s \notin batch[c].segs
        /\ \A c \in Batch : s \in batch[c].segs =>
             NotStored(s) /\ \A e \in Batch : s \in batch[e].segs => c = e
    BY <1>3 DEF SentOnceInv
  <2>2. NotStored(s)' = NotStored(s)
    BY <1>2 DEF NotStored
  <2>3. sent \subseteq unsent
    BY <1>1
  <2> QED BY <1>4, <1>5, <1>7, <2>1, <2>2, <2>3
<1>10. UniqueInv' /\ WholeInv'
  BY <1>2, <1>3 DEF UniqueInv, WholeInv, NotStored, Mixed, AsSent
<1> QED BY <1>8, <1>9, <1>10 DEF SegmentsInv

\* A transaction ends without a trace, or its answer is lost.
LEMMA LostStep == ASSUME SegmentsInv, NEW b \in Batch, AnswerLost(b) \/ Abort(b) PROVE SegmentsInv'
<1>1. BatchesInv /\ SentOnceInv /\ UniqueInv /\ WholeInv
  BY DEF SegmentsInv
<1>2. batch[b] # NoBatch /\ stored' = stored
  BY DEF AnswerLost, Abort
<1>3. /\ batch = [c \in Batch |-> batch[c]] /\ unsent \subseteq Seg /\ batch[b].segs \subseteq Seg
      /\ \A c \in Batch : batch[c] # NoBatch =>
           /\ batch[c].segs \subseteq Seg
           /\ \E d \in Drifts : batch[c].parts = UNION {PartsOf(s, d) : s \in batch[c].segs}
  BY <1>1, <1>2 DEF BatchesInv
<1>4. CASE AnswerLost(b)
  <2>1. /\ batch' = [batch EXCEPT ![b].heard = FALSE]
        /\ unsent' = unsent \cup batch[b].segs /\ again' = again \cup batch[b].segs
    BY <1>4 DEF AnswerLost
  <2>2. /\ batch' = [c \in Batch |-> batch'[c]]
        /\ \A c \in Batch : c # b => batch'[c] = batch[c]
        /\ batch'[b] = [batch[b] EXCEPT !.heard = FALSE]
    BY <1>3, <2>1
  <2>3. batch'[b].segs = batch[b].segs /\ (batch'[b] # NoBatch => batch'[b].parts = batch[b].parts)
    BY <2>2
  <2>4. BatchesInv'
    <3>1. unsent' \subseteq Seg
      BY <1>3, <2>1
    <3>2. ASSUME NEW c \in Batch, batch'[c] # NoBatch
          PROVE  /\ batch'[c].segs \subseteq Seg
                 /\ \E d \in Drifts : batch'[c].parts = UNION {PartsOf(s, d) : s \in batch'[c].segs}
      <4>1. CASE c = b
        <5>1. PICK d \in Drifts : batch[b].parts = UNION {PartsOf(s, d) : s \in batch[b].segs}
          BY <1>2, <1>3
        <5>2. batch'[b].parts = UNION {PartsOf(s, d) : s \in batch'[b].segs}
          BY <2>3, <3>2, <4>1, <5>1
        <5> QED BY <1>3, <2>3, <4>1, <5>2
      <4>2. CASE c # b
        BY <1>3, <2>2, <3>2, <4>2
      <4> QED BY <4>1, <4>2
    <3> QED BY <2>2, <3>1, <3>2 DEF BatchesInv
  <2>5. SentOnceInv'
    <3>1. \A c \in Batch : batch'[c].segs = batch[c].segs
      BY <2>2, <2>3
    <3>2. \A s \in Seg \ again' : s \in Seg \ again /\ (s \in unsent' => s \in unsent)
      BY <2>1
    <3> QED BY <1>1, <1>2, <3>1, <3>2 DEF SentOnceInv, NotStored
  <2>6. UniqueInv' /\ WholeInv'
    BY <1>1, <1>2, <2>1 DEF UniqueInv, WholeInv, NotStored, Mixed, AsSent
  <2> QED BY <2>4, <2>5, <2>6 DEF SegmentsInv
<1>5. CASE Abort(b)
  <2>1. /\ batch' = [batch EXCEPT ![b] = NoBatch] /\ again' = again
        /\ unsent' = IF batch[b].heard THEN unsent \cup batch[b].segs ELSE unsent
    BY <1>5 DEF Abort
  <2>2. /\ batch' = [c \in Batch |-> batch'[c]] /\ batch'[b] = NoBatch
        /\ \A c \in Batch : c # b => batch'[c] = batch[c]
    BY <1>3, <2>1
  <2>3. NoBatch.segs = {}
    BY DEF NoBatch
  <2>4. BatchesInv'
    <3>1. unsent' \subseteq Seg
      BY <1>3, <2>1
    <3> QED BY <1>3, <2>2, <3>1 DEF BatchesInv
  <2>5. SentOnceInv'
    <3>1. \A c \in Batch, s \in Seg : s \in batch'[c].segs => c # b /\ s \in batch[c].segs
      BY <2>2, <2>3
    <3>2. unsent' \subseteq unsent \cup batch[b].segs
      BY <2>1
    <3> QED BY <1>1, <1>2, <2>1, <3>1, <3>2 DEF SentOnceInv, NotStored
  <2>6. UniqueInv' /\ WholeInv'
    BY <1>1, <1>2, <2>1 DEF UniqueInv, WholeInv, NotStored, Mixed, AsSent
  <2> QED BY <2>4, <2>5, <2>6 DEF SegmentsInv
<1> QED BY <1>4, <1>5

\* A commit: what it adds is a new part of its own each.
LEMMA CommitAdds ==
  ASSUME NEW b \in Batch, Commit(b)
  PROVE  /\ stored \subseteq stored'
         /\ \A x \in stored' \ stored : \E p \in Fresh(batch[b].parts) :
              x.seg = p.seg /\ x.i = p.i /\ x.from = p.from /\ x.to = p.to
         /\ \A p \in Fresh(batch[b].parts) : \E x \in stored' :
              x.seg = p.seg /\ x.i = p.i /\ x.from = p.from /\ x.to = p.to
         /\ (\A p, q \in Fresh(batch[b].parts) : p.seg = q.seg /\ p.i = q.i => p = q) =>
              \A x, y \in stored' \ stored : x.seg = y.seg /\ x.i = y.i => x = y
<1> DEFINE r     == batch[b]
           shift == Len(session) - Len(r.read)
           at    == [d \in DOMAIN r.plan.at |->
                      IF r.plan.at[d] > Len(r.read) THEN r.plan.at[d] + shift ELSE r.plan.at[d]]
           Row(p) == [seg |-> p.seg, i |-> p.i, from |-> p.from, to |-> p.to, who |-> r.who,
                      in |-> at[Date(p.from)]]
           new   == Fresh(r.parts)
<1>1. stored' = stored \cup {Row(p) : p \in new}
  BY DEF Commit
<1>2. \A p : Row(p).seg = p.seg /\ Row(p).i = p.i /\ Row(p).from = p.from /\ Row(p).to = p.to
  OBVIOUS
<1> HIDE DEF Row, new
<1>3. \A x \in stored' \ stored : \E p \in new : x = Row(p)
  BY <1>1
<1>4. \A p \in new : Row(p) \in stored'
  BY <1>1
<1>5. ASSUME \A p, q \in new : p.seg = q.seg /\ p.i = q.i => p = q,
             NEW x \in stored' \ stored, NEW y \in stored' \ stored, x.seg = y.seg, x.i = y.i
      PROVE  x = y
  <2>1. PICK p \in new : x = Row(p)
    BY <1>3
  <2>2. PICK q \in new : y = Row(q)
    BY <1>3
  <2>3. p = q
    BY <1>2, <1>5, <2>1, <2>2
  <2> QED BY <2>1, <2>2, <2>3
<1>6. stored \subseteq stored'
  BY <1>1
<1>7. \A x \in stored' \ stored : \E p \in new :
        x.seg = p.seg /\ x.i = p.i /\ x.from = p.from /\ x.to = p.to
  BY <1>2, <1>3
<1>8. \A p \in new : \E x \in stored' :
        x.seg = p.seg /\ x.i = p.i /\ x.from = p.from /\ x.to = p.to
  BY <1>2, <1>4
<1> QED BY <1>5, <1>6, <1>7, <1>8 DEF new

LEMMA CommitStep == ASSUME SegmentsInv, NEW b \in Batch, Commit(b) PROVE SegmentsInv'
<1>1. BatchesInv /\ SentOnceInv /\ UniqueInv /\ WholeInv
  BY DEF SegmentsInv
<1>2. batch[b] # NoBatch /\ batch' = [batch EXCEPT ![b] = NoBatch] /\ unsent' = unsent /\ again' = again
  BY DEF Commit
<1> DEFINE sent == batch[b].segs
           parts == batch[b].parts
           new == Fresh(parts)
<1>3. /\ batch = [c \in Batch |-> batch[c]] /\ unsent \subseteq Seg /\ sent \subseteq Seg
  BY <1>1, <1>2 DEF BatchesInv
<1>4. PICK d \in Drifts : parts = UNION {PartsOf(s, d) : s \in sent}
  BY <1>1, <1>2 DEF BatchesInv
<1>5. /\ batch' = [c \in Batch |-> batch'[c]] /\ batch'[b] = NoBatch /\ NoBatch.segs = {}
      /\ \A c \in Batch : c # b => batch'[c] = batch[c]
  BY <1>2, <1>3 DEF NoBatch
<1> HIDE DEF sent, parts
<1>6. \A p \in parts : p.seg \in sent /\ p \in PartsOf(p.seg, d)
  BY <1>3, <1>4, PlacesAre
<1>7. \A s \in sent : PartsOf(s, d) \subseteq parts
  BY <1>4
<1>8. \A p, q \in parts : p.seg = q.seg /\ p.i = q.i => p = q
  <2> TAKE p \in parts, q \in parts
  <2> HAVE p.seg = q.seg /\ p.i = q.i
  <2>1. p.seg \in Seg /\ p \in PartsOf(p.seg, d) /\ q \in PartsOf(p.seg, d)
    BY <1>3, <1>6
  <2> QED BY <2>1, PlacesAre
<1>9. \A p : p \in new <=> p \in parts /\ \A q \in stored : ~(q.seg = p.seg /\ q.i = p.i)
  BY DEF Fresh
<1>10. /\ stored \subseteq stored'
       /\ \A x \in stored' \ stored : \E p \in new :
            x.seg = p.seg /\ x.i = p.i /\ x.from = p.from /\ x.to = p.to
       /\ \A p \in new : \E x \in stored' :
            x.seg = p.seg /\ x.i = p.i /\ x.from = p.from /\ x.to = p.to
       /\ \A x, y \in stored' \ stored : x.seg = y.seg /\ x.i = y.i => x = y
  <2> HIDE DEF new
  <2>1. \A p, q \in new : p.seg = q.seg /\ p.i = q.i => p = q
    BY <1>8, <1>9
  <2> QED BY <2>1, CommitAdds DEF new, parts
<1> HIDE DEF new
<1>11. BatchesInv'
  BY <1>1, <1>2, <1>3, <1>5 DEF BatchesInv
<1>12. SentOnceInv'
  <2> SUFFICES ASSUME NEW s \in Seg \ again
               PROVE  /\ s \in unsent => NotStored(s)' /\ \A c \in Batch : s \notin batch'[c].segs
                      /\ \A c \in Batch : s \in batch'[c].segs =>
                           NotStored(s)' /\ \A e \in Batch : s \in batch'[e].segs => c = e
    BY <1>2 DEF SentOnceInv
  <2>1. /\ s \in unsent => NotStored(s) /\ \A c \in Batch : s \notin batch[c].segs
        /\ \A c \in Batch : s \in batch[c].segs =>
             NotStored(s) /\ \A e \in Batch : s \in batch[e].segs => c = e
    BY <1>1 DEF SentOnceInv
  <2>2. s \notin sent /\ NotStored(s) => NotStored(s)'
    BY <1>6, <1>9, <1>10 DEF NotStored
  <2>3. \A c \in Batch : s \in batch'[c].segs => c # b /\ s \in batch[c].segs
    BY <1>5
  <2> QED BY <2>1, <2>2, <2>3 DEF sent
<1>13. UniqueInv'
  <2> SUFFICES ASSUME NEW x \in stored', NEW y \in stored', x.seg = y.seg, x.i = y.i PROVE x = y
    BY DEF UniqueInv
  <2>1. CASE x \in stored /\ y \in stored
    BY <1>1, <2>1 DEF UniqueInv
  <2>2. CASE x \in stored /\ y \notin stored
    BY <1>9, <1>10, <2>2
  <2>3. CASE x \notin stored /\ y \in stored
    BY <1>9, <1>10, <2>3
  <2>4. CASE x \notin stored /\ y \notin stored
    BY <1>10, <2>4
  <2> QED BY <2>1, <2>2, <2>3, <2>4
<1>14. WholeInv'
  <2> SUFFICES ASSUME NEW s \in Seg, ~Mixed(s)
               PROVE  NotStored(s)' \/ \E e \in Drifts : AsSent(s, e)'
    BY <1>2 DEF WholeInv, Mixed
  <2>1. NotStored(s) \/ \E e \in Drifts : AsSent(s, e)
    BY <1>1 DEF WholeInv
  <2>2. CASE s \notin sent
    <3>1. \A x \in stored' : x.seg = s => x \in stored
      BY <1>6, <1>9, <1>10, <2>2
    <3>2. NotStored(s) => NotStored(s)'
      BY <3>1 DEF NotStored
    <3>3. \A e \in Drifts : AsSent(s, e) => AsSent(s, e)'
      BY <1>10, <3>1 DEF AsSent
    <3> QED BY <2>1, <3>2, <3>3
  <2>3. CASE s \in sent /\ NotStored(s)
    <3>1. \A x \in PartsOf(s, d) : x.seg = s /\ x = Part(s, x.i, x.from, x.to) /\ x \in new
      BY <1>7, <1>9, <2>3, PlacesAre DEF NotStored
    <3>2. \A x \in PartsOf(s, d) : \E p \in stored' : p.seg = s /\ p.i = x.i
      BY <1>10, <3>1
    <3>3. ASSUME NEW p \in stored', p.seg = s PROVE Part(s, p.i, p.from, p.to) \in PartsOf(s, d)
      <4>1. p \notin stored
        BY <2>3, <3>3 DEF NotStored
      <4>2. PICK q \in new : p.seg = q.seg /\ p.i = q.i /\ p.from = q.from /\ p.to = q.to
        BY <1>10, <4>1
      <4>3. q \in PartsOf(s, d)
        BY <1>6, <1>9, <3>3, <4>2
      <4> QED BY <3>1, <4>2, <4>3
    <3> QED BY <3>2, <3>3 DEF AsSent
  <2>4. CASE s \in sent /\ ~NotStored(s)
    <3>1. PICK e \in Drifts : AsSent(s, e)
      BY <2>1, <2>4
    <3>2. s \in again
      BY <1>1, <2>4 DEF SentOnceInv, sent
    <3>3. Crosses(s, d) <=> Crosses(s, e)
      BY <2>4, <3>2 DEF Mixed
    <3>4. \A x \in PartsOf(s, d) : \E y \in PartsOf(s, e) : y.i = x.i
      <4> TAKE x \in PartsOf(s, d)
      <4>1. x.i \in {0, 1}
        BY PlacesAre
      <4>2. CASE x.i = 0
        BY <4>2, PlacesAre
      <4>3. CASE x.i = 1
        BY <3>3, <4>3, PlacesAre
      <4> QED BY <4>1, <4>2, <4>3
    <3>5. \A x \in PartsOf(s, d) : \E q \in stored : q.seg = s /\ q.i = x.i
      BY <3>1, <3>4 DEF AsSent
    <3>6. \A x \in stored' : x.seg = s => x \in stored
      BY <1>6, <1>9, <1>10, <3>5
    <3> QED BY <1>10, <3>1, <3>6 DEF AsSent
  <2> QED BY <2>2, <2>3, <2>4
<1> QED BY <1>11, <1>12, <1>13, <1>14 DEF SegmentsInv

LEMMA SegmentsStep == SegmentsInv /\ [SessionsNext]_sessionVars => SegmentsInv'
<1> SUFFICES ASSUME SegmentsInv, [SessionsNext]_sessionVars PROVE SegmentsInv'
  OBVIOUS
<1>1. ASSUME NEW b \in Batch, Ingest(b) \/ Commit(b) \/ AnswerLost(b) \/ Abort(b) PROVE SegmentsInv'
  BY <1>1, IngestStep, CommitStep, LostStep
<1>2. ASSUME NEW t \in ByeAt, Farewell(t) PROVE SegmentsInv'
  BY <1>2, ElsewhereStep DEF Farewell, AwayFromStore
<1>3. CASE FarewellToOld \/ CloseReads \/ CloseWrites \/ NextDate \/ HandOver
  BY <1>3, ElsewhereStep DEF FarewellToOld, CloseReads, CloseWrites, NextDate, HandOver, AwayFromStore
<1>4. CASE UNCHANGED sessionVars
  BY <1>4, ElsewhereStep DEF sessionVars, AwayFromStore
<1> QED BY <1>1, <1>2, <1>3, <1>4 DEF SessionsNext

LEMMA SegmentsStart == SessionsInit => SegmentsInv
<1> SUFFICES ASSUME SessionsInit PROVE SegmentsInv
  OBVIOUS
<1>1. unsent = Seg /\ stored = {} /\ batch = [b \in Batch |-> NoBatch] /\ again = {}
  BY DEF SessionsInit
<1>2. NoBatch.segs = {}
  BY DEF NoBatch
<1> QED BY <1>1, <1>2 DEF SegmentsInv, BatchesInv, SentOnceInv, UniqueInv, WholeInv, NotStored

\* However often a segment is sent, and whatever drift each request is corrected by: it is
\* stored once, whole, in one part or in two that meet, unless some drifts take it across
\* midnight and some do not and it was sent again (IngestService.ingestSegments).
THEOREM OnceAndWhole == SessionsSpec => []StoredOnce
<1>1. SegmentsInv => StoredOnce
  <2> SUFFICES ASSUME SegmentsInv, NEW s \in Seg, ~NotStored(s), ~Mixed(s) PROVE StoredWhole(s)
    BY DEF StoredOnce, NotStored, Mixed
  <2>1. PICK d \in Drifts : AsSent(s, d)
    BY DEF SegmentsInv, WholeInv
  <2> QED BY <2>1, SentIsWhole DEF SegmentsInv
<1> QED BY <1>1, SegmentsStart, SegmentsStep, PTL DEF SessionsSpec

-----------------------------------------------------------------------------
\* The least and the greatest of a set of integers.
Below == {p \in Nat \X Nat : p[1] < p[2]}

LEMMA LeastIs ==
  ASSUME NEW S \in SUBSET Nat, S # {}
  PROVE  \E n \in S : \A k \in S : n <= k
<1>1. IsWellFoundedOn(Below, Nat)
  BY NatLessThanWellFounded DEF OpToRel, Below
<1>2. PICK n \in S : \A k \in S : ~(<<k, n>> \in Below)
  BY <1>1, WFMin
<1>3. \A k \in S : k < n => <<k, n>> \in Below
  BY DEF Below
<1>4. \A k \in S : ~(k < n)
  BY <1>2, <1>3
<1>5. \A k \in S : n <= k
  BY <1>4
<1> QED BY <1>5

LEMMA GreatestIs ==
  ASSUME NEW S \in SUBSET Int, S # {}, NEW top \in Int, \A n \in S : n <= top
  PROVE  \E n \in S : \A k \in S : k <= n
<1> DEFINE gaps == {top - n : n \in S}
<1>1. gaps \in SUBSET Nat /\ gaps # {}
  <2>1. \A n \in S : top - n \in Nat
    OBVIOUS
  <2> QED BY <2>1
<1>2. PICK g \in gaps : \A h \in gaps : g <= h
  BY <1>1, LeastIs
<1>3. PICK n \in S : g = top - n
  BY <1>2
<1>4. \A k \in S : g <= top - k
  BY <1>2
<1>5. \A k \in S : k <= n
  BY <1>3, <1>4
<1> QED BY <1>5

LEMMA MaxIsIn ==
  ASSUME NEW S \in SUBSET Int, IsFiniteSet(S), S # {}
  PROVE  Max(S) \in S
<1> DEFINE Has(T) == \E n \in T : \A k \in T : k <= n
           Wrong == {n \in Nat : \E T \in SUBSET S : Cardinality(T) = n /\ T # {} /\ ~Has(T)}
<1>1. Wrong = {}
  <2> SUFFICES ASSUME Wrong # {} PROVE FALSE
    OBVIOUS
  <2>1. PICK n \in Wrong : \A m \in Wrong : n <= m
    BY LeastIs
  <2>2. PICK T \in SUBSET S : Cardinality(T) = n /\ T # {} /\ ~Has(T)
    BY <2>1
  <2>3. PICK x \in T : TRUE
    BY <2>2
  <2> DEFINE R == T \ {x}
  <2>4. IsFiniteSet(T) /\ x \in Int /\ R \in SUBSET S
    BY FS_Subset
  <2>5. Cardinality(R) = n - 1 /\ n - 1 \in Nat
    <3>1. Cardinality(T) \in Nat /\ IsFiniteSet(R) /\ Cardinality(R) = Cardinality(T) - 1
      BY <2>3, <2>4, FS_RemoveElement, FS_CardinalityType
    <3>2. Cardinality(R) \in Nat
      BY <3>1, FS_CardinalityType
    <3> QED BY <2>2, <3>1, <3>2
  <2>6. CASE R = {}
    <3>1. \A k \in T : k <= x
      BY <2>4, <2>6
    <3> QED BY <2>2, <2>3, <3>1
  <2>7. CASE R # {}
    <3>1. n - 1 \notin Wrong
      BY <2>1, <2>5
    <3>2. PICK m \in R : \A k \in R : k <= m
      BY <2>4, <2>5, <2>7, <3>1
    <3>3. m \in T /\ m \in Int
      BY <2>4, <3>2
    <3>4. CASE x <= m
      <4>1. \A k \in T : k <= m
        BY <3>2, <3>4
      <4> QED BY <2>2, <3>3, <4>1
    <3>5. CASE ~(x <= m)
      <4>1. \A k \in T : k <= x
        BY <2>4, <3>2, <3>3, <3>5
      <4> QED BY <2>2, <2>3, <4>1
    <3> QED BY <3>4, <3>5
  <2> QED BY <2>6, <2>7
<1>2. Cardinality(S) \in Nat /\ Cardinality(S) \notin Wrong
  BY <1>1, FS_CardinalityType
<1>3. Has(S)
  BY <1>2
<1>4. PICK m \in S : \A k \in S : k <= m
  BY <1>3
<1>5. \A k \in S : m >= k
  BY <1>4
<1> QED BY <1>5 DEF Max

-----------------------------------------------------------------------------
\* Instants and their dates.
LEMMA DateIs ==
  ASSUME NEW t \in Nat
  PROVE  /\ Date(t) \in Nat /\ Midnight(t) \in Nat
         /\ Midnight(t) = Date(t) * SessionDay + SessionDay
         /\ Date(t) * SessionDay <= t /\ t < Midnight(t)
<1> DEFINE q == t \div SessionDay
<1>1. SessionDay \in Nat /\ SessionDay > 0
  BY SessionsAssumption
<1>2. q \in Int /\ q >= 0 /\ q * SessionDay <= t /\ t < q * SessionDay + SessionDay
  BY <1>1
<1>3. (q + 1) * SessionDay = q * SessionDay + SessionDay /\ q * SessionDay \in Int
  BY <1>1, <1>2
<1> QED BY <1>1, <1>2, <1>3 DEF Date, Midnight

LEMMA SameMidnight ==
  ASSUME NEW t \in Nat, NEW u \in Nat, Date(t) = Date(u)
  PROVE  Midnight(t) = Midnight(u)
BY DEF Midnight

LEMMA UpToDate ==
  ASSUME NEW t \in Nat, NEW day \in Nat, Date(t) <= day
  PROVE  Midnight(t) <= (day + 1) * SessionDay /\ t < (day + 1) * SessionDay
<1>1. SessionDay \in Nat /\ Date(t) \in Nat
  BY SessionsAssumption, DateIs
<1>2. PICK k \in Nat : day = Date(t) + k
  <2>1. day - Date(t) \in Nat /\ day = Date(t) + (day - Date(t))
    BY <1>1
  <2> QED BY <2>1
<1>3. /\ (Date(t) + k + 1) * SessionDay = Date(t) * SessionDay + SessionDay + k * SessionDay
      /\ k * SessionDay >= 0 /\ Date(t) * SessionDay \in Int /\ k * SessionDay \in Int
  BY <1>1
<1>4. Midnight(t) \in Nat /\ (day + 1) * SessionDay = Midnight(t) + k * SessionDay
  BY <1>1, <1>2, <1>3, DateIs
<1> QED BY <1>3, <1>4, DateIs

LEMMA AfterMidnight ==
  ASSUME NEW t \in Nat
  PROVE  Midnight(Midnight(t)) = Midnight(t) + SessionDay
<1> DEFINE m == Date(t) + 1
           q == Date(Midnight(t))
<1>1. SessionDay \in Nat /\ SessionDay > 0 /\ m \in Nat /\ Midnight(t) = m * SessionDay
  BY SessionsAssumption, DateIs DEF Midnight
<1>2. q \in Nat /\ q * SessionDay <= m * SessionDay /\ m * SessionDay < q * SessionDay + SessionDay
      /\ Midnight(Midnight(t)) = q * SessionDay + SessionDay
  BY <1>1, DateIs
<1> HIDE DEF q, m
<1>3. CASE q < m
  <2>1. /\ (m - (q + 1)) * SessionDay >= 0
        /\ (m - (q + 1)) * SessionDay = m * SessionDay - (q * SessionDay + SessionDay)
    BY <1>1, <1>2, <1>3
  <2> QED BY <1>1, <1>2, <2>1
<1>4. CASE q > m
  <2>1. /\ (q - (m + 1)) * SessionDay >= 0
        /\ (q - (m + 1)) * SessionDay = q * SessionDay - (m * SessionDay + SessionDay)
    BY <1>1, <1>2, <1>4
  <2> QED BY <1>1, <1>2, <2>1
<1>5. CASE q = m
  BY <1>1, <1>2, <1>5
<1> QED BY <1>1, <1>2, <1>3, <1>4, <1>5

\* A part is of one date, up to its midnight.
LEMMA PartIsOfOneDate ==
  ASSUME NEW s \in Seg, NEW d \in Drifts, NEW p \in PartsOf(s, d)
  PROVE  p.from \in Nat /\ p.to \in Nat /\ p.from <= p.to /\ p.to <= Midnight(p.from)
<1> DEFINE from == Span[s].from + d
           to   == Span[s].to + d
<1>1. from \in Nat /\ to \in Nat /\ from < to /\ to - from <= SessionDay /\ SessionDay \in Nat
  BY SessionsAssumption
<1>2. /\ Midnight(from) \in Nat /\ from < Midnight(from)
      /\ Midnight(Midnight(from)) = Midnight(from) + SessionDay
  BY <1>1, DateIs, AfterMidnight
<1> HIDE DEF from, to
<1>3. CASE ~Crosses(s, d)
  <2>1. p = Part(s, 0, from, to) /\ to <= Midnight(from)
    BY <1>1, <1>2, <1>3, PartsAre DEF from, to, Crosses
  <2> QED BY <1>1, <1>2, <2>1 DEF Part
<1>4. CASE Crosses(s, d)
  <2>1. p \in {Part(s, 0, from, Midnight(from)), Part(s, 1, Midnight(from), to)} /\ to > Midnight(from)
    BY <1>1, <1>2, <1>4, PartsAre DEF from, to, Crosses
  <2>2. CASE p = Part(s, 0, from, Midnight(from))
    BY <1>1, <1>2, <2>2 DEF Part
  <2>3. CASE p = Part(s, 1, Midnight(from), to)
    <3>1. p.from = Midnight(from) /\ p.to = to
      BY <2>3 DEF Part
    <3> QED BY <1>1, <1>2, <2>1, <3>1
  <2> QED BY <2>1, <2>2, <2>3
<1> QED BY <1>3, <1>4

-----------------------------------------------------------------------------
\* What a transaction makes of the sessions it read: one date more each time.
SessionRow == [who : Person, day : Nat, from : Nat, to : {Open} \cup Nat]
RowOK(entry) ==
  /\ entry \in SessionRow /\ entry.day = Date(entry.from)
  /\ entry.to # Open => entry.to <= Midnight(entry.from)
RowsOK(rows) == rows \in Seq(SessionRow) /\ \A i \in DOMAIN rows : RowOK(rows[i])

PartOK(p) == p.from \in Nat /\ p.to \in Nat /\ p.from <= p.to /\ p.to <= Midnight(p.from)
Within(p, entry) == entry.from <= p.from /\ (entry.to = Open \/ p.to <= entry.to)

\* A session begins no later than it did; an open end stays so or becomes its midnight, and
\* another moves on.
Follows(old, entry) ==
  /\ entry.who = old.who /\ entry.day = old.day /\ entry.from <= old.from
  /\ old.to = Open => entry.to \in {Open, Midnight(old.from)}
  /\ old.to # Open => entry.to # Open /\ old.to <= entry.to
OnlyEnded(old, entry) == entry.from = old.from /\ entry.to \in {old.to, Midnight(old.from)}
Untrimmed(entry) == entry.to \in {Open, Midnight(entry.from)}

LEMMA OpenIsNone == Open \notin Nat
BY DEF Open

LEMMA FollowsSelf == \A entry : RowOK(entry) => Follows(entry, entry) /\ OnlyEnded(entry, entry)
BY OpenIsNone DEF Follows, OnlyEnded, RowOK, SessionRow

LEMMA FollowsOn ==
  ASSUME NEW x, NEW y, NEW z, RowOK(x), RowOK(y), RowOK(z), Follows(x, y), Follows(y, z)
  PROVE  Follows(x, z)
<1>1. /\ {x, y, z} \subseteq SessionRow
      /\ Date(y.from) = Date(x.from) /\ Date(z.from) = Date(x.from)
      /\ z.to # Open => z.to <= Midnight(z.from)
  BY DEF Follows, RowOK
<1>2. /\ x.from \in Nat /\ y.from \in Nat /\ z.from \in Nat
      /\ x.to \in {Open} \cup Nat /\ y.to \in {Open} \cup Nat /\ z.to \in {Open} \cup Nat
  BY <1>1 DEF SessionRow
<1>3. Midnight(y.from) = Midnight(x.from) /\ Midnight(z.from) = Midnight(x.from) /\ Midnight(x.from) \in Nat
  BY <1>1, <1>2, SameMidnight, DateIs
<1> QED BY <1>1, <1>2, <1>3, OpenIsNone DEF Follows

LEMMA WidenedIs ==
  ASSUME NEW entry, RowOK(entry), NEW from \in Nat, NEW to \in Nat,
         Date(from) = entry.day, from <= to, to <= Midnight(from)
  PROVE  LET w == Widened(entry, from, to)
         IN  /\ RowOK(w) /\ Follows(entry, w) /\ (Untrimmed(entry) => Untrimmed(w))
             /\ w.from <= from /\ (w.to = Open \/ to <= w.to)
<1> DEFINE w == Widened(entry, from, to)
<1>1. entry \in SessionRow /\ entry.from \in Nat /\ entry.to \in {Open} \cup Nat /\ entry.day = Date(entry.from)
      /\ (entry.to # Open => entry.to <= Midnight(entry.from))
  BY DEF RowOK, SessionRow
<1>2. /\ w.who = entry.who /\ w.day = entry.day
      /\ w.from = (IF from < entry.from THEN from ELSE entry.from)
      /\ w.to = (IF entry.to # Open /\ to > entry.to THEN to ELSE entry.to)
      /\ w \in SessionRow
  BY <1>1 DEF Widened, SessionRow
<1> HIDE DEF w
<1>3. w.from \in Nat /\ Date(w.from) = w.day
  BY <1>1, <1>2
<1>4. Midnight(from) = Midnight(entry.from) /\ Midnight(w.from) = Midnight(entry.from) /\ Midnight(entry.from) \in Nat
  BY <1>1, <1>2, <1>3, SameMidnight, DateIs
<1>5. RowOK(w)
  BY <1>1, <1>2, <1>3, <1>4 DEF RowOK
<1>6. Follows(entry, w)
  BY <1>1, <1>2, OpenIsNone DEF Follows
<1>7. Untrimmed(entry) => Untrimmed(w)
  BY <1>1, <1>2, <1>4 DEF Untrimmed
<1> QED BY <1>1, <1>2, <1>5, <1>6, <1>7 DEF w

Ended(entry) == [entry EXCEPT !.to = Midnight(entry.from)]
LEMMA EndedIs ==
  ASSUME NEW entry, RowOK(entry)
  PROVE  /\ RowOK(Ended(entry)) /\ OnlyEnded(entry, Ended(entry)) /\ Untrimmed(Ended(entry))
         /\ Ended(entry).who = entry.who /\ Ended(entry).day = entry.day /\ Ended(entry).from = entry.from
         /\ Ended(entry).to = Midnight(entry.from) /\ Ended(entry).to \in Nat
         /\ entry.to = Open => Follows(entry, Ended(entry))
<1>1. entry \in SessionRow /\ entry.from \in Nat /\ entry.day = Date(entry.from)
  BY DEF RowOK, SessionRow
<1>2. Midnight(entry.from) \in Nat
  BY <1>1, DateIs
<1>3. /\ Ended(entry).who = entry.who /\ Ended(entry).day = entry.day /\ Ended(entry).from = entry.from
      /\ Ended(entry).to = Midnight(entry.from) /\ Ended(entry) \in SessionRow
  BY <1>1, <1>2 DEF Ended, SessionRow
<1> QED BY <1>1, <1>2, <1>3 DEF RowOK, OnlyEnded, Untrimmed, Follows

\* A part of the same date stays within a session that is ended or goes on.
LEMMA StaysWithin ==
  ASSUME NEW entry, NEW next, RowOK(entry), RowOK(next), Follows(entry, next),
         NEW p, PartOK(p), Date(p.from) = entry.day, Within(p, entry)
  PROVE  Within(p, next)
<1>1. /\ entry.from \in Nat /\ entry.to \in {Open} \cup Nat /\ entry.day = Date(entry.from)
      /\ next.from \in Nat /\ next.to \in {Open} \cup Nat
  BY DEF RowOK, SessionRow
<1>2. Midnight(p.from) = Midnight(entry.from) /\ Midnight(entry.from) \in Nat
  BY <1>1, SameMidnight, DateIs DEF PartOK
<1> QED BY <1>1, <1>2 DEF Follows, PartOK, Within

LEMMA LatestIs ==
  ASSUME NEW rows, RowsOK(rows), NEW ids \in SUBSET DOMAIN rows, ids # {},
         NEW day \in Nat, \A i \in ids : rows[i].day <= day
  PROVE  Latest(rows, ids) \in ids
<1> DEFINE starts == {rows[i].from : i \in ids}
           top == (day + 1) * SessionDay
<1>1. \A i \in ids : rows[i].from \in Nat /\ rows[i].day = Date(rows[i].from)
  BY DEF RowsOK, RowOK, SessionRow
<1>2. \A i \in ids : rows[i].from <= top
  <2> TAKE i \in ids
  <2>1. rows[i].from < top
    BY <1>1, UpToDate
  <2>2. top \in Int
    BY SessionsAssumption
  <2> QED BY <1>1, <2>1, <2>2
<1>3. top \in Int
  BY SessionsAssumption
<1> HIDE DEF top
<1>4. starts \in SUBSET Int /\ starts # {} /\ \A n \in starts : n <= top
  BY <1>1, <1>2
<1>5. PICK n \in starts : \A k \in starts : k <= n
  BY <1>3, <1>4, GreatestIs
<1>6. PICK i \in ids : n = rows[i].from
  BY <1>5
<1>7. \A j \in ids : rows[i].from >= rows[j].from
  BY <1>1, <1>5, <1>6
<1> QED BY <1>7 DEF Latest

LEMMA EndedBeforeIs ==
  ASSUME NEW rows, RowsOK(rows), NEW day \in Nat
  PROVE  LET e == EndedBefore(rows, day)
         IN  /\ e \in Seq(SessionRow) /\ Len(e) = Len(rows)
             /\ \A i \in DOMAIN rows : e[i] = rows[i] \/ (rows[i].to = Open /\ e[i] = Ended(rows[i]))
<1> DEFINE e == EndedBefore(rows, day)
           old == {i \in DOMAIN rows : rows[i].day < day /\ rows[i].to = Open}
           l == Latest(rows, old)
<1>1. CASE old = {}
  BY <1>1 DEF EndedBefore, RowsOK
<1>2. CASE old # {}
  <2>1. \A i \in old : rows[i].day <= day
    BY DEF RowsOK, RowOK, SessionRow
  <2>2. l \in old
    BY <1>2, <2>1, LatestIs
  <2> HIDE DEF l
  <2>3. e = [rows EXCEPT ![l].to = Midnight(rows[l].from)]
    BY <1>2 DEF EndedBefore, l
  <2>4. e = [rows EXCEPT ![l] = Ended(rows[l])]
    BY <2>3 DEF Ended
  <2>5. Ended(rows[l]) \in SessionRow
    BY <2>2, EndedIs DEF RowsOK, RowOK
  <2>6. rows \in Seq(SessionRow) /\ l \in DOMAIN rows /\ rows[l].to = Open
    BY <2>2 DEF RowsOK
  <2> HIDE DEF e, old
  <2> QED BY <2>4, <2>5, <2>6 DEF e
<1> QED BY <1>1, <1>2

LEMMA EnvelopeIs ==
  ASSUME NEW parts, parts # {}, NEW day \in Nat, \A p \in parts : PartOK(p) /\ Date(p.from) = day
  PROVE  LET bound == Envelope(parts)
         IN  /\ bound.from \in Nat /\ bound.to \in Nat /\ Date(bound.from) = day
             /\ bound.from <= bound.to /\ bound.to <= Midnight(bound.from)
             /\ \A p \in parts : bound.from <= p.from /\ p.to <= bound.to
<1> DEFINE starts == {p.from : p \in parts}
           ends   == {p.to : p \in parts}
           top    == (day + 1) * SessionDay
           first  == CHOOSE p \in parts : \A q \in parts : p.from <= q.from
           last   == CHOOSE p \in parts : \A q \in parts : p.to >= q.to
<1>1. \A p \in parts : p.from \in Nat /\ p.to \in Nat /\ p.from <= p.to /\ p.to <= Midnight(p.from)
  BY DEF PartOK
<1>2. top \in Int /\ \A p \in parts : p.to <= top /\ Midnight(p.from) = top
  <2>1. top \in Int /\ \A p \in parts : Midnight(p.from) = top
    BY SessionsAssumption DEF Midnight
  <2> QED BY <1>1, <2>1
<1> HIDE DEF top
<1>3. first \in parts /\ \A q \in parts : first.from <= q.from
  <2>1. starts \in SUBSET Nat /\ starts # {}
    BY <1>1
  <2>2. PICK n \in starts : \A k \in starts : n <= k
    BY <2>1, LeastIs
  <2>3. PICK p \in parts : n = p.from
    BY <2>2
  <2>4. \A q \in parts : p.from <= q.from
    BY <2>2, <2>3
  <2> QED BY <2>4
<1>4. last \in parts /\ \A q \in parts : last.to >= q.to
  <2>1. ends \in SUBSET Int /\ ends # {} /\ \A n \in ends : n <= top
    BY <1>1, <1>2
  <2>2. PICK n \in ends : \A k \in ends : k <= n
    BY <1>2, <2>1, GreatestIs
  <2>3. PICK p \in parts : n = p.to
    BY <2>2
  <2>4. \A q \in parts : p.to >= q.to
    BY <1>1, <2>2, <2>3
  <2> QED BY <2>4
<1>5. Envelope(parts).from = first.from /\ Envelope(parts).to = last.to
  BY DEF Envelope
<1> HIDE DEF first, last
<1>6. Date(first.from) = day /\ Midnight(first.from) = top /\ last.to <= top
  BY <1>2, <1>3, <1>4
<1>7. first.from <= last.to
  BY <1>1, <1>3, <1>4
<1>8. \A p \in parts : p.to <= last.to
  BY <1>1, <1>4
<1> QED BY <1>1, <1>3, <1>4, <1>5, <1>6, <1>7, <1>8

-----------------------------------------------------------------------------
\* The view of a transaction that has resolved these days of its parts.
ViewOK(read, who, parts, days, view) ==
  /\ RowsOK(view.rows) /\ DOMAIN read \subseteq DOMAIN view.rows /\ DOMAIN view.at = days
  /\ \A i \in DOMAIN read :
       /\ Follows(read[i], view.rows[i])
       /\ (\A d \in days : view.at[d] # i) => OnlyEnded(read[i], view.rows[i])
  /\ \A i \in DOMAIN view.rows \ DOMAIN read :
       (\E d \in days : view.at[d] = i) /\ Untrimmed(view.rows[i])
  /\ \A d \in days :
       /\ view.at[d] \in DOMAIN view.rows
       /\ view.rows[view.at[d]].who = who /\ view.rows[view.at[d]].day = d
  /\ \A p \in parts : Date(p.from) \in days => Within(p, view.rows[view.at[Date(p.from)]])

LEMMA ViewStarts ==
  ASSUME NEW read, RowsOK(read), NEW who, NEW parts
  PROVE  ViewOK(read, who, parts, {}, [rows |-> read, at |-> <<>>])
BY FollowsSelf DEF ViewOK, RowsOK

\* Any other date keeps its session, whose end may be set to its midnight.
LEMMA ViewGrows ==
  ASSUME NEW read, RowsOK(read), NEW who \in Person, NEW parts, \A p \in parts : PartOK(p),
         NEW days, NEW day \in Nat \ days, NEW view, ViewOK(read, who, parts, days, view),
         NEW rows, RowsOK(rows), DOMAIN view.rows \subseteq DOMAIN rows,
         NEW i \in DOMAIN rows, rows[i].who = who, rows[i].day = day,
         DOMAIN rows \subseteq DOMAIN view.rows \cup {i},
         \A j \in DOMAIN view.rows :
           /\ Follows(view.rows[j], rows[j]) /\ (Untrimmed(view.rows[j]) => Untrimmed(rows[j]))
           /\ j # i => OnlyEnded(view.rows[j], rows[j]),
         i \notin DOMAIN view.rows => Untrimmed(rows[i]),
         \A p \in parts : Date(p.from) = day => Within(p, rows[i])
  PROVE  ViewOK(read, who, parts, days \cup {day}, [rows |-> rows, at |-> Put(view.at, day, i)])
<1> DEFINE at == Put(view.at, day, i)
           old == view.rows
<1>1. /\ RowsOK(old) /\ DOMAIN read \subseteq DOMAIN old /\ DOMAIN view.at = days
      /\ \A j \in DOMAIN read :
           /\ Follows(read[j], old[j])
           /\ (\A d \in days : view.at[d] # j) => OnlyEnded(read[j], old[j])
      /\ \A j \in DOMAIN old \ DOMAIN read : (\E d \in days : view.at[d] = j) /\ Untrimmed(old[j])
      /\ \A d \in days : view.at[d] \in DOMAIN old /\ old[view.at[d]].who = who /\ old[view.at[d]].day = d
      /\ \A p \in parts : Date(p.from) \in days => Within(p, old[view.at[Date(p.from)]])
  BY DEF ViewOK
<1>2. DOMAIN at = days \cup {day} /\ at[day] = i /\ \A d \in days : at[d] = view.at[d]
  <2>1. /\ DOMAIN at = DOMAIN view.at \cup {day} /\ at[day] = i
        /\ \A d \in DOMAIN view.at \ {day} : at[d] = view.at[d]
    BY DEF Put
  <2> HIDE DEF at
  <2> QED BY <1>1, <2>1
<1> HIDE DEF at, old
<1>3. /\ \A j \in DOMAIN read : RowOK(read[j])
      /\ \A j \in DOMAIN old : RowOK(old[j])
      /\ \A j \in DOMAIN rows : RowOK(rows[j])
  BY <1>1 DEF RowsOK
<1>4. /\ DOMAIN old \subseteq DOMAIN rows /\ DOMAIN rows \subseteq DOMAIN old \cup {i}
      /\ i \notin DOMAIN old => Untrimmed(rows[i])
      /\ \A j \in DOMAIN old :
           /\ Follows(old[j], rows[j]) /\ (Untrimmed(old[j]) => Untrimmed(rows[j]))
           /\ j # i => OnlyEnded(old[j], rows[j])
  BY DEF old
<1>5. ASSUME NEW j \in DOMAIN read
      PROVE  /\ Follows(read[j], rows[j])
             /\ (\A d \in days \cup {day} : at[d] # j) => OnlyEnded(read[j], rows[j])
  <2>1. j \in DOMAIN old /\ j \in DOMAIN rows
    BY <1>1, <1>4
  <2>2. Follows(read[j], rows[j])
    BY <1>1, <1>3, <1>4, <2>1, FollowsOn
  <2>3. ASSUME \A d \in days \cup {day} : at[d] # j PROVE OnlyEnded(read[j], rows[j])
    BY <1>1, <1>2, <1>4, <2>1, <2>3 DEF OnlyEnded
  <2> QED BY <2>2, <2>3
<1>6. ASSUME NEW j \in DOMAIN rows \ DOMAIN read
      PROVE  (\E d \in days \cup {day} : at[d] = j) /\ Untrimmed(rows[j])
  <2>1. CASE j \in DOMAIN old
    BY <1>1, <1>2, <1>4, <2>1
  <2>2. CASE j \notin DOMAIN old
    BY <1>2, <1>4, <2>2
  <2> QED BY <2>1, <2>2
<1>7. ASSUME NEW d \in days \cup {day}
      PROVE  at[d] \in DOMAIN rows /\ rows[at[d]].who = who /\ rows[at[d]].day = d
  BY <1>1, <1>2, <1>4 DEF Follows
<1>8. ASSUME NEW p \in parts, Date(p.from) \in days \cup {day}
      PROVE  Within(p, rows[at[Date(p.from)]])
  <2>1. CASE Date(p.from) = day
    BY <1>2, <2>1
  <2>2. CASE Date(p.from) \in days
    <3> DEFINE k == view.at[Date(p.from)]
    <3>1. /\ k \in DOMAIN old /\ k \in DOMAIN rows /\ at[Date(p.from)] = k
          /\ old[k].day = Date(p.from) /\ Within(p, old[k])
      BY <1>1, <1>2, <1>4, <2>2
    <3>2. RowOK(old[k]) /\ RowOK(rows[k]) /\ Follows(old[k], rows[k]) /\ PartOK(p)
      BY <1>3, <1>4, <3>1
    <3> HIDE DEF k
    <3> QED BY <3>1, <3>2, StaysWithin
  <2> QED BY <1>8, <2>1, <2>2
<1> QED BY <1>1, <1>2, <1>4, <1>5, <1>6, <1>7, <1>8 DEF ViewOK, at

LEMMA ResolveKeeps ==
  ASSUME NEW read, RowsOK(read), NEW who \in Person, NEW parts, \A p \in parts : PartOK(p),
         NEW days, NEW day \in Nat \ days, \E p \in parts : Date(p.from) = day,
         NEW view, ViewOK(read, who, parts, days, view)
  PROVE  ViewOK(read, who, parts, days \cup {day}, Resolve(view, who, day, parts))
<1> DEFINE rows  == view.rows
           here  == {p \in parts : Date(p.from) = day}
           bound == Envelope(here)
           own  == {j \in DOMAIN rows : rows[j].who = who /\ rows[j].day = day}
           open  == {j \in own : rows[j].to = Open}
           i     == Latest(rows, IF open # {} THEN open ELSE own)
<1>1. RowsOK(rows) /\ rows \in Seq(SessionRow) /\ \A j \in DOMAIN rows : RowOK(rows[j])
  BY DEF ViewOK, RowsOK
<1>2. /\ bound.from \in Nat /\ bound.to \in Nat /\ Date(bound.from) = day
      /\ bound.from <= bound.to /\ bound.to <= Midnight(bound.from)
      /\ \A p \in here : bound.from <= p.from /\ p.to <= bound.to
  <2>1. here # {} /\ \A p \in here : PartOK(p) /\ Date(p.from) = day
    OBVIOUS
  <2> HIDE DEF here
  <2> QED BY <2>1, EnvelopeIs
<1>3. \A p \in here : p.from \in Nat /\ p.to \in Nat
  BY DEF PartOK
<1>4. Resolve(view, who, day, parts) =
        IF own # {}
        THEN [rows |-> [rows EXCEPT ![i] = Widened(@, bound.from, bound.to)], at |-> Put(view.at, day, i)]
        ELSE [rows |-> Append(EndedBefore(rows, day),
                              [who |-> who, day |-> day, from |-> bound.from, to |-> Open]),
              at   |-> Put(view.at, day, Len(rows) + 1)]
  BY DEF Resolve
<1> HIDE DEF bound, i, rows
<1>5. CASE own # {}
  <2> DEFINE w   == Widened(rows[i], bound.from, bound.to)
             new == [rows EXCEPT ![i] = w]
  <2>1. i \in own
    <3> DEFINE ids == IF open # {} THEN open ELSE own
    <3>1. ids \in SUBSET DOMAIN rows /\ ids # {} /\ \A j \in ids : rows[j].day <= day
      BY <1>5
    <3>2. i = Latest(rows, ids)
      BY DEF i
    <3>3. ids \subseteq own
      OBVIOUS
    <3> HIDE DEF ids
    <3> QED BY <1>1, <3>1, <3>2, <3>3, LatestIs
  <2>2. i \in DOMAIN rows /\ rows[i].who = who /\ rows[i].day = day /\ RowOK(rows[i])
    BY <1>1, <2>1
  <2>3. /\ RowOK(w) /\ Follows(rows[i], w) /\ (Untrimmed(rows[i]) => Untrimmed(w))
        /\ w.from <= bound.from /\ (w.to = Open \/ bound.to <= w.to)
    BY <1>2, <2>2, WidenedIs
  <2> HIDE DEF w
  <2>4. /\ w \in SessionRow /\ w.from \in Nat /\ w.to \in {Open} \cup Nat
        /\ w.who = who /\ w.day = day
    BY <2>2, <2>3 DEF RowOK, SessionRow, Follows
  <2>5. /\ new \in Seq(SessionRow) /\ DOMAIN new = DOMAIN rows /\ new[i] = w
        /\ \A j \in DOMAIN rows : j # i => new[j] = rows[j]
    BY <1>1, <2>2, <2>4
  <2> HIDE DEF new
  <2>6. RowsOK(new)
    BY <1>1, <2>3, <2>5 DEF RowsOK
  <2>7. \A j \in DOMAIN rows :
          /\ Follows(rows[j], new[j]) /\ (Untrimmed(rows[j]) => Untrimmed(new[j]))
          /\ j # i => OnlyEnded(rows[j], new[j])
    BY <1>1, <2>3, <2>5, FollowsSelf
  <2>8. \A p \in here : Within(p, w)
    BY <1>2, <1>3, <2>3, <2>4 DEF Within
  <2>9. Resolve(view, who, day, parts) = [rows |-> new, at |-> Put(view.at, day, i)]
    BY <1>4, <1>5 DEF new, w
  <2> QED BY <2>2, <2>4, <2>5, <2>6, <2>7, <2>8, <2>9, ViewGrows DEF rows
<1>6. CASE own = {}
  <2> DEFINE e   == EndedBefore(rows, day)
             entry == [who |-> who, day |-> day, from |-> bound.from, to |-> Open]
             n   == Len(rows) + 1
             new == Append(e, entry)
  <2>1. /\ e \in Seq(SessionRow) /\ Len(e) = Len(rows)
        /\ \A j \in DOMAIN rows : e[j] = rows[j] \/ (rows[j].to = Open /\ e[j] = Ended(rows[j]))
    BY <1>1, EndedBeforeIs
  <2>2. entry \in SessionRow /\ RowOK(entry) /\ Untrimmed(entry) /\ entry.who = who /\ entry.day = day
    BY <1>2 DEF RowOK, SessionRow, Untrimmed
  <2>3. entry.from = bound.from /\ entry.to = Open
    OBVIOUS
  <2> HIDE DEF e, entry
  <2>4. /\ new \in Seq(SessionRow) /\ DOMAIN rows = 1 .. Len(rows) /\ DOMAIN new = 1 .. n /\ new[n] = entry
        /\ n \notin DOMAIN rows /\ DOMAIN new = DOMAIN rows \cup {n}
        /\ \A j \in DOMAIN rows : new[j] = e[j]
    BY <1>1, <2>1, <2>2
  <2> HIDE DEF new, n
  <2>5. \A j \in DOMAIN rows :
          /\ RowOK(new[j]) /\ Follows(rows[j], new[j]) /\ OnlyEnded(rows[j], new[j])
          /\ Untrimmed(rows[j]) => Untrimmed(new[j])
    <3> TAKE j \in DOMAIN rows
    <3>1. RowOK(rows[j]) /\ (new[j] = rows[j] \/ (rows[j].to = Open /\ new[j] = Ended(rows[j])))
      BY <1>1, <2>1, <2>4
    <3>2. CASE new[j] = rows[j]
      BY <3>1, <3>2, FollowsSelf
    <3>3. CASE rows[j].to = Open /\ new[j] = Ended(rows[j])
      BY <3>1, <3>3, EndedIs
    <3> QED BY <3>1, <3>2, <3>3
  <2>6. RowsOK(new)
    BY <2>2, <2>4, <2>5 DEF RowsOK
  <2>7. \A p \in here : Within(p, new[n])
    BY <1>2, <2>3, <2>4 DEF Within
  <2>8. Resolve(view, who, day, parts) = [rows |-> new, at |-> Put(view.at, day, n)]
    BY <1>4, <1>6 DEF new, e, entry, n
  <2> QED BY <2>2, <2>4, <2>5, <2>6, <2>7, <2>8, ViewGrows DEF rows
<1> QED BY <1>5, <1>6

-----------------------------------------------------------------------------
\* All dates of a batch: the fold as the function of the sets of dates it is defined by.
IsView(read, who, parts, s, views) ==
  views[s] = IF s = {} THEN [rows |-> read, at |-> <<>>]
             ELSE Resolve(views[s \ {Max(s)}], who, Max(s), parts)
AreViews(read, who, parts, S, views) ==
  views = [s \in SUBSET S |->
             IF s = {} THEN [rows |-> read, at |-> <<>>]
             ELSE Resolve(views[s \ {Max(s)}], who, Max(s), parts)]
DatesOf(parts) == {Date(p.from) : p \in parts}

LEMMA ResolvedUnfolds ==
  ASSUME NEW who, NEW parts
  PROVE  Resolved(who, parts) =
           (CHOOSE views : AreViews(session, who, parts, DatesOf(parts), views))[DatesOf(parts)]
BY DEF Resolved, MapThenFoldSet, AreViews, DatesOf

LEMMA LastLess ==
  ASSUME NEW S \in SUBSET Nat, IsFiniteSet(S), NEW s \in SUBSET S
  PROVE  /\ Cardinality(s) \in Nat /\ (Cardinality(s) = 0 <=> s = {})
         /\ s # {} => /\ Max(s) \in s /\ s \ {Max(s)} \in SUBSET S
                      /\ Cardinality(s \ {Max(s)}) = Cardinality(s) - 1
<1>1. IsFiniteSet(s)
  BY FS_Subset
<1>2. s # {} => Max(s) \in s
  BY <1>1, MaxIsIn
<1> QED BY <1>1, <1>2, FS_CardinalityType, FS_EmptySet, FS_RemoveElement

\* There is one: from the smaller sets to those of the next size.
LEMMA ViewsExist ==
  ASSUME NEW S \in SUBSET Nat, IsFiniteSet(S), NEW read, NEW who, NEW parts
  PROVE  \E views : AreViews(read, who, parts, S, views)
<1> DEFINE Upto(n, views) == \A s \in SUBSET S : Cardinality(s) <= n => IsView(read, who, parts, s, views)
           Missing == {n \in Nat : ~\E views : Upto(n, views)}
<1>1. Missing = {}
  <2> SUFFICES ASSUME Missing # {} PROVE FALSE
    OBVIOUS
  <2>1. PICK n \in Missing : \A m \in Missing : n <= m
    BY LeastIs
  <2>2. n # 0
    <3> DEFINE none == [s \in SUBSET S |-> [rows |-> read, at |-> <<>>]]
    <3>1. ASSUME NEW s \in SUBSET S, Cardinality(s) <= 0 PROVE s = {}
      <4>1. Cardinality(s) \in Nat /\ (Cardinality(s) = 0 <=> s = {})
        BY LastLess
      <4> QED BY <3>1, <4>1
    <3>2. Upto(0, none)
      BY <3>1 DEF IsView
    <3> QED BY <3>2
  <2>3. PICK views : Upto(n - 1, views)
    <3>1. n - 1 \in Nat /\ ~(n <= n - 1)
      BY <2>2
    <3>2. n - 1 \notin Missing
      BY <2>1, <3>1
    <3> QED BY <3>1, <3>2
  <2> DEFINE next == [s \in SUBSET S |->
                        IF Cardinality(s) = n THEN Resolve(views[s \ {Max(s)}], who, Max(s), parts)
                        ELSE views[s]]
  <2>4. ASSUME NEW s \in SUBSET S, Cardinality(s) <= n PROVE IsView(read, who, parts, s, next)
    <3>1. CASE s = {}
      <4>1. Cardinality(s) = 0
        BY <3>1, LastLess
      <4>2. IsView(read, who, parts, s, views) /\ next[s] = views[s]
        BY <2>2, <2>3, <4>1
      <4> QED BY <3>1, <4>2 DEF IsView
    <3>2. CASE s # {}
      <4> DEFINE r == s \ {Max(s)}
      <4>1. /\ Cardinality(s) \in Nat /\ r \in SUBSET S /\ Cardinality(r) = Cardinality(s) - 1
        BY <3>2, LastLess
      <4>2. next[r] = views[r]
        BY <2>4, <4>1
      <4>3. CASE Cardinality(s) = n
        BY <3>2, <4>2, <4>3 DEF IsView
      <4>4. CASE Cardinality(s) # n
        <5>1. IsView(read, who, parts, s, views) /\ next[s] = views[s]
          BY <2>3, <2>4, <4>1, <4>4
        <5> QED BY <3>2, <4>2, <5>1 DEF IsView
      <4> QED BY <4>3, <4>4
    <3> QED BY <3>1, <3>2
  <2>5. Upto(n, next)
    BY <2>4
  <2> QED BY <2>5
<1>2. Cardinality(S) \in Nat
  BY FS_CardinalityType
<1>3. PICK views : Upto(Cardinality(S), views)
  BY <1>1, <1>2
<1>4. \A s \in SUBSET S : Cardinality(s) \in Nat /\ Cardinality(s) <= Cardinality(S)
  BY FS_Subset, FS_CardinalityType
<1>5. \A s \in SUBSET S : IsView(read, who, parts, s, views)
  BY <1>3, <1>4
<1> DEFINE all == [s \in SUBSET S |-> views[s]]
           Next1(v, s) == IF s = {} THEN [rows |-> read, at |-> <<>>]
                          ELSE Resolve(v[s \ {Max(s)}], who, Max(s), parts)
<1>6. \A s \in SUBSET S : Next1(all, s) = Next1(views, s)
  <2> TAKE s \in SUBSET S
  <2>1. all[s \ {Max(s)}] = views[s \ {Max(s)}]
    OBVIOUS
  <2> HIDE DEF all
  <2> QED BY <2>1
<1>7. \A s \in SUBSET S : all[s] = Next1(all, s)
  BY <1>5, <1>6 DEF IsView
<1>8. all = [s \in SUBSET S |-> Next1(all, s)]
  <2>1. all = [s \in SUBSET S |-> all[s]]
    OBVIOUS
  <2> HIDE DEF all, Next1
  <2> QED BY <1>7, <2>1
<1> HIDE DEF all
<1> QED BY <1>8 DEF AreViews

LEMMA DatesAreFinite ==
  ASSUME NEW parts, IsFiniteSet(parts), \A p \in parts : PartOK(p)
  PROVE  DatesOf(parts) \in SUBSET Nat /\ IsFiniteSet(DatesOf(parts))
<1> DEFINE f == [p \in parts |-> Date(p.from)]
<1>1. f \in Surjection(parts, DatesOf(parts))
  BY DEF Surjection, DatesOf
<1>2. IsFiniteSet(DatesOf(parts))
  BY <1>1, FS_Surjection
<1>3. \A p \in parts : Date(p.from) \in Nat
  BY DateIs DEF PartOK
<1> QED BY <1>2, <1>3 DEF DatesOf

LEMMA ResolvedIs ==
  ASSUME RowsOK(session), NEW who \in Person, NEW parts, IsFiniteSet(parts), \A p \in parts : PartOK(p)
  PROVE  ViewOK(session, who, parts, DatesOf(parts), Resolved(who, parts))
<1> DEFINE D     == DatesOf(parts)
           views == CHOOSE views : AreViews(session, who, parts, D, views)
<1>1. D \in SUBSET Nat /\ IsFiniteSet(D) /\ \A d \in D : \E p \in parts : Date(p.from) = d
  BY DatesAreFinite DEF DatesOf
<1> HIDE DEF D
<1>2. AreViews(session, who, parts, D, views)
  BY <1>1, ViewsExist
<1> HIDE DEF views
<1> DEFINE Wrong == {n \in Nat : \E s \in SUBSET D :
                       Cardinality(s) = n /\ ~ViewOK(session, who, parts, s, views[s])}
<1>3. Wrong = {}
  <2> SUFFICES ASSUME Wrong # {} PROVE FALSE
    OBVIOUS
  <2>1. PICK n \in Wrong : \A m \in Wrong : n <= m
    BY LeastIs
  <2>2. PICK s \in SUBSET D : Cardinality(s) = n /\ ~ViewOK(session, who, parts, s, views[s])
    BY <2>1
  <2>3. views[s] = IF s = {} THEN [rows |-> session, at |-> <<>>]
                   ELSE Resolve(views[s \ {Max(s)}], who, Max(s), parts)
    BY <1>2 DEF AreViews
  <2>4. CASE s = {}
    BY <2>2, <2>3, <2>4, ViewStarts
  <2>5. CASE s # {}
    <3> DEFINE day == Max(s)
               r   == s \ {day}
    <3>1. day \in s /\ r \in SUBSET D /\ Cardinality(r) = n - 1 /\ n - 1 \in Nat
      <4>1. /\ Cardinality(s) \in Nat /\ day \in s /\ r \in SUBSET D
            /\ Cardinality(r) = Cardinality(s) - 1 /\ Cardinality(r) \in Nat
        <5>1. Max(s) \in s /\ Cardinality(s \ {Max(s)}) = Cardinality(s) - 1 /\ Cardinality(s) \in Nat
          BY <1>1, <2>5, LastLess
        <5>2. r \in SUBSET D
          OBVIOUS
        <5>3. Cardinality(r) \in Nat
          <6> HIDE DEF r
          <6> QED BY <1>1, <5>2, LastLess
        <5> QED BY <5>1, <5>2, <5>3
      <4> QED BY <2>2, <4>1
    <3> HIDE DEF day
    <3>2. ViewOK(session, who, parts, r, views[r])
      <4>1. n - 1 \notin Wrong
        BY <2>1, <3>1
      <4> QED BY <3>1, <4>1
    <3>3. day \in Nat \ r /\ (\E p \in parts : Date(p.from) = day) /\ s = r \cup {day}
      BY <1>1, <3>1
    <3>4. views[s] = Resolve(views[r], who, day, parts)
      BY <2>3, <2>5 DEF day
    <3> HIDE DEF r
    <3>5. ViewOK(session, who, parts, r \cup {day}, Resolve(views[r], who, day, parts))
      BY <3>2, <3>3, ResolveKeeps
    <3> QED BY <2>2, <3>3, <3>4, <3>5
  <2> QED BY <2>4, <2>5
<1>4. ViewOK(session, who, parts, D, views[D])
  <2>1. Cardinality(D) \in Nat /\ Cardinality(D) \notin Wrong
    BY <1>1, <1>3, FS_CardinalityType
  <2> QED BY <2>1
<1>5. Resolved(who, parts) = views[D]
  BY ResolvedUnfolds DEF views, D
<1> QED BY <1>4, <1>5 DEF D

LEMMA PartsAreFinite ==
  ASSUME NEW sent \in SUBSET Seg, NEW d \in Drifts
  PROVE  LET parts == UNION {PartsOf(s, d) : s \in sent}
         IN  IsFiniteSet(parts) /\ \A p \in parts : PartOK(p)
<1> DEFINE f == [s \in sent |-> PartsOf(s, d)]
           T == {PartsOf(s, d) : s \in sent}
<1>1. IsFiniteSet(sent)
  BY SessionsAssumption, FS_Subset
<1>2. f \in Surjection(sent, T)
  BY DEF Surjection
<1>3. IsFiniteSet(T)
  BY <1>1, <1>2, FS_Surjection
<1>4. \A s \in sent : IsFiniteSet(PartsOf(s, d))
  <2> TAKE s \in sent
  <2>1. PICK x, y : PartsOf(s, d) \subseteq {x, y}
    <3> DEFINE from == Span[s].from + d
               to   == Span[s].to + d
    <3>1. PartsOf(s, d) = {Part(s, 0, from, to)}
          \/ PartsOf(s, d) = {Part(s, 0, from, Midnight(from)), Part(s, 1, Midnight(from), to)}
      BY PartsAre
    <3> QED BY <3>1
  <2>2. IsFiniteSet({x, y})
    <3>1. IsFiniteSet({x}) /\ {x, y} = {x} \cup {y}
      BY FS_Singleton
    <3> QED BY <3>1, FS_AddElement
  <2> QED BY <2>1, <2>2, FS_Subset
<1>5. \A x \in T : IsFiniteSet(x)
  BY <1>4
<1> HIDE DEF T
<1>6. IsFiniteSet(UNION T)
  BY <1>3, <1>5, FS_UNION
<1>7. \A s \in sent : \A p \in PartsOf(s, d) : PartOK(p)
  BY PartIsOfOneDate DEF PartOK
<1> QED BY <1>6, <1>7 DEF T

-----------------------------------------------------------------------------
\* The tables, and what a transaction under way still has to write.

\* A table that has more sessions, of the same persons and dates.
Grows(rows, table) ==
  /\ DOMAIN rows \subseteq DOMAIN table
  /\ \A i \in DOMAIN rows : table[i].who = rows[i].who /\ table[i].day = rows[i].day

PlanOK(table, r) ==
  /\ r.who \in Person /\ RowsOK(r.read) /\ Grows(r.read, table)
  /\ \A p \in r.parts : PartOK(p)
  /\ ViewOK(r.read, r.who, r.parts, DatesOf(r.parts), r.plan)

Listed(table, p) ==
  /\ PartOK(p) /\ p.in \in DOMAIN table
  /\ table[p.in].who = p.who /\ table[p.in].day = Date(p.from)

TablesInv ==
  /\ RowsOK(session) /\ owner \in Person
  /\ \A p \in stored : p.seg \in Seg /\ Listed(session, p)
  /\ {farewell, closing, raced, overtaken} \subseteq SUBSET Ids
  /\ date \in 0 .. LastDay /\ lost \in 0 .. MaxLost /\ byes \subseteq ByeAt /\ again \subseteq Seg
PlansInv == \A b \in Batch : batch[b] # NoBatch => PlanOK(session, batch[b])

TableInv == TablesInv /\ PlansInv /\ SessionsHold

\* What SessionsHold says of a segment and of a session.
Holding(p, entry, excused) == excused \/ Within(p, entry)
Forward(entry, excused) == entry.to # Open => entry.from <= entry.to \/ excused
Because(i, day) == \/ \E p \in stored : p.in = i
                   \/ \E s \in again, d \in Drifts : \E p \in PartsOf(s, d) : Date(p.from) = day

AllHeld ==
  /\ \A p \in stored : Holding(p, session[p.in], p.in \in raced \cup overtaken)
  /\ \A i \in Ids : Forward(session[i], i \in raced) /\ Because(i, session[i].day)

LEMMA HoldIs == TablesInv => (SessionsHold <=> AllHeld)
<1> SUFFICES ASSUME TablesInv PROVE SessionsHold <=> AllHeld
  OBVIOUS
<1>1. \A i \in Ids : RowOK(session[i])
  BY DEF TablesInv, RowsOK, Ids
<1>2. Holds <=> \A p \in stored : Holding(p, session[p.in], p.in \in raced \cup overtaken)
  BY DEF TablesInv, Listed, Holds, Holding, Within
<1>3. OfOneDate <=> \A i \in Ids : Forward(session[i], i \in raced)
  BY <1>1 DEF OfOneDate, Forward, RowOK
<1>4. NotEmpty <=> \A i \in Ids : Because(i, session[i].day)
  BY DEF NotEmpty, Because
<1> QED BY <1>2, <1>3, <1>4 DEF SessionsHold, AllHeld

LEMMA GrowsOn ==
  ASSUME NEW x, NEW y, NEW z, Grows(x, y), Grows(y, z)
  PROVE  Grows(x, z)
BY DEF Grows

LEMMA PlanStays ==
  ASSUME NEW table, NEW next, Grows(table, next), NEW r, PlanOK(table, r)
  PROVE  PlanOK(next, r)
BY GrowsOn DEF PlanOK

LEMMA FiledStays ==
  ASSUME NEW table, NEW next, Grows(table, next), NEW p, Listed(table, p)
  PROVE  Listed(next, p)
BY DEF Listed, Grows

\* Sessions are ended: each at its midnight, or at an instant not before it began, of
\* which the segments past it are noted.
LEMMA EndsKeep ==
  ASSUME TableInv, UNCHANGED <<owner, batch, stored, again, raced>>, overtaken \subseteq overtaken',
         {farewell', closing', overtaken'} \subseteq SUBSET Ids,
         date' \in 0 .. LastDay, lost' \in 0 .. MaxLost, byes' \subseteq ByeAt,
         session' = [i \in Ids |-> session'[i]],
         \A i \in Ids :
           /\ RowOK(session'[i]) /\ session'[i].who = session[i].who
           /\ session'[i].day = session[i].day /\ session'[i].from = session[i].from
           /\ \/ session'[i].to \in {session[i].to, Midnight(session[i].from)}
              \/ /\ session[i].from <= session'[i].to
                 /\ \A p \in stored : p.in = i /\ p.to > session'[i].to => i \in overtaken'
  PROVE  TableInv'
<1>1. TablesInv /\ PlansInv /\ RowsOK(session) /\ Ids = 1 .. Len(session) /\ Len(session) \in Nat
      /\ \A i \in Ids : RowOK(session[i])
  BY DEF TableInv, TablesInv, RowsOK, Ids
<1>2. DOMAIN session' = Ids /\ Ids' = Ids
  BY DEF Ids
<1>3. RowsOK(session')
  <2>1. \A i \in Ids : session'[i] \in SessionRow
    BY DEF RowOK
  <2>2. session' \in Seq(SessionRow)
    <3>1. session' \in [1 .. Len(session) -> SessionRow]
      BY <1>1, <2>1
    <3> QED BY <1>1, <3>1
  <2> QED BY <1>2, <2>2 DEF RowsOK
<1>4. Grows(session, session')
  BY <1>2 DEF Grows, Ids
<1>5. TablesInv'
  <2>1. \A p \in stored : Listed(session', p)
    BY <1>1, <1>4, FiledStays DEF TablesInv
  <2> QED BY <1>1, <1>2, <1>3, <2>1 DEF TablesInv
<1>6. PlansInv'
  BY <1>1, <1>4, PlanStays DEF PlansInv
<1>7. /\ \A p \in stored : Holding(p, session[p.in], p.in \in raced \cup overtaken)
      /\ \A i \in Ids : Forward(session[i], i \in raced) /\ Because(i, session[i].day)
  BY <1>1, HoldIs DEF TableInv, AllHeld
<1>8. \A i \in Ids : /\ session[i].from \in Nat /\ session'[i].to \in {Open} \cup Nat /\ session[i].to \in {Open} \cup Nat
                     /\ Midnight(session[i].from) \in Nat /\ session[i].from < Midnight(session[i].from)
                     /\ session[i].day = Date(session[i].from)
  BY <1>1, DateIs DEF RowOK, SessionRow
<1>9. \A p \in stored : /\ p.in \in Ids /\ PartOK(p) /\ Date(p.from) = session[p.in].day
                        /\ p.to \in Nat /\ p.to <= Midnight(session[p.in].from)
  <2> TAKE p \in stored
  <2>1. p.in \in Ids /\ PartOK(p) /\ Date(p.from) = session[p.in].day
    BY <1>1 DEF TablesInv, Listed, Ids
  <2>2. Midnight(p.from) = Midnight(session[p.in].from)
    BY <1>8, <2>1, SameMidnight DEF PartOK
  <2> QED BY <2>1, <2>2 DEF PartOK
<1>10. \A p \in stored : Holding(p, session'[p.in], p.in \in raced' \cup overtaken')
  <2> TAKE p \in stored
  <2> DEFINE i == p.in
  <2>1. i \in Ids /\ p.to \in Nat /\ p.to <= Midnight(session[i].from)
    BY <1>9
  <2>2. CASE i \in raced \cup overtaken
    BY <2>2 DEF Holding
  <2>3. CASE i \notin raced \cup overtaken
    <3>1. session[i].from <= p.from /\ (session[i].to = Open \/ p.to <= session[i].to)
      BY <1>7, <2>3 DEF Holding, Within
    <3>2. CASE session'[i].to \in {session[i].to, Midnight(session[i].from)}
      BY <2>1, <3>1, <3>2 DEF Holding, Within
    <3>3. CASE p.to > session'[i].to => i \in overtaken'
      BY <1>8, <2>1, <3>1, <3>3 DEF Holding, Within
    <3> QED BY <2>1, <3>2, <3>3
  <2> QED BY <2>2, <2>3
<1>11. \A i \in Ids : Forward(session'[i], i \in raced')
  <2> TAKE i \in Ids
  <2>1. CASE session'[i].to \in {session[i].to, Midnight(session[i].from)}
    BY <1>7, <1>8, <2>1 DEF Forward
  <2>2. CASE session[i].from <= session'[i].to
    BY <2>2 DEF Forward
  <2> QED BY <2>1, <2>2
<1>12. \A i \in Ids' : Because(i, session[i].day)'
  BY <1>2, <1>7 DEF Because
<1>13. SessionsHold'
  <2>1. TablesInv' => (SessionsHold' <=> AllHeld')
    BY HoldIs, PTL
  <2>2. AllHeld'
    BY <1>2, <1>10, <1>11, <1>12 DEF AllHeld
  <2> QED BY <1>5, <2>1, <2>2
<1> QED BY <1>5, <1>6, <1>13 DEF TableInv

-----------------------------------------------------------------------------
\* The steps that leave the sessions alone.
LEMMA LookAway ==
  ASSUME TableInv, UNCHANGED <<session, stored, raced, overtaken>>,
         again \subseteq again', again' \subseteq Seg, owner' \in Person,
         {farewell', closing'} \subseteq SUBSET Ids,
         date' \in 0 .. LastDay, lost' \in 0 .. MaxLost, byes' \subseteq ByeAt,
         \A b \in Batch : batch'[b] # NoBatch => PlanOK(session, batch'[b])
  PROVE  TableInv'
<1>1. TablesInv'
  BY DEF TableInv, TablesInv, Ids
<1>2. PlansInv'
  BY DEF PlansInv
<1>3. AllHeld
  BY HoldIs DEF TableInv
<1>4. AllHeld'
  <2>1. \A i \in Ids : Because(i, session[i].day)'
    BY <1>3 DEF AllHeld, Because
  <2> QED BY <1>3, <2>1 DEF AllHeld, Ids
<1>5. SessionsHold'
  <2>1. TablesInv' => (SessionsHold' <=> AllHeld')
    BY HoldIs, PTL
  <2> QED BY <1>1, <1>4, <2>1
<1> QED BY <1>1, <1>2, <1>5 DEF TableInv

LEMMA IngestHolds == ASSUME SegmentsInv, TableInv, NEW b \in Batch, Ingest(b) PROVE TableInv'
<1>1. PICK sent \in SUBSET unsent \ {{}}, drift \in Drifts :
        LET parts == UNION {PartsOf(s, drift) : s \in sent}
        IN  batch' = [batch EXCEPT ![b] =
              [segs |-> sent, parts |-> parts, who |-> owner, heard |-> TRUE,
               read |-> session, plan |-> Resolved(owner, parts)]]
  BY DEF Ingest
<1> DEFINE parts == UNION {PartsOf(s, drift) : s \in sent}
           new   == [segs |-> sent, parts |-> parts, who |-> owner, heard |-> TRUE,
                     read |-> session, plan |-> Resolved(owner, parts)]
<1>2. batch' = [batch EXCEPT ![b] = new]
  BY <1>1
<1>3. sent \in SUBSET Seg /\ TablesInv /\ PlansInv /\ batch = [c \in Batch |-> batch[c]]
  BY DEF SegmentsInv, BatchesInv, TableInv
<1>4. IsFiniteSet(parts) /\ \A p \in parts : PartOK(p)
  BY <1>3, PartsAreFinite
<1>5. new.who = owner /\ new.read = session /\ new.parts = parts /\ new.plan = Resolved(owner, parts)
  OBVIOUS
<1> HIDE DEF parts, new
<1>6. RowsOK(session) /\ owner \in Person
  BY <1>3 DEF TablesInv
<1>7. ViewOK(session, owner, parts, DatesOf(parts), Resolved(owner, parts))
  BY <1>4, <1>6, ResolvedIs
<1>8. PlanOK(session, new)
  BY <1>4, <1>5, <1>6, <1>7 DEF PlanOK, Grows
<1>9. \A c \in Batch : batch'[c] # NoBatch => PlanOK(session, batch'[c])
  <2>1. batch'[b] = new /\ \A c \in Batch : c # b => batch'[c] = batch[c]
    BY <1>2, <1>3
  <2> QED BY <1>3, <1>8, <2>1 DEF PlansInv
<1>10. UNCHANGED <<date, owner, session, stored, byes, farewell, closing, lost, again, raced, overtaken>>
  BY DEF Ingest
<1> QED BY <1>3, <1>6, <1>9, <1>10, LookAway DEF TablesInv

LEMMA LostHolds ==
  ASSUME SegmentsInv, TableInv, NEW b \in Batch, AnswerLost(b) \/ Abort(b)
  PROVE  TableInv'
<1>1. TablesInv /\ PlansInv /\ batch[b] # NoBatch /\ batch = [c \in Batch |-> batch[c]]
      /\ batch[b].segs \subseteq Seg
  BY DEF SegmentsInv, BatchesInv, TableInv, AnswerLost, Abort
<1>2. /\ UNCHANGED <<date, owner, session, stored, byes, farewell, closing, raced, overtaken>>
      /\ again \subseteq again' /\ again' \subseteq Seg /\ lost' = lost + 1 /\ lost < MaxLost
  BY <1>1 DEF AnswerLost, Abort, Lose, TablesInv
<1>3. lost' \in 0 .. MaxLost
  BY <1>1, <1>2, SessionsAssumption DEF TablesInv
<1>4. \A c \in Batch : batch'[c] # NoBatch => PlanOK(session, batch'[c])
  <2>1. CASE Abort(b)
    BY <1>1, <2>1 DEF Abort, PlansInv
  <2>2. CASE AnswerLost(b)
    <3>1. /\ batch'[b] = [batch[b] EXCEPT !.heard = FALSE]
          /\ \A c \in Batch : c # b => batch'[c] = batch[c]
      BY <1>1, <2>2 DEF AnswerLost
    <3> DEFINE r == batch[b]
               q == [r EXCEPT !.heard = FALSE]
    <3>2. q.who = r.who /\ q.read = r.read /\ q.parts = r.parts /\ q.plan = r.plan
      OBVIOUS
    <3>3. PlanOK(session, r)
      BY <1>1 DEF PlansInv
    <3> HIDE DEF q, r
    <3>4. PlanOK(session, q)
      BY <3>2, <3>3 DEF PlanOK
    <3> QED BY <1>1, <3>1, <3>4 DEF PlansInv, q, r
  <2> QED BY <2>1, <2>2
<1> QED BY <1>1, <1>2, <1>3, <1>4, LookAway DEF TablesInv

LEMMA QuietHolds ==
  ASSUME TableInv, CloseReads \/ NextDate \/ HandOver \/ UNCHANGED sessionVars
  PROVE  TableInv'
<1>1. TablesInv /\ PlansInv
  BY DEF TableInv
<1>2. UNCHANGED <<session, stored, raced, overtaken, again, byes, batch>>
  BY DEF CloseReads, NextDate, HandOver, sessionVars
<1>3. {farewell', closing'} \subseteq SUBSET Ids
  BY <1>1 DEF CloseReads, NextDate, HandOver, sessionVars, TablesInv
<1>4. owner' \in Person
  BY <1>1 DEF CloseReads, NextDate, HandOver, sessionVars, TablesInv
<1>5. date' \in 0 .. LastDay /\ lost' \in 0 .. MaxLost
  BY <1>1, SessionsAssumption DEF CloseReads, NextDate, HandOver, Lose, sessionVars, TablesInv
<1> QED BY <1>1, <1>2, <1>3, <1>4, <1>5, LookAway DEF TablesInv, PlansInv

-----------------------------------------------------------------------------
\* The steps that end sessions.
LEMMA OwnMidnight ==
  ASSUME TableInv, NEW ids, ids \subseteq Ids, session' = AtOwnMidnight(ids),
         UNCHANGED <<date, owner, batch, stored, byes, lost, again, raced, overtaken>>,
         {farewell', closing'} \subseteq SUBSET Ids
  PROVE  TableInv'
<1>1. TablesInv /\ \A i \in Ids : RowOK(session[i])
  BY DEF TableInv, TablesInv, RowsOK, Ids
<1>2. session' = [i \in Ids |-> IF i \in ids THEN Ended(session[i]) ELSE session[i]]
  BY DEF AtOwnMidnight, Ended
<1>3. \A i \in Ids : session'[i] = Ended(session[i]) \/ session'[i] = session[i]
  BY <1>2
<1>4. session' = [i \in Ids |-> session'[i]]
  BY <1>2
<1>5. ASSUME NEW i \in Ids
      PROVE  /\ RowOK(session'[i]) /\ session'[i].who = session[i].who
             /\ session'[i].day = session[i].day /\ session'[i].from = session[i].from
             /\ session'[i].to \in {session[i].to, Midnight(session[i].from)}
  <2>1. CASE session'[i] = session[i]
    BY <1>1, <2>1
  <2>2. CASE session'[i] = Ended(session[i])
    BY <1>1, <2>2, EndedIs
  <2> QED BY <1>3, <2>1, <2>2
<1> QED BY <1>1, <1>4, <1>5, EndsKeep DEF TablesInv

LEMMA FarewellHolds == ASSUME TableInv, NEW t \in ByeAt, Farewell(t) PROVE TableInv'
<1>1. TablesInv /\ \A i \in Ids : RowOK(session[i])
  BY DEF TableInv, TablesInv, RowsOK, Ids
<1>2. PICK drift \in Drifts :
        LET at == t + drift
        IN  /\ session' = [i \in Ids |-> IF i \in EndedBy(at) THEN [session[i] EXCEPT !.to = at] ELSE session[i]]
            /\ overtaken' = overtaken \cup {i \in EndedBy(at) : \E p \in stored : p.in = i /\ p.to > at}
            /\ farewell' = {i \in Ids : session[i].day < Date(at) /\ session[i].to = Open}
  BY DEF Farewell
<1> DEFINE at == t + drift
<1>3. at \in Nat
  BY SessionsAssumption
<1>4. /\ session' = [i \in Ids |-> IF i \in EndedBy(at) THEN [session[i] EXCEPT !.to = at] ELSE session[i]]
      /\ overtaken' = overtaken \cup {i \in EndedBy(at) : \E p \in stored : p.in = i /\ p.to > at}
      /\ farewell' \subseteq Ids /\ EndedBy(at) \subseteq Ids
  BY <1>2 DEF EndedBy
<1> HIDE DEF at
<1>5. session' = [i \in Ids |-> session'[i]]
  BY <1>4
<1>6. /\ UNCHANGED <<date, owner, batch, stored, closing, again, raced>>
      /\ byes' \subseteq byes /\ (lost' = lost \/ (lost < MaxLost /\ lost' = lost + 1))
  BY DEF Farewell, Lose
<1>7. lost' \in 0 .. MaxLost /\ byes' \subseteq ByeAt /\ date' \in 0 .. LastDay
      /\ {farewell', closing', overtaken'} \subseteq SUBSET Ids /\ overtaken \subseteq overtaken'
  BY <1>1, <1>4, <1>6, SessionsAssumption DEF TablesInv
<1>8. ASSUME NEW i \in Ids
      PROVE  /\ RowOK(session'[i]) /\ session'[i].who = session[i].who
             /\ session'[i].day = session[i].day /\ session'[i].from = session[i].from
             /\ \/ session'[i].to \in {session[i].to, Midnight(session[i].from)}
                \/ /\ session[i].from <= session'[i].to
                   /\ \A p \in stored : p.in = i /\ p.to > session'[i].to => i \in overtaken'
  <2>1. CASE i \notin EndedBy(at)
    BY <1>1, <1>4, <2>1
  <2>2. CASE i \in EndedBy(at)
    <3> DEFINE entry == session[i]
               new == [entry EXCEPT !.to = at]
    <3>1. /\ entry.day = Date(at) /\ entry.from <= at
          /\ entry \in SessionRow /\ entry.from \in Nat /\ entry.day = Date(entry.from)
      BY <1>1, <2>2 DEF EndedBy, RowOK, SessionRow
    <3>2. /\ new.who = entry.who /\ new.day = entry.day /\ new.from = entry.from /\ new.to = at
          /\ new \in SessionRow /\ session'[i] = new
      BY <1>3, <1>4, <2>2, <3>1 DEF SessionRow
    <3> HIDE DEF entry, new
    <3>3. at <= Midnight(entry.from)
      <4>1. Midnight(at) = Midnight(entry.from) /\ at < Midnight(at) /\ Midnight(at) \in Nat
        BY <1>3, <3>1, SameMidnight, DateIs
      <4> QED BY <1>3, <4>1
    <3>4. RowOK(new)
      BY <3>1, <3>2, <3>3 DEF RowOK
    <3>5. \A p \in stored : p.in = i /\ p.to > at => i \in overtaken'
      BY <1>4, <2>2
    <3> QED BY <3>1, <3>2, <3>4, <3>5 DEF entry
  <2> QED BY <2>1, <2>2
<1> QED BY <1>5, <1>6, <1>7, <1>8, EndsKeep

-----------------------------------------------------------------------------
\* A commit: the rows it read, over what they are by now, and then its own.
LEMMA OverIs ==
  ASSUME NEW live, NEW read, NEW plan, RowOK(live), RowOK(read), RowOK(plan),
         live.who = read.who, live.day = read.day, Follows(read, plan)
  PROVE  LET o == Over(live, read, plan)
         IN  /\ RowOK(o) /\ o.who = live.who /\ o.day = live.day
             /\ live = read => o.from = plan.from /\ o.to = plan.to
             /\ OnlyEnded(read, plan) => o.from = live.from /\ o.to \in {live.to, Midnight(live.from)}
<1> DEFINE o == Over(live, read, plan)
<1>1. /\ live \in SessionRow /\ read \in SessionRow /\ plan \in SessionRow
      /\ Date(live.from) = live.day /\ Date(read.from) = live.day /\ Date(plan.from) = live.day
      /\ live.to # Open => live.to <= Midnight(live.from)
      /\ plan.to # Open => plan.to <= Midnight(plan.from)
  BY DEF RowOK, Follows
<1>2. /\ live.from \in Nat /\ read.from \in Nat /\ plan.from \in Nat
      /\ live.to \in {Open} \cup Nat /\ plan.to \in {Open} \cup Nat
  BY <1>1 DEF SessionRow
<1>3. /\ o \in SessionRow /\ o.who = live.who /\ o.day = live.day
      /\ o.from = (IF plan.from # read.from THEN plan.from ELSE live.from)
      /\ o.to = (IF plan.to # read.to THEN plan.to ELSE live.to)
  BY <1>1, <1>2 DEF Over, SessionRow
<1> HIDE DEF o
<1>4. Midnight(plan.from) = Midnight(live.from) /\ Midnight(read.from) = Midnight(live.from)
      /\ Midnight(o.from) = Midnight(live.from)
  BY <1>1, <1>2, <1>3, SameMidnight
<1>5. RowOK(o)
  BY <1>1, <1>3, <1>4 DEF RowOK
<1>6. OnlyEnded(read, plan) => o.from = live.from /\ o.to \in {live.to, Midnight(live.from)}
  BY <1>3, <1>4 DEF OnlyEnded
<1>7. live = read => o.from = plan.from /\ o.to = plan.to
  BY <1>3
<1> QED BY <1>3, <1>5, <1>6, <1>7 DEF o

\* Where a commit puts the sessions of its dates, and what it writes into a row it read.
PlaceOf(r) ==
  LET shift == Len(session) - Len(r.read)
  IN  [d \in DOMAIN r.plan.at |->
        IF r.plan.at[d] > Len(r.read) THEN r.plan.at[d] + shift ELSE r.plan.at[d]]
WrittenTo(r, i) == IF i <= Len(r.read) THEN Over(session[i], r.read[i], r.plan.rows[i]) ELSE session[i]

LEMMA CommitDoes ==
  ASSUME NEW b \in Batch, Commit(b)
  PROVE  LET r == batch[b]
         IN  /\ session' = [i \in Ids |-> WrittenTo(r, i)] \o
                             SubSeq(r.plan.rows, Len(r.read) + 1, Len(r.plan.rows))
             /\ stored' = stored \cup {[seg |-> p.seg, i |-> p.i, from |-> p.from, to |-> p.to,
                             who |-> r.who, in |-> PlaceOf(r)[Date(p.from)]] : p \in Fresh(r.parts)}
             /\ raced' = IF session = r.read THEN raced ELSE raced \cup {PlaceOf(r)[d] : d \in DOMAIN PlaceOf(r)}
BY DEF Commit, PlaceOf, WrittenTo, Range

\* The new table, row by row.
LEMMA ConcatIs ==
  ASSUME NEW S, NEW x \in Seq(S), NEW y \in Seq(S), NEW i \in (Len(x) + 1) .. (Len(x) + Len(y))
  PROVE  (x \o y)[i] = y[i - Len(x)]
OBVIOUS

AreJoined(all, f, m, rows, n) ==
  /\ n \in Nat /\ m \in Nat /\ n <= m /\ n <= Len(rows)
  /\ f \in [1 .. m -> SessionRow] /\ rows \in Seq(SessionRow)
  /\ all = f \o SubSeq(rows, n + 1, Len(rows))
LEMMA Joined ==
  ASSUME NEW all, NEW f, NEW m, NEW rows, NEW n, AreJoined(all, f, m, rows, n)
  PROVE  /\ all \in Seq(SessionRow) /\ DOMAIN all = 1 .. (m + (Len(rows) - n))
         /\ \A i \in 1 .. m : all[i] = f[i]
         /\ \A j \in (n + 1) .. Len(rows) : all[j + (m - n)] = rows[j]
<1> DEFINE tail == SubSeq(rows, n + 1, Len(rows))
           k    == Len(rows) - n
<1>0. /\ n \in Nat /\ m \in Nat /\ n <= m /\ n <= Len(rows)
      /\ f \in [1 .. m -> SessionRow] /\ rows \in Seq(SessionRow)
      /\ all = f \o tail
  BY DEF AreJoined
<1>1. k \in Nat /\ Len(rows) \in Nat
  BY <1>0
<1>2. f \in Seq(SessionRow) /\ Len(f) = m
  BY <1>0
<1>3. tail \in Seq(SessionRow) /\ Len(tail) = k /\ \A j \in 1 .. k : tail[j] = rows[j + n]
  <2>1. \A j \in (n + 1) .. Len(rows) : rows[j] \in SessionRow
    BY <1>0
  <2> QED BY <1>0, <1>1, <2>1
<1> HIDE DEF tail, k
<1>4. all = f \o tail
  BY <1>0
<1>5. all \in Seq(SessionRow) /\ Len(all) = m + k
  <2>1. f \o tail \in Seq(SessionRow) /\ Len(f \o tail) = Len(f) + Len(tail)
    BY <1>2, <1>3
  <2> QED BY <1>2, <1>3, <1>4, <2>1
<1>6. \A i \in 1 .. m : all[i] = f[i]
  BY <1>0, <1>1, <1>2, <1>3, <1>4
<1>7. ASSUME NEW j \in (n + 1) .. Len(rows) PROVE all[j + (m - n)] = rows[j]
  <2>1. j - n \in 1 .. k /\ j + (m - n) = m + (j - n)
    BY <1>0, <1>1 DEF k
  <2>2. \A i \in (m + 1) .. (m + k) : all[i] = tail[i - m]
    <3> TAKE i \in (m + 1) .. (m + k)
    <3>1. i \in (Len(f) + 1) .. (Len(f) + Len(tail))
      BY <1>0, <1>2, <1>3
    <3>2. (f \o tail)[i] = tail[i - Len(f)]
      BY <1>2, <1>3, <3>1, ConcatIs
    <3> QED BY <1>2, <1>4, <3>2
  <2>3. j + (m - n) \in (m + 1) .. (m + k) /\ (j + (m - n)) - m = j - n /\ (j - n) + n = j
    BY <1>0, <1>1, <2>1
  <2> QED BY <1>0, <1>3, <2>1, <2>2, <2>3
<1>8. DOMAIN all = 1 .. (m + k)
  BY <1>5
<1> QED BY <1>0, <1>5, <1>6, <1>7, <1>8 DEF k

LEMMA CommitRows ==
  ASSUME TablesInv, NEW b \in Batch, Commit(b), PlanOK(session, batch[b])
  PROVE  LET r  == batch[b]
             at == PlaceOf(r)
         IN  /\ RowsOK(session') /\ Grows(session, session')
             /\ \A i \in Ids : \/ session'[i] = session[i]
                               \/ /\ i \in DOMAIN r.read
                                  /\ session'[i] = Over(session[i], r.read[i], r.plan.rows[i])
             /\ DOMAIN at = DatesOf(r.parts)
             /\ \A d \in DatesOf(r.parts) :
                  /\ at[d] \in DOMAIN session'
                  /\ session'[at[d]].who = r.who /\ session'[at[d]].day = d
                  /\ session = r.read => at[d] = r.plan.at[d]
             /\ \A i \in DOMAIN session' \ Ids :
                  /\ \E d \in DatesOf(r.parts) : at[d] = i
                  /\ Untrimmed(session'[i])
                  /\ session = r.read => i \in DOMAIN r.plan.rows /\ session'[i] = r.plan.rows[i]
             /\ \A i \in DOMAIN r.read : i \in Ids /\ ((\A d \in DatesOf(r.parts) : at[d] # i) =>
                  \A d \in DatesOf(r.parts) : r.plan.at[d] # i)
             /\ \A i \in DOMAIN r.read : session'[i] = Over(session[i], r.read[i], r.plan.rows[i])
<1> DEFINE r    == batch[b]
           at   == PlaceOf(r)
           rows == r.plan.rows
           n    == Len(r.read)
           m    == Len(session)
           D    == DatesOf(r.parts)
           f    == [i \in Ids |-> WrittenTo(r, i)]
<1>1. /\ r.who \in Person /\ RowsOK(r.read) /\ Grows(r.read, session)
      /\ ViewOK(r.read, r.who, r.parts, D, r.plan)
  BY DEF PlanOK
<1>2. /\ RowsOK(session) /\ RowsOK(rows) /\ DOMAIN r.read \subseteq DOMAIN rows /\ DOMAIN r.plan.at = D
      /\ \A i \in DOMAIN r.read : Follows(r.read[i], rows[i])
      /\ \A i \in DOMAIN rows \ DOMAIN r.read : (\E d \in D : r.plan.at[d] = i) /\ Untrimmed(rows[i])
      /\ \A d \in D : r.plan.at[d] \in DOMAIN rows /\ rows[r.plan.at[d]].who = r.who /\ rows[r.plan.at[d]].day = d
  BY <1>1 DEF ViewOK, TablesInv
<1>3. /\ session' = f \o SubSeq(rows, n + 1, Len(rows))
      /\ at = [d \in D |-> IF r.plan.at[d] > n THEN r.plan.at[d] + (m - n) ELSE r.plan.at[d]]
  BY <1>2, CommitDoes DEF PlaceOf
<1> HIDE DEF D
<1>4. \A i \in Ids : f[i] = IF i <= n THEN Over(session[i], r.read[i], rows[i]) ELSE session[i]
  BY DEF WrittenTo
<1>5. f = [i \in Ids |-> f[i]]
  OBVIOUS
<1> HIDE DEF at, rows, f, r
<1>6. /\ n \in Nat /\ m \in Nat /\ Len(rows) \in Nat /\ DOMAIN r.read = 1 .. n /\ Ids = 1 .. m
      /\ DOMAIN session = 1 .. m /\ DOMAIN rows = 1 .. Len(rows) /\ rows \in Seq(SessionRow)
  BY <1>1, <1>2 DEF RowsOK, Ids
<1> HIDE DEF n, m
<1>7. n <= m /\ n <= Len(rows)
  <2>1. 1 .. n \subseteq 1 .. m /\ 1 .. n \subseteq 1 .. Len(rows)
    BY <1>1, <1>2, <1>6 DEF Grows
  <2>2. CASE n = 0
    BY <1>6, <2>2
  <2>3. CASE n # 0
    <3>1. n \in 1 .. n
      BY <1>6, <2>3
    <3>2. n \in 1 .. m /\ n \in 1 .. Len(rows)
      BY <2>1, <3>1
    <3> QED BY <1>6, <3>2
  <2> QED BY <2>2, <2>3
<1>8. ASSUME NEW i \in 1 .. m
      PROVE  RowOK(f[i]) /\ f[i].who = session[i].who /\ f[i].day = session[i].day
  <2>1. RowOK(session[i])
    BY <1>2, <1>6 DEF RowsOK
  <2>2. CASE i <= n
    <3>1. i \in DOMAIN r.read /\ i \in DOMAIN rows
      BY <1>2, <1>6, <2>2
    <3>2. RowOK(r.read[i]) /\ RowOK(rows[i]) /\ Follows(r.read[i], rows[i])
          /\ session[i].who = r.read[i].who /\ session[i].day = r.read[i].day
      BY <1>1, <1>2, <3>1 DEF RowsOK, Grows
    <3>3. f[i] = Over(session[i], r.read[i], rows[i])
      BY <1>4, <1>6, <2>2
    <3> QED BY <2>1, <3>2, <3>3, OverIs
  <2>3. CASE ~(i <= n)
    BY <1>4, <1>6, <2>1, <2>3
  <2> QED BY <2>2, <2>3
<1>9. f \in [1 .. m -> SessionRow]
  BY <1>5, <1>6, <1>8 DEF RowOK
<1>10. /\ session' \in Seq(SessionRow) /\ DOMAIN session' = 1 .. (m + (Len(rows) - n))
       /\ \A i \in 1 .. m : session'[i] = f[i]
       /\ \A j \in (n + 1) .. Len(rows) : session'[j + (m - n)] = rows[j]
  <2>1. AreJoined(session', f, m, rows, n)
    BY <1>3, <1>6, <1>7, <1>9 DEF AreJoined
  <2> QED BY <2>1, Joined
<1>11. \A i \in DOMAIN session' \ Ids : \E j \in (n + 1) .. Len(rows) : i = j + (m - n)
  <2> TAKE i \in DOMAIN session' \ Ids
  <2>1. i \in (m + 1) .. (m + (Len(rows) - n))
    BY <1>6, <1>7, <1>10
  <2>2. i - (m - n) \in (n + 1) .. Len(rows) /\ i = (i - (m - n)) + (m - n)
    BY <1>6, <1>7, <2>1
  <2> QED BY <2>2
<1>12. \A j \in (n + 1) .. Len(rows) : j + (m - n) \in DOMAIN session' /\ j \in DOMAIN rows \ DOMAIN r.read
  BY <1>6, <1>7, <1>10
<1>13. RowsOK(session')
  <2>1. ASSUME NEW i \in DOMAIN session' PROVE RowOK(session'[i])
    <3>1. CASE i \in Ids
      BY <1>6, <1>8, <1>10, <3>1
    <3>2. CASE i \notin Ids
      BY <1>2, <1>10, <1>11, <1>12, <3>2 DEF RowsOK
    <3> QED BY <3>1, <3>2
  <2> QED BY <1>10, <2>1 DEF RowsOK
<1>14. Grows(session, session')
  <2>1. 1 .. m \subseteq DOMAIN session'
    BY <1>6, <1>7, <1>10
  <2> QED BY <1>6, <1>8, <1>10, <2>1 DEF Grows
<1>15. \A i \in DOMAIN r.read : i \in Ids /\ session'[i] = Over(session[i], r.read[i], rows[i])
  BY <1>4, <1>6, <1>7, <1>10
<1>16. \A i \in Ids : session'[i] = session[i] \/ (i \in DOMAIN r.read /\ session'[i] = Over(session[i], r.read[i], rows[i]))
  BY <1>4, <1>6, <1>7, <1>10
<1>17. DOMAIN at = D
  BY <1>3
<1>18. \A d \in D : at[d] = IF r.plan.at[d] > n THEN r.plan.at[d] + (m - n) ELSE r.plan.at[d]
  BY <1>3
<1>19. ASSUME NEW d \in D
       PROVE  /\ at[d] \in DOMAIN session' /\ session'[at[d]].who = r.who /\ session'[at[d]].day = d
              /\ session = r.read => at[d] = r.plan.at[d]
  <2> DEFINE j == r.plan.at[d]
  <2>1. j \in 1 .. Len(rows) /\ rows[j].who = r.who /\ rows[j].day = d
    BY <1>2, <1>6
  <2>2. at[d] = IF j > n THEN j + (m - n) ELSE j
    BY <1>18
  <2> HIDE DEF j
  <2>3. ASSUME j > n
        PROVE  at[d] \in DOMAIN session' /\ session'[at[d]].who = r.who /\ session'[at[d]].day = d
    <3>1. j \in (n + 1) .. Len(rows) /\ at[d] = j + (m - n)
      BY <1>6, <2>1, <2>2, <2>3
    <3> QED BY <1>10, <1>12, <2>1, <3>1
  <2>4. ASSUME ~(j > n)
        PROVE  at[d] \in DOMAIN session' /\ session'[at[d]].who = r.who /\ session'[at[d]].day = d
    <3>1. j \in DOMAIN r.read /\ j \in Ids /\ at[d] = j /\ j \in DOMAIN session
      BY <1>6, <1>7, <2>1, <2>2, <2>4
    <3>2. session[j].who = r.who /\ session[j].day = d
      BY <1>1, <1>2, <2>1, <3>1 DEF Grows, Follows
    <3> QED BY <1>14, <3>1, <3>2 DEF Grows
  <2>5. session = r.read => at[d] = j
    <3>1. session = r.read => m = n
      BY DEF m, n
    <3> QED BY <1>6, <2>1, <2>2, <3>1
  <2> QED BY <2>3, <2>4, <2>5 DEF j
<1>20. ASSUME NEW i \in DOMAIN session' \ Ids
       PROVE  /\ \E d \in D : at[d] = i
              /\ Untrimmed(session'[i])
              /\ session = r.read => i \in DOMAIN rows /\ session'[i] = rows[i]
  <2>1. PICK j \in (n + 1) .. Len(rows) : i = j + (m - n)
    BY <1>11
  <2>2. j \in DOMAIN rows \ DOMAIN r.read /\ session'[i] = rows[j] /\ j > n
    BY <1>6, <1>10, <1>12, <2>1
  <2>3. PICK d \in D : r.plan.at[d] = j
    BY <1>2, <2>2
  <2>4. at[d] = i
    BY <1>18, <2>1, <2>2, <2>3
  <2>5. session = r.read => i = j
    <3>1. session = r.read => m = n
      BY DEF m, n
    <3> QED BY <1>6, <2>1, <3>1
  <2> QED BY <1>2, <2>2, <2>4, <2>5
<1>21. ASSUME NEW i \in DOMAIN r.read, NEW d \in D, r.plan.at[d] = i PROVE at[d] = i
  <2>1. i \in 1 .. n
    BY <1>6
  <2>2. ~(i > n)
    BY <1>6, <2>1
  <2> QED BY <1>18, <1>21, <2>2
<1> QED BY <1>13, <1>14, <1>15, <1>16, <1>17, <1>19, <1>20, <1>21 DEF r, at, rows, D

LEMMA CommitHolds == ASSUME SegmentsInv, TableInv, NEW b \in Batch, Commit(b) PROVE TableInv'
<1> DEFINE r    == batch[b]
           at   == PlaceOf(r)
           rows == r.plan.rows
           D    == DatesOf(r.parts)
           File(p) == [seg |-> p.seg, i |-> p.i, from |-> p.from, to |-> p.to,
                       who |-> r.who, in |-> at[Date(p.from)]]
           new  == Fresh(r.parts)
<1>1. /\ TablesInv /\ PlansInv /\ BatchesInv /\ SentOnceInv /\ r # NoBatch
      /\ batch' = [batch EXCEPT ![b] = NoBatch] /\ batch = [c \in Batch |-> batch[c]]
      /\ UNCHANGED <<date, owner, byes, farewell, closing, lost, again, overtaken>>
  BY DEF TableInv, SegmentsInv, BatchesInv, Commit
<1>2. PlanOK(session, r)
  BY <1>1 DEF PlansInv
<1>3. PICK drift \in Drifts : r.parts = UNION {PartsOf(s, drift) : s \in r.segs}
  BY <1>1 DEF BatchesInv
<1>4. r.segs \subseteq Seg /\ \A p \in r.parts : p.seg \in r.segs /\ p \in PartsOf(p.seg, drift)
  <2>1. r.segs \subseteq Seg
    BY <1>1 DEF BatchesInv
  <2> QED BY <1>3, <2>1, PlacesAre
<1>5. /\ stored' = stored \cup {File(p) : p \in new}
      /\ raced' = IF session = r.read THEN raced ELSE raced \cup {at[d] : d \in DOMAIN at}
  BY CommitDoes
<1>6. /\ RowsOK(session') /\ Grows(session, session')
      /\ \A i \in Ids : \/ session'[i] = session[i]
                        \/ /\ i \in DOMAIN r.read
                           /\ session'[i] = Over(session[i], r.read[i], rows[i])
      /\ DOMAIN at = D
      /\ \A d \in D :
           /\ at[d] \in DOMAIN session' /\ session'[at[d]].who = r.who /\ session'[at[d]].day = d
           /\ session = r.read => at[d] = r.plan.at[d]
      /\ \A i \in DOMAIN session' \ Ids :
           /\ \E d \in D : at[d] = i
           /\ Untrimmed(session'[i])
           /\ session = r.read => i \in DOMAIN rows /\ session'[i] = rows[i]
      /\ \A i \in DOMAIN r.read : i \in Ids /\ ((\A d \in D : at[d] # i) => \A d \in D : r.plan.at[d] # i)
      /\ \A i \in DOMAIN r.read : session'[i] = Over(session[i], r.read[i], rows[i])
  BY <1>1, <1>2, CommitRows
<1>7. \A p : /\ File(p).seg = p.seg /\ File(p).i = p.i /\ File(p).from = p.from /\ File(p).to = p.to
             /\ File(p).who = r.who /\ File(p).in = at[Date(p.from)]
  OBVIOUS
<1>8. /\ new \subseteq r.parts
      /\ \A p \in r.parts \ new : \E q \in stored : q.seg = p.seg
  BY DEF Fresh
<1>9. /\ \A p \in r.parts : PartOK(p) /\ Date(p.from) \in D
      /\ \A d \in D : \E p \in r.parts : Date(p.from) = d
  BY <1>2 DEF PlanOK, DatesOf
<1>10. /\ Grows(r.read, session) /\ RowsOK(r.read) /\ RowsOK(rows)
       /\ DOMAIN r.read \subseteq DOMAIN rows
       /\ \A i \in DOMAIN r.read :
            /\ Follows(r.read[i], rows[i])
            /\ (\A d \in D : r.plan.at[d] # i) => OnlyEnded(r.read[i], rows[i])
       /\ \A p \in r.parts : Within(p, rows[r.plan.at[Date(p.from)]])
  BY <1>2, <1>9 DEF PlanOK, ViewOK
<1> HIDE DEF r, at, rows, D, File, new
<1>11. Ids = DOMAIN session /\ Ids' = DOMAIN session' /\ Ids \subseteq Ids'
  BY <1>6 DEF Ids, Grows
<1>12. TablesInv'
  <2>1. \A p \in stored : p.seg \in Seg /\ Listed(session', p)
    BY <1>1, <1>6, FiledStays DEF TablesInv
  <2>2. ASSUME NEW p \in new PROVE File(p).seg \in Seg /\ Listed(session', File(p))
    BY <1>4, <1>6, <1>7, <1>8, <1>9 DEF Listed, PartOK
  <2>3. \A p \in stored' : p.seg \in Seg /\ Listed(session', p)
    BY <1>5, <2>1, <2>2
  <2>4. raced' \subseteq Ids'
    BY <1>1, <1>5, <1>6, <1>11 DEF TablesInv
  <2> QED BY <1>1, <1>6, <1>11, <2>3, <2>4 DEF TablesInv
<1>13. PlansInv'
  <2>1. \A c \in Batch : batch'[c] # NoBatch => batch[c] # NoBatch /\ batch'[c] = batch[c]
    BY <1>1
  <2> QED BY <1>1, <1>6, <2>1, PlanStays DEF PlansInv
<1>14. AllHeld
  BY <1>1, HoldIs DEF TableInv
<1>15. \A i \in Ids : RowOK(session[i]) /\ RowOK(session'[i])
  BY <1>1, <1>6, <1>11 DEF TablesInv, RowsOK
\* A row of a raced table that none of the dates chose, and a row of a table it read.
<1>16. ASSUME session # r.read, NEW i \in Ids, \A d \in D : at[d] # i
       PROVE  session'[i].from = session[i].from /\ session'[i].to \in {session[i].to, Midnight(session[i].from)}
  <2>1. CASE session'[i] = session[i]
    BY <2>1
  <2>2. CASE i \in DOMAIN r.read /\ session'[i] = Over(session[i], r.read[i], rows[i])
    <3>1. Follows(r.read[i], rows[i]) /\ OnlyEnded(r.read[i], rows[i])
      BY <1>6, <1>10, <1>16, <2>2
    <3>2. /\ RowOK(session[i]) /\ RowOK(r.read[i]) /\ RowOK(rows[i])
          /\ session[i].who = r.read[i].who /\ session[i].day = r.read[i].day
      BY <1>10, <1>15, <2>2 DEF RowsOK, Grows
    <3> QED BY <2>2, <3>1, <3>2, OverIs
  <2> QED BY <1>6, <2>1, <2>2
<1>17. ASSUME session = r.read, NEW i \in Ids
       PROVE  /\ Follows(session[i], session'[i])
              /\ session'[i].from = rows[i].from /\ session'[i].to = rows[i].to
  <2>1. i \in DOMAIN r.read /\ session[i] = r.read[i] /\ session'[i] = Over(session[i], r.read[i], rows[i])
    BY <1>6, <1>11, <1>17
  <2>2. Follows(r.read[i], rows[i]) /\ RowOK(session[i]) /\ RowOK(rows[i])
    BY <1>10, <1>15, <2>1 DEF RowsOK
  <2>3. /\ session'[i].from = rows[i].from /\ session'[i].to = rows[i].to
        /\ session'[i].who = session[i].who /\ session'[i].day = session[i].day
    BY <2>1, <2>2, OverIs
  <2> QED BY <2>1, <2>2, <2>3 DEF Follows
<1>18. \A p \in stored : Holding(p, session'[p.in], p.in \in raced' \cup overtaken')
  <2> TAKE p \in stored
  <2> DEFINE i == p.in
  <2>1. i \in Ids /\ PartOK(p) /\ Date(p.from) = session[i].day /\ Holding(p, session[i], i \in raced \cup overtaken)
    BY <1>1, <1>14 DEF TablesInv, Listed, AllHeld, Ids
  <2> HIDE DEF i
  <2>2. CASE i \in raced' \cup overtaken'
    BY <2>2 DEF Holding, i
  <2>3. CASE i \notin raced' \cup overtaken'
    <3>1. Within(p, session[i])
      BY <1>1, <1>5, <2>1, <2>3 DEF Holding
    <3>2. CASE session = r.read
      <4>1. Within(p, session'[i])
        BY <1>15, <1>17, <2>1, <3>1, <3>2, StaysWithin
      <4> QED BY <4>1 DEF Holding, i
    <3>3. CASE session # r.read
      <4>1. session'[i].from = session[i].from /\ session'[i].to \in {session[i].to, Midnight(session[i].from)}
        BY <1>5, <1>6, <1>16, <2>1, <2>3, <3>3
      <4>2. p.to <= Midnight(session[i].from)
        <5>1. session[i].from \in Nat /\ session[i].day = Date(session[i].from)
          BY <1>15, <2>1 DEF RowOK, SessionRow
        <5> QED BY <2>1, <5>1, SameMidnight DEF PartOK
      <4>3. Within(p, session'[i])
        BY <3>1, <4>1, <4>2 DEF Within
      <4> QED BY <4>3 DEF Holding, i
    <3> QED BY <3>2, <3>3
  <2> QED BY <2>2, <2>3
<1>19. ASSUME NEW p \in new
       PROVE  Holding(File(p), session'[File(p).in], File(p).in \in raced' \cup overtaken')
  <2> DEFINE i == at[Date(p.from)]
  <2>1. p \in r.parts /\ Date(p.from) \in D /\ File(p).in = i /\ File(p).from = p.from /\ File(p).to = p.to
    BY <1>7, <1>8, <1>9
  <2> HIDE DEF i
  <2>2. CASE session # r.read
    BY <1>5, <1>6, <2>1, <2>2 DEF Holding, i
  <2>3. CASE session = r.read
    <3>1. i = r.plan.at[Date(p.from)] /\ Within(p, rows[i]) /\ i \in Ids'
      BY <1>6, <1>10, <1>11, <2>1, <2>3 DEF i
    <3>2. session'[i].from = rows[i].from /\ session'[i].to = rows[i].to
      <4>1. CASE i \in Ids
        BY <1>17, <2>3, <4>1
      <4>2. CASE i \notin Ids
        BY <1>6, <1>11, <2>3, <3>1, <4>2
      <4> QED BY <4>1, <4>2
    <3>3. Within(File(p), session'[i])
      BY <2>1, <3>1, <3>2 DEF Within
    <3> QED BY <2>1, <3>3 DEF Holding
  <2> QED BY <2>2, <2>3
<1>20. ASSUME NEW i \in Ids' PROVE Forward(session'[i], i \in raced')
  <2>1. RowOK(session'[i]) /\ session'[i].from \in Nat /\ session'[i].from < Midnight(session'[i].from)
        /\ Midnight(session'[i].from) \in Nat
    BY <1>6, <1>11, DateIs DEF RowsOK, RowOK, SessionRow
  <2>2. CASE i \notin Ids
    BY <1>6, <1>11, <2>1, <2>2 DEF Untrimmed, Forward
  <2>3. CASE i \in Ids /\ session # r.read /\ \A d \in D : at[d] # i
    <3>1. session'[i].from = session[i].from /\ session'[i].to \in {session[i].to, Midnight(session[i].from)}
      BY <1>16, <2>3
    <3>2. Forward(session[i], i \in raced)
      BY <1>14, <2>3 DEF AllHeld
    <3> QED BY <1>5, <2>1, <3>1, <3>2 DEF Forward
  <2>4. CASE session # r.read /\ ~\A d \in D : at[d] # i
    BY <1>5, <1>6, <2>4 DEF Forward
  <2>5. CASE i \in Ids /\ session = r.read
    <3>1. Follows(session[i], session'[i]) /\ Forward(session[i], i \in raced) /\ raced' = raced
      BY <1>5, <1>14, <1>17, <2>5 DEF AllHeld
    <3>2. RowOK(session[i]) /\ session[i].from \in Nat /\ session[i].to \in {Open} \cup Nat
          /\ session'[i].to \in {Open} \cup Nat
      BY <1>15, <2>5 DEF RowOK, SessionRow
    <3>3. Midnight(session[i].from) = Midnight(session'[i].from)
      <4>1. Date(session[i].from) = Date(session'[i].from)
        BY <2>1, <3>1, <3>2 DEF RowOK, Follows
      <4> QED BY <2>1, <3>2, <4>1, SameMidnight
    <3> QED BY <2>1, <3>1, <3>2, <3>3 DEF Follows, Forward
  <2> QED BY <2>2, <2>3, <2>4, <2>5
<1>21. ASSUME NEW i \in Ids' PROVE Because(i, session[i].day)'
  <2>1. CASE i \in Ids
    <3>1. Because(i, session[i].day) /\ session'[i].day = session[i].day
      BY <1>6, <1>11, <1>14, <2>1 DEF AllHeld, Grows
    <3> QED BY <1>1, <1>5, <3>1 DEF Because
  <2>2. CASE i \notin Ids
    <3>1. PICK d \in D : at[d] = i
      BY <1>6, <1>11, <2>2
    <3>2. session'[i].day = d
      BY <1>6, <3>1
    <3>3. PICK p \in r.parts : Date(p.from) = d
      BY <1>9
    <3>4. CASE p \in new
      <4>1. File(p) \in stored' /\ File(p).in = i
        BY <1>5, <1>7, <3>1, <3>3, <3>4
      <4> QED BY <4>1 DEF Because
    <3>5. CASE p \notin new
      <4>1. PICK q \in stored : q.seg = p.seg
        BY <1>8, <3>5
      <4>2. p.seg \in again /\ p \in PartsOf(p.seg, drift)
        BY <1>1, <1>4, <4>1 DEF SentOnceInv, NotStored, r
      <4> QED BY <1>1, <3>2, <3>3, <4>2 DEF Because
    <3> QED BY <3>4, <3>5
  <2> QED BY <2>1, <2>2
<1>22. AllHeld'
  <2>1. \A p \in stored' : Holding(p, session'[p.in], p.in \in raced' \cup overtaken')
    BY <1>5, <1>18, <1>19
  <2> QED BY <1>20, <1>21, <2>1 DEF AllHeld
<1>23. SessionsHold'
  <2>1. TablesInv' => (SessionsHold' <=> AllHeld')
    BY HoldIs, PTL
  <2> QED BY <1>12, <1>22, <2>1
<1> QED BY <1>12, <1>13, <1>23 DEF TableInv

LEMMA TableStep == SegmentsInv /\ TableInv /\ [SessionsNext]_sessionVars => TableInv'
<1> SUFFICES ASSUME SegmentsInv, TableInv, [SessionsNext]_sessionVars PROVE TableInv'
  OBVIOUS
<1>1. {farewell, closing} \subseteq SUBSET Ids
  BY DEF TableInv, TablesInv
<1>2. ASSUME NEW b \in Batch, Ingest(b) \/ Commit(b) \/ AnswerLost(b) \/ Abort(b) PROVE TableInv'
  BY <1>2, IngestHolds, CommitHolds, LostHolds
<1>3. ASSUME NEW t \in ByeAt, Farewell(t) PROVE TableInv'
  BY <1>3, FarewellHolds
<1>4. CASE FarewellToOld
  BY <1>1, <1>4, OwnMidnight DEF FarewellToOld
<1>5. CASE CloseWrites
  BY <1>1, <1>5, OwnMidnight DEF CloseWrites
<1>6. CASE CloseReads \/ NextDate \/ HandOver \/ UNCHANGED sessionVars
  BY <1>6, QuietHolds
<1> QED BY <1>2, <1>3, <1>4, <1>5, <1>6 DEF SessionsNext

LEMMA StoreStarts == SessionsInit => SegmentsInv /\ TableInv
<1> SUFFICES ASSUME SessionsInit PROVE SegmentsInv /\ TableInv
  OBVIOUS
<1>1. SegmentsInv
  BY SegmentsStart
<1>2. session = <<>> /\ RowsOK(<<>>) /\ Ids = {}
  BY DEF SessionsInit, RowsOK, Ids
<1>3. TablesInv
  BY <1>2, SessionsAssumption DEF SessionsInit, TablesInv
<1>4. PlansInv
  BY DEF SessionsInit, PlansInv
<1>5. AllHeld
  BY <1>2 DEF SessionsInit, AllHeld
<1> QED BY <1>1, <1>3, <1>4, <1>5, HoldIs DEF TableInv

\* What the server keeps of a PC's segments: a session of one date and person holds each of
\* its segments, ends on its date and not before it began, and is there for a segment; but
\* for what two requests under way at once, a late farewell or a segment sent again may do
\* (IngestService.ingestSegments, resolveSession, widen, applySessionEffects).  And each
\* segment is stored once and whole.
THEOREM SessionsAreSound == SessionsSpec => []SessionsSound
<1>1. SegmentsInv /\ TableInv => SessionsHold
  BY DEF TableInv
<1>2. SessionsSpec => []SessionsHold
  BY <1>1, StoreStarts, TableStep, SegmentsStep, PTL DEF SessionsSpec
<1> QED BY <1>2, OnceAndWhole, PTL DEF SessionsSound

\* The tables of WorkSessions keep their types.
THEOREM SessionsTyped == SessionsSpec => []SessionsTypeOK
<1>1. SegmentsInv /\ TableInv => SessionsTypeOK
  <2> SUFFICES ASSUME SegmentsInv, TableInv PROVE SessionsTypeOK
    OBVIOUS
  <2>1. TablesInv /\ unsent \subseteq Seg
    BY DEF TableInv, SegmentsInv, BatchesInv
  <2>2. \A i \in Ids : RowOK(session[i])
    BY <2>1 DEF TablesInv, RowsOK, Ids
  <2>3. \A i \in Ids : session[i].who \in Person /\ session[i].to \in {Open} \cup Int
    BY <2>2 DEF RowOK, SessionRow
  <2>4. \A p \in stored : p.seg \in Seg /\ p.who \in Person /\ p.in \in Ids
    BY <2>1, <2>3 DEF TablesInv, Listed, Ids
  <2> QED BY <2>1, <2>3, <2>4 DEF SessionsTypeOK, TablesInv
<1> QED BY <1>1, StoreStarts, TableStep, SegmentsStep, PTL DEF SessionsSpec
=============================================================================
