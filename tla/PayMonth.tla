------------------------------ MODULE PayMonth ------------------------------
(***************************************************************************)
(* How one person's month becomes a line of the payroll sheet: what the    *)
(* agent and the office put on record, the daily rows and the monthly row  *)
(* SummaryService counts from it, and computePayroll.  SummaryRollup takes *)
(* a recount apart; here it is one step, and what counts is who has one    *)
(* made: K06 and K05 for the people at work, an adjustment for its own     *)
(* person, and an entry of leave, a holiday or a date for nobody.          *)
(*                                                                         *)
(* The days are numbered from the first of the month; 0 is any day before. *)
(***************************************************************************)
EXTENDS Integers, FiniteSets, FiniteSetsExt

CONSTANTS
  MonthEnd,      \* the last day of the month
  LastDate,      \* bound: the calendar ends here, some days into the next month
  WeeklyOff,     \* the days of the month that are the weekly off day
  MonthlyTarget, PolicyWorkdays,   \* the policy: hours, and the days they are for
  Salary,        \* the monthly salary, in paisa
  Stint,         \* the hours one upload brings
  TakenOff,      \* the hours an adjustment may take off a day
  Doings,        \* which of these happen: "hours", "entry", "leaving", "fix", "closing", "failure"
  MaxDoings      \* bound: how often in all

ASSUME MonthAssumption  == MonthEnd \in Nat \ {0} /\ LastDate \in Nat /\ MonthEnd < LastDate
ASSUME PolicyAssumption == /\ MonthlyTarget \in Nat \ {0} /\ PolicyWorkdays \in Nat \ {0}
                           /\ Salary \in Nat /\ Stint \in Nat /\ TakenOff \subseteq Nat
ASSUME DoingsAssumption == WeeklyOff \subseteq 1 .. MonthEnd /\ MaxDoings \in Nat

VARIABLES
  date,
  service,    \* the employee's status, joined_on and left_on
  holidays, onLeave,
  hours, fixes,   \* per day: hours uploaded, and adjustments in force
  tracked,    \* the day of the first work session, or Never
  dayRow,     \* daily_summary
  payRow,     \* monthly_summary
  marked,     \* summary_dirty
  shut,       \* the month is closed
  closeOwed,  \* it is after midnight and K05 has not run yet
  missed,     \* history: the days a recount failed, never ran or left the person out
  overlooked, \* history: what was entered after the month's last recount
  doings

factVars == <<service, holidays, onLeave, hours, fixes, tracked>>
countVars == <<dayRow, payRow, missed, overlooked>>
payVars == <<date, factVars, countVars, marked, shut, closeOwed, doings>>

DayOfMonth == 1 .. MonthEnd
Never      == LastDate + 1
NoRow      == [there |-> FALSE]

AtLeast0(n)    == IF n < 0 THEN 0 ELSE n
AtMost(n, m)   == IF n < m THEN n ELSE m
RoundDiv(a, b) == (2 * a + b) \div (2 * b)      \* Math.round(a / b)

Doing(kind) == kind \in Doings /\ doings < MaxDoings /\ doings' = doings + 1

(***************************************************************************)
(* The monthly row: prorate, elapsedWorkdays, observedWorkdays, rollupMonth.*)
(***************************************************************************)
IsWorkday(d)     == d \notin WeeklyOff \cup holidays
CountWorkdays(S) == Cardinality({d \in S : IsWorkday(d)})
CountLeave(S)    == CountWorkdays(S \cap onLeave)

Employed == {d \in DayOfMonth : service.joined <= d /\ d <= service.left}

\* elapsedWindow: up to yesterday, and not before the first session. Who has
\* none is taken to be tracked from today on.
ElapsedWindow == {d \in Employed : tracked <= d /\ d < date}

\* Mutant: leave is not taken out of the days that were seen.
SeenThough(rows)  == {d \in ElapsedWindow : rows[d].there /\ IsWorkday(d)}

ObservedDays(rows) == {d \in ElapsedWindow : rows[d].there /\ IsWorkday(d) /\ d \notin onLeave}

Credited(rows) ==
  AtLeast0(MapThenSumSet(LAMBDA d : rows[d].hours + rows[d].fixes,
                         {d \in DayOfMonth : rows[d].there}))

\* Mutant: leave comes off the days of the salary too.
UnpaidLeave(rows) ==
  LET own == CountWorkdays(Employed) - CountLeave(Employed)
  IN  [there |-> TRUE, workdays |-> own, monthWorkdays |-> CountWorkdays(DayOfMonth),
       leave |-> 0, target |-> RoundDiv(own * MonthlyTarget, PolicyWorkdays),
       observed |-> Cardinality(ObservedDays(rows)), credited |-> Credited(rows)]

MonthRow(rows) ==
  LET own   == CountWorkdays(Employed)
      leave == CountLeave(Employed)
  IN  [there |-> TRUE, workdays |-> own, monthWorkdays |-> CountWorkdays(DayOfMonth),
       leave |-> leave,
       target |-> RoundDiv(AtLeast0(own - leave) * MonthlyTarget, PolicyWorkdays),
       observed |-> Cardinality(ObservedDays(rows)), credited |-> Credited(rows)]

(***************************************************************************)
(* The sheet's line: proratedExpectedSec of the observed days and          *)
(* computePayroll.                                                         *)
(***************************************************************************)
Billable(row) == AtLeast0(row.workdays - row.leave)

ObservedTarget(row) ==
  IF row.target <= 0 \/ Billable(row) <= 0 THEN 0
  ELSE RoundDiv(row.target * AtMost(row.observed, Billable(row)), Billable(row))

SalaryShare(row) ==
  IF row.monthWorkdays <= 0 THEN Salary
  ELSE RoundDiv(Salary * AtMost(row.workdays, row.monthWorkdays), row.monthWorkdays)

\* computePayroll throws, and the whole sheet with it.
Throws(row) == row.target <= 0 /\ row.workdays > 0

Deduction(row) ==
  LET deficit == AtLeast0(AtMost(ObservedTarget(row), row.target) - row.credited)
  IN  IF row.target <= 0 \/ deficit = 0 THEN 0
      ELSE RoundDiv(SalaryShare(row) * deficit, row.target)

Payable(row) == AtLeast0(SalaryShare(row) - Deduction(row))

(***************************************************************************)
(* A recount of the days S, K05's, K06's or an adjustment's: the daily     *)
(* rows, then the month's unless it is closed.  The facts are as the step  *)
(* leaves them; counts is whether the person is among those recounted.     *)
(***************************************************************************)
CountedDay(d) == [there |-> TRUE, hours |-> hours[d], fixes |-> fixes[d]]

Recount(S, counts) ==
  IF S \cap DayOfMonth = {} THEN UNCHANGED countVars
  ELSE IF ~counts
  THEN missed' = missed \cup (S \cap DayOfMonth) /\ UNCHANGED <<dayRow, payRow, overlooked>>
  ELSE
    /\ dayRow' = [d \in DayOfMonth |-> IF d \in S THEN CountedDay(d)' ELSE dayRow[d]]
    /\ missed' = missed \ S
    /\ IF shut THEN UNCHANGED payRow /\ overlooked' = overlooked \cup {"closed"}
       ELSE payRow' = MonthRow(dayRow)' /\ overlooked' = {}

\* Nothing is recounted when the office enters something.
Enter(what) == overlooked' = overlooked \cup {what} /\ UNCHANGED <<dayRow, payRow, missed>>

(***************************************************************************)
(* The agent's uploads and the jobs.                                       *)
(***************************************************************************)
\* Late hours mark their day; who has left has no device to upload from.
UploadHours(d) ==
  /\ Doing("hours") /\ service.active /\ d <= date
  /\ hours' = [hours EXCEPT ![d] = @ + Stint]
  /\ tracked' = AtMost(tracked, d)
  /\ marked' = IF d < date THEN marked \cup {d} ELSE marked
  /\ UNCHANGED <<date, service, holidays, onLeave, fixes, countVars, shut, closeOwed>>

\* A colleague's late upload.
OthersUpload(d) ==
  /\ Doing("hours") /\ d < date
  /\ marked' = marked \cup {d}
  /\ UNCHANGED <<date, factVars, countVars, shut, closeOwed>>

\* Mutant: the marks are taken and only today is recounted.
TodayOnly == {date}

\* The days K06 recounts: today and the marked ones, but not those of a closed
\* month, whose marks go all the same.
TickDays == {date} \cup (IF shut THEN {} ELSE marked)

K06Tick ==
  /\ UNCHANGED <<date, factVars, shut, closeOwed, doings>>
  /\ marked' = {}
  /\ IF shut /\ marked # {}
     THEN missed' = missed \cup marked /\ UNCHANGED <<dayRow, payRow, overlooked>>
     ELSE Recount(TickDays, service.active)

DateTurns ==
  /\ date < LastDate /\ ~closeOwed
  /\ date' = date + 1 /\ closeOwed' = TRUE
  /\ UNCHANGED <<factVars, countVars, marked, shut, doings>>

K05DayClose ==
  /\ closeOwed
  /\ UNCHANGED <<date, factVars, marked, shut, doings>>
  /\ closeOwed' = FALSE
  /\ Recount({date - 1}, service.active)

\* The server is down at 00:15.
MissK05 ==
  /\ closeOwed /\ Doing("failure")
  /\ closeOwed' = FALSE
  /\ missed' = missed \cup ({date - 1} \cap DayOfMonth)
  /\ UNCHANGED <<date, factVars, dayRow, payRow, overlooked, marked, shut>>

(***************************************************************************)
(* The office.                                                             *)
(***************************************************************************)
\* An adjustment recounts its day for its person, at work or not; when that
\* fails, it is only logged.
AdjustDay(d, by) ==
  /\ Doing("fix") /\ ~shut /\ d <= date
  /\ UNCHANGED <<date, service, holidays, onLeave, hours, tracked, marked, shut, closeOwed>>
  /\ fixes' = [fixes EXCEPT ![d] = @ + by]
  /\ \/ Recount({d}, TRUE)
     \/ "failure" \in Doings /\ missed' = missed \cup {d} /\ UNCHANGED <<dayRow, payRow, overlooked>>

Toggle(S, d) == IF d \in S THEN S \ {d} ELSE S \cup {d}

\* Leave is for an open month; holidays are not asked.
EnterLeave(d) ==
  /\ Doing("entry") /\ ~shut
  /\ onLeave' = Toggle(onLeave, d)
  /\ Enter("leave")
  /\ UNCHANGED <<date, service, holidays, hours, fixes, tracked, marked, shut, closeOwed>>

EnterHoliday(d) ==
  /\ Doing("entry")
  /\ holidays' = Toggle(holidays, d)
  /\ Enter("holiday")
  /\ UNCHANGED <<date, service, onLeave, hours, fixes, tracked, marked, shut, closeOwed>>

ChangeJoined(d) ==
  /\ Doing("entry") /\ service.joined # d
  /\ service' = [service EXCEPT !.joined = d]
  /\ Enter("joined")
  /\ UNCHANGED <<date, holidays, onLeave, hours, fixes, tracked, marked, shut, closeOwed>>

Deactivate(d) ==
  /\ Doing("leaving") /\ service.active
  /\ service' = [service EXCEPT !.active = FALSE, !.left = d]
  /\ Enter("left")
  /\ UNCHANGED <<date, holidays, onLeave, hours, fixes, tracked, marked, shut, closeOwed>>

Reactivate ==
  /\ Doing("leaving") /\ ~service.active
  /\ service' = [service EXCEPT !.active = TRUE, !.left = Never]
  /\ Enter("left")
  /\ UNCHANGED <<date, holidays, onLeave, hours, fixes, tracked, marked, shut, closeOwed>>

\* Only a past month is closed; there is no recount before it.
CloseThisMonth ==
  /\ Doing("closing") /\ MonthEnd < date /\ ~shut
  /\ shut' = TRUE
  /\ UNCHANGED <<date, factVars, countVars, marked, closeOwed>>

ReopenThisMonth ==
  /\ shut /\ shut' = FALSE
  /\ UNCHANGED <<date, factVars, countVars, marked, closeOwed, doings>>

(***************************************************************************)
(* Specification.                                                          *)
(***************************************************************************)
\* Someone who has long been here, or who is new.
PayInit ==
  /\ date = 1
  /\ service = [active |-> TRUE, joined |-> 0, left |-> Never]
  /\ holidays = {} /\ onLeave = {}
  /\ hours = [d \in DayOfMonth |-> 0] /\ fixes = [d \in DayOfMonth |-> 0]
  /\ tracked \in {0, Never}
  /\ dayRow = [d \in DayOfMonth |-> NoRow] /\ payRow = NoRow
  /\ marked = {} /\ shut = FALSE /\ closeOwed = FALSE
  /\ missed = {} /\ overlooked = {} /\ doings = 0

Office ==
  \/ \E d \in DayOfMonth :
       EnterLeave(d) \/ EnterHoliday(d) \/ ChangeJoined(d) \/ Deactivate(d)
  \/ \E d \in DayOfMonth, n \in TakenOff : AdjustDay(d, -n)
  \/ Reactivate \/ CloseThisMonth \/ ReopenThisMonth

PayNext ==
  \/ \E d \in DayOfMonth : UploadHours(d) \/ OthersUpload(d)
  \/ K06Tick \/ DateTurns \/ K05DayClose \/ MissK05
  \/ Office

PaySpec == PayInit /\ [][PayNext]_payVars

(***************************************************************************)
(* Properties.                                                             *)
(***************************************************************************)
PayTypeOK ==
  /\ date \in 1 .. LastDate /\ marked \subseteq DayOfMonth /\ missed \subseteq DayOfMonth
  /\ service \in [active : BOOLEAN, joined : 0 .. MonthEnd, left : DayOfMonth \cup {Never}]
  /\ holidays \subseteq DayOfMonth /\ onLeave \subseteq DayOfMonth
  /\ tracked \in 0 .. MonthEnd \cup {Never}
  /\ \A d \in DayOfMonth : hours[d] > 0 => d <= date /\ tracked <= d
  /\ payRow.there => \E d \in DayOfMonth : dayRow[d].there

(***************************************************************************)
(* What a line must come to, day by day: the salary of the workdays one    *)
(* was employed, less the share of it that the hours missing on the        *)
(* workdays the system saw are of all the hours owed; leave, holidays and  *)
(* days nobody saw are charged to nobody, and leave takes no salary away.  *)
(* (The daily target is a whole number of hours, as 208 in 26 days is.)    *)
(***************************************************************************)
DailyTarget == MonthlyTarget \div PolicyWorkdays
Owes(d)   == IsWorkday(d) /\ service.joined <= d /\ d <= service.left /\ d \notin onLeave
Seen(d)   == d < date /\ tracked <= d /\ dayRow[d].there
Charged   == {d \in DayOfMonth : Owes(d) /\ Seen(d)}
Owed(S)   == Cardinality(S) * DailyTarget
Share     == LET D == Cardinality(DayOfMonth \ (WeeklyOff \cup holidays))
                 d == Cardinality(Employed \ (WeeklyOff \cup holidays))
             IN  IF D = 0 THEN Salary ELSE RoundDiv(Salary * d, D)
LedgerPay ==
  LET missing == Owed(Charged) - Credited(dayRow)
  IN  IF missing <= 0 THEN Share
      ELSE Share - RoundDiv(Share * missing, Owed({d \in DayOfMonth : Owes(d)}))

\* prorate, observedWorkdays, rollupMonth and computePayroll together, over whatever
\* has been entered and counted (proration.ts:14-28, summary.math.ts:536-564).
SheetIsLedger ==
  LET row == MonthRow(dayRow) IN ~Throws(row) => Payable(row) = LedgerPay

\* One absence on every workday of the month takes the whole sheet down: the target
\* is 0 and the workdays are not (payroll.math.ts:145-148).
SheetComesOut == payRow.there => ~Throws(payRow)

\* What the row of a past month would be if everything were counted now.
CountedNow == MonthRow([d \in DayOfMonth |-> IF dayRow[d].there THEN CountedDay(d) ELSE NoRow])
WillBe     == marked # {} \/ (closeOwed /\ date = MonthEnd + 1)

(***************************************************************************)
(* These are all the ways in which the row payroll is paid by differs from *)
(* what is on record once the month is over: an entry of the office after  *)
(* the last recount, a day close that never ran, an adjustment whose       *)
(* recount failed, a mark dropped or a recount stopped by the closing.     *)
(* Hours that come late are not among them.                                *)
(***************************************************************************)
RowFollowsFacts ==
  MonthEnd < date /\ ~shut =>
    \/ payRow = CountedNow \/ WillBe
    \/ missed # {} \/ overlooked # {}
=============================================================================
