----------------------------- MODULE ClosedBooks -----------------------------
(***************************************************************************)
(* The books behind a month's payroll, for one employee: the security      *)
(* deposit ledger and its settlement, the leave days, the salary and its   *)
(* history, and the closing of months (rule R1: once a month is closed and *)
(* the paper is out, its figures stand).                                   *)
(*                                                                         *)
(* Every service looks at month_closures in one statement and writes in a  *)
(* later one, with no transaction around them.  A write whose look has     *)
(* been overtaken, or whose request died halfway, is remembered in slips.  *)
(* The services work employee by employee, so one employee shows it all.   *)
(***************************************************************************)
EXTENDS Integers, FiniteSets, FiniteSetsExt

CONSTANTS Month,       \* 1..n, the months
          Amount,      \* instalments and salaries, in some unit; 0 is none
          Clerk,       \* requests that can be in flight together
          MaxChanges   \* bound: requests ever made

ASSUME BooksAssumption == /\ IsFiniteSet(Month) /\ Month = 1..Cardinality(Month) /\ 1 \in Month
                          /\ Amount \subseteq Nat \ {0} /\ Amount # {}
                          /\ MaxChanges \in Nat

VARIABLES month,    \* the current month in Dhaka
          closed,   \* month_closures
          rule,     \* deposit_policy: amount, start, active
          from,     \* employees.deposit_start_year_month, 0 for null
          inst,     \* security_deposits: the instalment of each month, 0 for no row
          settled,  \* deposit_settlements: -1 for no row, else the amount paid out
          leave,    \* the months with leave entered
          salary,   \* employees.monthly_salary, 0 for null
          slice,    \* salary_periods: the salary through a month, 0 for no row
          req,      \* per clerk: the request in flight
          changes,  \* requests made so far
          paper,    \* history: what the payroll said of a month when it was closed
          slips     \* history: what an overtaken or broken-off request has spoiled

ledgerVars == <<rule, from, inst, settled>>
staffVars  == <<leave, salary, slice>>
booksVars  == <<month, closed, ledgerVars, staffVars, req, changes, paper, slips>>

Unsettled == -1
At(act)   == [act |-> act]
Free      == At("free")

(***************************************************************************)
(* What the code computes.                                                 *)
(***************************************************************************)
\* effectiveDepositStart; the employee joined before the rule began.
StartMonth == IF from # 0 THEN from ELSE rule.start

\* Mutant: the months to come are filled, too.
DueAhead == IF rule.active /\ rule.start <= month /\ settled = Unsettled
            THEN {m \in Month : StartMonth <= m} ELSE {}

\* ensureLedger: the months it would fill.
Due == IF rule.active /\ rule.start <= month /\ settled = Unsettled
       THEN {m \in Month : StartMonth <= m /\ m <= month} ELSE {}

SumOf(instalments) == MapThenSumSet(LAMBDA m : instalments[m], Month)
Total == SumOf(inst)

\* salaryForMonth: the first slice that reaches the month, else today's salary.
SalaryFor(m) ==
  LET reach == {n \in Month : n >= m /\ slice[n] # 0}
  IN  IF reach = {} THEN salary ELSE slice[Min(reach)]

\* supersededThrough.
SupersededThrough == IF month \in closed THEN month ELSE month - 1

\* What payroll.sheet reads of the employee for a month.
Sheet(m) == [deposit |-> inst[m], leave |-> m \in leave, salary |-> SalaryFor(m)]
NoPaper  == [deposit |-> 0, leave |-> FALSE, salary |-> 0]

(***************************************************************************)
(* Requests.                                                               *)
(***************************************************************************)
Request(c, k) == /\ req[c] = Free /\ changes < MaxChanges /\ changes' = changes + 1
                 /\ req' = [req EXCEPT ![c] = k]
Go(c, k)      == req' = [req EXCEPT ![c] = k] /\ UNCHANGED changes
One           == changes < MaxChanges /\ changes' = changes + 1 /\ UNCHANGED req
Slip(what, if) == slips' = IF if THEN slips \cup {what} ELSE slips

\* ensureLedger in three statements: the due months, the closures, the insert.
\* then is what the caller does afterwards: nothing, or settle.
Fill(then) == [act |-> "due", months |-> Due, amount |-> rule.amount, then |-> then]

Load(c) == /\ Request(c, Fill("done"))
           /\ UNCHANGED <<month, closed, ledgerVars, staffVars, paper, slips>>

\* Mutant: the closures are not asked for.
AllMonths(months) == months

OpenMonths(months) == months \ closed

ReadClosures(c) ==
  /\ req[c].act = "due"
  /\ Go(c, [act |-> "insert", months |-> OpenMonths(req[c].months), amount |-> req[c].amount,
            saw |-> closed, then |-> req[c].then])
  /\ UNCHANGED <<month, closed, ledgerVars, staffVars, paper, slips>>

\* createMany skips the months that have a row.
Insert(c) ==
  /\ req[c].act = "insert"
  /\ LET k   == req[c]
         new == {m \in k.months : inst[m] = 0}
     IN  /\ inst' = [m \in Month |-> IF m \in new THEN k.amount ELSE inst[m]]
         /\ slips' = slips \cup (IF new \cap (closed \ k.saw) # {} THEN {"deposit"} ELSE {})
                           \cup (IF new # {} /\ settled # Unsettled THEN {"settled"} ELSE {})
         /\ Go(c, IF k.then = "settle" THEN At("sum") ELSE Free)
  /\ UNCHANGED <<month, closed, rule, from, settled, staffVars, paper>>

\* setStartMonth: the new start, the closures, the rows before it, the ledger.
NewStart(c, m) ==
  /\ m <= month /\ settled = Unsettled /\ from # m
  /\ Request(c, [act |-> "start", m |-> m])
  /\ UNCHANGED <<month, closed, ledgerVars, staffVars, paper, slips>>

SaveStart(c) ==
  /\ req[c].act = "start"
  /\ from' = req[c].m
  /\ Go(c, IF from' = 0 THEN At("refill") ELSE [act |-> "look", m |-> from'])
  /\ UNCHANGED <<month, closed, rule, inst, settled, staffVars, paper, slips>>

LookClosed(c) ==
  /\ req[c].act = "look"
  /\ Go(c, [act |-> "delete", m |-> req[c].m, saw |-> closed])
  /\ UNCHANGED <<month, closed, ledgerVars, staffVars, paper, slips>>

DeleteBefore(c) ==
  /\ req[c].act = "delete"
  /\ LET k    == req[c]
         gone == {m \in Month : m < k.m /\ m \notin k.saw /\ inst[m] # 0}
     IN  /\ inst' = [m \in Month |-> IF m \in gone THEN 0 ELSE inst[m]]
         /\ slips' = slips \cup (IF gone \cap closed # {} THEN {"deposit"} ELSE {})
                           \cup (IF gone # {} /\ settled # Unsettled THEN {"settled"} ELSE {})
  /\ Go(c, At("refill"))
  /\ UNCHANGED <<month, closed, rule, from, settled, staffVars, paper>>

Refill(c) == /\ req[c].act = "refill" /\ Go(c, Fill("done"))
             /\ UNCHANGED <<month, closed, ledgerVars, staffVars, paper, slips>>

\* Mutant: a settled ledger may be corrected.
CorrectableLater(m) == m \notin closed /\ inst[m] # 0

\* correctInstalment: an existing row of an open month, before the settlement.
Correctable(m) == settled = Unsettled /\ m \notin closed /\ inst[m] # 0

CorrectInstalment(c, m, a) ==
  /\ Correctable(m) /\ inst[m] # a
  /\ Request(c, [act |-> "correct", m |-> m, amount |-> a, saw |-> closed,
                 unpaid |-> settled = Unsettled])
  /\ UNCHANGED <<month, closed, ledgerVars, staffVars, paper, slips>>

SaveCorrection(c) ==
  /\ req[c].act = "correct"
  /\ LET k == req[c]
     IN  /\ inst' = [inst EXCEPT ![k.m] = IF @ = 0 THEN 0 ELSE k.amount]   \* no row: the update fails
         /\ slips' = slips \cup (IF k.m \in closed \ k.saw THEN {"deposit"} ELSE {})
                           \cup (IF k.unpaid /\ settled # Unsettled THEN {"settled"} ELSE {})
  /\ Go(c, Free)
  /\ UNCHANGED <<month, closed, rule, from, settled, staffVars, paper>>

\* settle: only once; the ledger is filled, summed up and closed.
Settle(c) ==
  /\ settled = Unsettled
  /\ Request(c, Fill("settle"))
  /\ UNCHANGED <<month, closed, ledgerVars, staffVars, paper, slips>>

SumUp(c) ==
  /\ req[c].act = "sum"
  /\ Go(c, [act |-> "settle", total |-> Total])
  /\ UNCHANGED <<month, closed, ledgerVars, staffVars, paper, slips>>

\* employee_id is unique: the second of two settlements fails.
SaveSettlement(c) ==
  /\ req[c].act = "settle"
  /\ settled' = IF settled = Unsettled THEN req[c].total ELSE settled
  /\ Slip("settled", settled = Unsettled /\ req[c].total # Total)
  /\ Go(c, Free)
  /\ UNCHANGED <<month, closed, rule, from, inst, staffVars, paper>>

UpdatePolicy(a, start, active) ==
  /\ One
  /\ rule' = [amount |-> a, start |-> start, active |-> active]
  /\ UNCHANGED <<month, closed, from, inst, settled, staffVars, paper, slips>>

\* Leave is entered for a range of days in one or two months, all of them open.
AddLeave(c, ms) ==
  /\ ms \cap closed = {}
  /\ Request(c, [act |-> "leave", months |-> ms, there |-> TRUE, saw |-> closed])
  /\ UNCHANGED <<month, closed, ledgerVars, staffVars, paper, slips>>

\* Mutant: leave of a closed month may be removed.
RemoveAnyLeave(c, m) ==
  /\ m \in leave
  /\ Request(c, [act |-> "leave", months |-> {m}, there |-> FALSE, saw |-> closed])
  /\ UNCHANGED <<month, closed, ledgerVars, staffVars, paper, slips>>

RemoveLeave(c, m) ==
  /\ m \in leave /\ m \notin closed
  /\ Request(c, [act |-> "leave", months |-> {m}, there |-> FALSE, saw |-> closed])
  /\ UNCHANGED <<month, closed, ledgerVars, staffVars, paper, slips>>

SaveLeave(c) ==
  /\ req[c].act = "leave"
  /\ LET k == req[c]
     IN  /\ leave' = IF k.there THEN leave \cup k.months ELSE leave \ k.months
         /\ Slip("leave", k.months \cap (closed \ k.saw) # {})
  /\ Go(c, Free)
  /\ UNCHANGED <<month, closed, ledgerVars, salary, slice, paper>>

\* employees.update reads the old salary, writes the new one, and only then
\* keeps the old one for the months it was paid in.
ChangeSalary(c, a) ==
  /\ Request(c, [act |-> "salary", old |-> salary, new |-> a])
  /\ UNCHANGED <<month, closed, ledgerVars, staffVars, paper, slips>>

SaveSalary(c) ==
  /\ req[c].act = "salary"
  /\ salary' = req[c].new
  /\ Slip("salary", req[c].old # salary \/ \E d \in Clerk : req[d].act = "slice")
  /\ Go(c, IF req[c].old = req[c].new THEN Free ELSE [act |-> "slice", old |-> req[c].old])
  /\ UNCHANGED <<month, closed, ledgerVars, leave, slice, paper>>

\* Mutant: the second of two changes in a month wins.
KeepLatest(old) == LET through == SupersededThrough
                   IN  [m \in Month |-> IF m = through THEN old ELSE slice[m]]

\* recordSalaryChange: nothing to keep when there was no salary; the first of
\* two changes in a month stays.
KeepOld(old) ==
  LET through == SupersededThrough
  IN  [m \in Month |-> IF m = through /\ slice[m] = 0 THEN old ELSE slice[m]]

SaveSlice(c) ==
  /\ req[c].act = "slice"
  /\ slice' = KeepOld(req[c].old)
  /\ Slip("salary", req[c].old = 0 /\ closed # {})
  /\ Go(c, Free)
  /\ UNCHANGED <<month, closed, ledgerVars, leave, salary, paper>>

(***************************************************************************)
(* Months, and requests that break off.                                    *)
(***************************************************************************)
CloseBooks(m) ==
  /\ m < month /\ m \notin closed
  /\ One
  /\ closed' = closed \cup {m}
  /\ paper' = [paper EXCEPT ![m] = Sheet(m)]
  /\ Slip("salary", \E c \in Clerk : req[c].act = "slice")
  /\ UNCHANGED <<month, ledgerVars, staffVars>>

ReopenBooks(m) ==
  /\ m \in closed
  /\ One
  /\ closed' = closed \ {m}
  /\ paper' = [paper EXCEPT ![m] = NoPaper]
  /\ UNCHANGED <<month, ledgerVars, staffVars, slips>>

\* The server restarts, or a statement fails: the request goes no further.
BreakOff(c) ==
  /\ req[c] # Free
  /\ Slip("salary", req[c].act = "slice")
  /\ Go(c, Free)
  /\ UNCHANGED <<month, closed, ledgerVars, staffVars, paper>>

NextMonth == /\ month + 1 \in Month /\ month' = month + 1
             /\ UNCHANGED <<closed, ledgerVars, staffVars, req, changes, paper, slips>>

(***************************************************************************)
(* Specification.                                                          *)
(***************************************************************************)
BooksInit ==
  /\ month = 1 /\ closed = {} /\ from = 0
  /\ rule = [amount |-> Min(Amount), start |-> 1, active |-> TRUE]
  /\ inst = [m \in Month |-> 0] /\ settled = Unsettled
  /\ leave = {} /\ salary = Min(Amount) /\ slice = [m \in Month |-> 0]
  /\ req = [c \in Clerk |-> Free] /\ changes = 0
  /\ paper = [m \in Month |-> NoPaper] /\ slips = {}

LedgerRequest(c) ==
  \/ Load(c) \/ Settle(c)
  \/ \E m \in Month \cup {0} : NewStart(c, m)
  \/ \E m \in Month, a \in Amount : CorrectInstalment(c, m, a)

StaffRequest(c) ==
  \/ \E m \in Month : AddLeave(c, {m}) \/ AddLeave(c, {m, m + 1} \cap Month) \/ RemoveLeave(c, m)
  \/ \E a \in Amount \cup {0} : ChangeSalary(c, a)

Statement(c) ==
  \/ ReadClosures(c) \/ Insert(c) \/ SaveStart(c) \/ LookClosed(c) \/ DeleteBefore(c)
  \/ Refill(c) \/ SaveCorrection(c) \/ SumUp(c) \/ SaveSettlement(c)
  \/ SaveLeave(c) \/ SaveSalary(c) \/ SaveSlice(c)

BooksNext ==
  \/ \E c \in Clerk : LedgerRequest(c) \/ StaffRequest(c) \/ Statement(c) \/ BreakOff(c)
  \/ \E a \in Amount, m \in Month, on \in BOOLEAN : UpdatePolicy(a, m, on)
  \/ \E m \in Month : CloseBooks(m) \/ ReopenBooks(m)
  \/ NextMonth

BooksSpec == BooksInit /\ [][BooksNext]_booksVars

(***************************************************************************)
(* Properties.                                                             *)
(***************************************************************************)
\* The shapes; and no instalment or salary is on record for a month to come.
BooksTypeOK ==
  /\ month \in Month /\ closed \subseteq Month /\ leave \subseteq Month
  /\ rule \in [amount : Amount, start : Month, active : BOOLEAN]
  /\ from \in Month \cup {0} /\ settled \in Nat \cup {Unsettled}
  /\ inst \in [Month -> Amount \cup {0}] /\ slice \in [Month -> Amount \cup {0}]
  /\ salary \in Amount \cup {0}
  /\ \A m \in Month : inst[m] # 0 \/ slice[m] # 0 => m <= month
  /\ \A c \in Clerk : req[c].act \in {"free", "due", "insert", "start", "look", "delete", "refill",
                                     "correct", "sum", "settle", "leave", "salary", "slice"}
  /\ changes \in 0..MaxChanges /\ slips \subseteq {"deposit", "leave", "salary", "settled"}

\* The deposit on the paper of a closed month stays the ledger's, through page
\* loads, corrections and new start months (deposits.service.ts:240-271,361-367):
\* only a write whose look at the closures was overtaken can move it.
DepositsFrozen == \A m \in closed : "deposit" \in slips \/ inst[m] = paper[m].deposit

\* The same for leave (leave.service.ts:161-174,243-252).
LeaveFrozen == \A m \in closed : "leave" \in slips \/ (m \in leave) = paper[m].leave

\* The same for the salary (employees.service.ts:582-627), outside the moment between a
\* raise and the keeping of the old salary, and except for a first salary.
SalaryFrozen == \A m \in closed :
  \/ "salary" \in slips
  \/ \E c \in Clerk : req[c].act = "slice"
  \/ SalaryFor(m) = paper[m].salary

\* What was paid out is what the ledger holds, for ever
\* (deposits.service.ts:198-199,335-343,477-485,690-694).
SettledKept == settled = Unsettled \/ "settled" \in slips \/ settled = Total

\* All of it: what payroll has been paid by stays, except where a write overtook
\* its own look at the closures or broke off half-way.
PaperStands == DepositsFrozen /\ LeaveFrozen /\ SalaryFrozen /\ SettledKept
=============================================================================
