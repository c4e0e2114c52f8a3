----------------------------- MODULE BooksProofs -----------------------------
(***************************************************************************)
(* The payroll's books, for any number of months, clerks and requests:     *)
(* once a month is closed, what its sheet said stands, whatever requests   *)
(* overlap, but for those that ClosedBooks counts among the slips; and the *)
(* row a sheet is made from follows the facts of PayMonth, and its line is *)
(* what the days on record come to, one by one.  And the backups of the    *)
(* books: rotation keeps enough, and silence means a good dump.  Last, the *)
(* shapes of the books.                                                    *)
(***************************************************************************)
EXTENDS ClosedBooks, Backups, PayMonth, FiniteSetTheorems, WellFoundedInduction, TLAPS

Below == {p \in Nat \X Nat : p[1] < p[2]}

\* Min picks the least of some naturals.
LEMMA MinIsLeast ==
  ASSUME NEW S \in SUBSET Nat, S # {}
  PROVE  Min(S) \in S /\ \A n \in S : Min(S) <= n
<1>1. IsWellFoundedOn(Below, Nat)
  BY NatLessThanWellFounded DEF OpToRel, Below
<1>2. PICK n \in S : \A k \in S : ~(<<k, n>> \in Below)
  BY <1>1, WFMin
<1>3. \A k \in S : k < n => <<k, n>> \in Below
  BY DEF Below
<1>4. \A k \in S : ~(k < n)
  BY <1>2, <1>3
<1>5. \A k \in S : n <= k
  BY <1>4
<1> QED
  BY <1>5 DEF Min

\* The months are the first so many numbers.
LEMMA Months ==
  /\ Month \in SUBSET Nat /\ 1 \in Month /\ \A m \in Month : 1 <= m
  /\ \A m \in Month, n \in Int : 1 <= n /\ n <= m => n \in Month
<1> DEFINE last == Cardinality(Month)
<1>1. Month = 1 .. last /\ 1 \in Month /\ last \in Nat
  BY BooksAssumption, FS_CardinalityType
<1> HIDE DEF last
<1>2. \A m : m \in Month <=> m \in Int /\ 1 <= m /\ m <= last
  BY <1>1
<1> QED
  BY <1>1, <1>2

\* A change of the salary whose old salary is not kept yet.
Pending(c) == req[c].act = "slice"

\* What a salary is for a month, under the slices there are.
KeptFor(slices, s, m) ==
  LET reach == {n \in Month : n >= m /\ slices[n] # 0}
  IN  IF reach = {} THEN s ELSE slices[Min(reach)]

\* A request writes nothing in a month it saw closed.
LookOK(k) ==
  /\ k.act \in {"insert", "leave"} => k.months \cap k.saw = {}
  /\ k.act = "correct" => k.m \notin k.saw /\ k.unpaid

ShapeInv ==
  /\ inst = [m \in Month |-> inst[m]] /\ slice = [m \in Month |-> slice[m]]
  /\ paper = [m \in Month |-> paper[m]] /\ req = [c \in Clerk |-> req[c]]

\* Closed months are past, and so are those with a kept salary.
CalendarInv ==
  /\ month \in Month /\ closed \subseteq Month
  /\ \A m \in closed : m < month
  /\ \A m \in Month : slice[m] # 0 => m < month

\* One change of the salary at a time, or a slip; what the payroll said of a closed
\* month is what the salary before the pending change comes to.
SalaryInv ==
  "salary" \in slips \/
    /\ \A c, d \in Clerk : Pending(c) /\ Pending(d) => c = d
    /\ \A c \in Clerk : Pending(c) =>
         \A m \in closed : KeptFor(slice, req[c].old, m) = paper[m].salary
    /\ (\A c \in Clerk : ~Pending(c)) =>
         \A m \in closed : KeptFor(slice, salary, m) = paper[m].salary

BooksInv ==
  /\ ShapeInv /\ CalendarInv
  /\ \A c \in Clerk : LookOK(req[c])
  /\ DepositsFrozen /\ LeaveFrozen /\ SettledKept /\ SalaryInv

LEMMA SalaryIsKept == \A m : SalaryFor(m) = KeptFor(slice, salary, m)
BY DEF SalaryFor, KeptFor

-----------------------------------------------------------------------------
\* Requests: the one of c becomes k.
LEMMA LooksKept ==
  ASSUME ShapeInv, \A d \in Clerk : LookOK(req[d]), NEW c, NEW k, LookOK(k),
         req' = [req EXCEPT ![c] = k]
  PROVE  /\ req' = [d \in Clerk |-> req'[d]]
         /\ \A d \in Clerk : LookOK(req'[d])
         /\ \A d \in Clerk : req'[d] = IF d = c THEN k ELSE req[d]
BY DEF ShapeInv

\* A step that leaves salaries alone, and neither begins nor ends a change of one.
LEMMA SalaryKept ==
  ASSUME SalaryInv, ShapeInv, NEW c, NEW k, k.act # "slice", c \in Clerk => ~Pending(c),
         req' = [req EXCEPT ![c] = k],
         UNCHANGED <<salary, slice>>, slips \subseteq slips', closed' \subseteq closed,
         \A m \in closed' : paper'[m].salary = paper[m].salary
  PROVE  SalaryInv'
<1>1. \A d \in Clerk : Pending(d)' <=> Pending(d)
  BY DEF Pending, ShapeInv
<1>2. \A d \in Clerk : Pending(d) => req'[d] = req[d]
  BY DEF Pending, ShapeInv
<1> QED
  BY <1>1, <1>2 DEF SalaryInv

\* A step of a request that writes nothing.
LEMMA QuietKeeps ==
  ASSUME BooksInv, NEW c \in Clerk, NEW k, LookOK(k), k.act # "slice", req[c].act # "slice",
         req' = [req EXCEPT ![c] = k],
         UNCHANGED <<month, closed, inst, settled, leave, salary, slice, paper, slips>>
  PROVE  BooksInv'
<1>1. ShapeInv' /\ \A d \in Clerk : LookOK(req'[d])
  BY LooksKept DEF BooksInv, ShapeInv
<1>2. CalendarInv' /\ DepositsFrozen' /\ LeaveFrozen'
  BY DEF BooksInv, CalendarInv, DepositsFrozen, LeaveFrozen
<1>3. SettledKept'
  BY DEF BooksInv, SettledKept, Total
<1>4. SalaryInv'
  BY SalaryKept DEF BooksInv, Pending
<1> QED
  BY <1>1, <1>2, <1>3, <1>4 DEF BooksInv

\* A new request.
LEMMA AskedKeeps ==
  ASSUME BooksInv, NEW c \in Clerk, NEW k, LookOK(k), k.act # "slice", Request(c, k),
         UNCHANGED <<month, closed, ledgerVars, staffVars, paper, slips>>
  PROVE  BooksInv'
<1>1. req' = [req EXCEPT ![c] = k] /\ req[c].act = "free"
  BY DEF Request, Free, At
<1>2. UNCHANGED <<month, closed, inst, settled, leave, salary, slice, paper, slips>>
  BY DEF ledgerVars, staffVars
<1> QED
  BY <1>1, <1>2, QuietKeeps

LEMMA LedgerRequestKeeps == ASSUME BooksInv, NEW c \in Clerk, LedgerRequest(c) PROVE BooksInv'
<1>1. \A t : LookOK(Fill(t)) /\ Fill(t).act # "slice"
  BY DEF LookOK, Fill
<1>2. CASE Load(c) \/ Settle(c)
  BY <1>1, <1>2, AskedKeeps DEF Load, Settle
<1>3. ASSUME NEW m, NewStart(c, m) PROVE BooksInv'
  <2>1. LET k == [act |-> "start", m |-> m] IN LookOK(k) /\ k.act # "slice"
    BY DEF LookOK
  <2> QED
    BY <1>3, <2>1, AskedKeeps DEF NewStart
<1>4. ASSUME NEW m, NEW a, CorrectInstalment(c, m, a) PROVE BooksInv'
  <2>1. m \notin closed /\ settled = Unsettled
    BY <1>4 DEF CorrectInstalment, Correctable
  <2>2. LET k == [act |-> "correct", m |-> m, amount |-> a, saw |-> closed,
                  unpaid |-> settled = Unsettled]
        IN  LookOK(k) /\ k.act # "slice"
    BY <2>1 DEF LookOK
  <2> QED
    BY <1>4, <2>2, AskedKeeps DEF CorrectInstalment
<1> QED
  BY <1>2, <1>3, <1>4 DEF LedgerRequest

LEMMA StaffRequestKeeps == ASSUME BooksInv, NEW c \in Clerk, StaffRequest(c) PROVE BooksInv'
<1>2. ASSUME NEW ms, NEW b, ms \cap closed = {}
      PROVE  LET k == [act |-> "leave", months |-> ms, there |-> b, saw |-> closed]
             IN  LookOK(k) /\ k.act # "slice"
  BY <1>2 DEF LookOK
<1>3. ASSUME NEW ms, AddLeave(c, ms) PROVE BooksInv'
  BY AskedKeeps, <1>2, <1>3 DEF AddLeave
<1>4. ASSUME NEW m, RemoveLeave(c, m) PROVE BooksInv'
  <2>1. {m} \cap closed = {}
    BY <1>4 DEF RemoveLeave
  <2> QED
    BY AskedKeeps, <1>2, <1>4, <2>1 DEF RemoveLeave
<1>5. ASSUME NEW a, ChangeSalary(c, a) PROVE BooksInv'
  <2>1. LET k == [act |-> "salary", old |-> salary, new |-> a] IN LookOK(k) /\ k.act # "slice"
    BY DEF LookOK
  <2> QED
    BY AskedKeeps, <1>5, <2>1 DEF ChangeSalary
<1> QED
  BY <1>3, <1>4, <1>5 DEF StaffRequest

-----------------------------------------------------------------------------
\* Statements of the ledger.
LEMMA WrittenInst ==
  ASSUME BooksInv, NEW c \in Clerk, NEW k, LookOK(k), k.act # "slice", req[c].act # "slice",
         Go(c, k), NEW f, inst' = [m \in Month |-> f[m]],
         UNCHANGED <<month, closed, settled, leave, salary, slice, paper>>,
         slips \subseteq slips',
         "deposit" \in slips' \/ \A m \in closed : f[m] = inst[m],
         "settled" \in slips' \/ settled = Unsettled \/ \A m \in Month : f[m] = inst[m]
  PROVE  BooksInv'
<1>1. ShapeInv' /\ \A d \in Clerk : LookOK(req'[d])
  BY LooksKept DEF BooksInv, ShapeInv, Go
<1>2. CalendarInv'
  BY DEF BooksInv, CalendarInv
<1>3. DepositsFrozen' /\ LeaveFrozen'
  BY DEF BooksInv, CalendarInv, DepositsFrozen, LeaveFrozen
<1>4. SettledKept'
  <2>1. CASE \A m \in Month : f[m] = inst[m]
    <3>1. inst' = inst
      BY <2>1 DEF BooksInv, ShapeInv
    <3> QED
      BY <3>1 DEF BooksInv, SettledKept, Total
  <2>2. CASE "settled" \in slips' \/ settled = Unsettled
    BY <2>2 DEF SettledKept
  <2> QED
    BY <2>1, <2>2
<1>5. SalaryInv'
  BY SalaryKept DEF BooksInv, Pending, Go
<1> QED
  BY <1>1, <1>2, <1>3, <1>4, <1>5 DEF BooksInv

LEMMA Harmless ==
  /\ \A a : a \notin {"insert", "leave", "correct", "slice"} =>
        LookOK(At(a)) /\ At(a).act # "slice"
  /\ LookOK(Free) /\ Free.act # "slice"
  /\ \A t : LookOK(Fill(t)) /\ Fill(t).act # "slice"
BY DEF LookOK, At, Free, Fill

LEMMA InsertKeeps == ASSUME BooksInv, NEW c \in Clerk, Insert(c) PROVE BooksInv'
<1> DEFINE k   == req[c]
           new == {m \in k.months : inst[m] = 0}
           f   == [m \in Month |-> IF m \in new THEN k.amount ELSE inst[m]]
           nxt == IF k.then = "settle" THEN At("sum") ELSE Free
<1>1. /\ req[c].act = "insert" /\ Go(c, nxt) /\ inst' = [m \in Month |-> f[m]]
      /\ slips' = slips \cup (IF new \cap (closed \ k.saw) # {} THEN {"deposit"} ELSE {})
                        \cup (IF new # {} /\ settled # Unsettled THEN {"settled"} ELSE {})
      /\ UNCHANGED <<month, closed, settled, leave, salary, slice, paper>>
  BY DEF Insert, staffVars
<1>2. k.months \cap k.saw = {}
  BY <1>1 DEF BooksInv, LookOK
<1>3. "deposit" \in slips' \/ \A m \in closed : f[m] = inst[m]
  <2>1. CASE new \cap (closed \ k.saw) # {}
    BY <1>1, <2>1
  <2>2. CASE new \cap (closed \ k.saw) = {}
    <3>1. \A m \in closed : m \notin new
      BY <1>2, <2>2
    <3> QED
      BY <3>1 DEF BooksInv, CalendarInv
  <2> QED
    BY <2>1, <2>2
<1>4. "settled" \in slips' \/ settled = Unsettled \/ \A m \in Month : f[m] = inst[m]
  BY <1>1
<1>5. LookOK(nxt) /\ nxt.act # "slice"
  BY Harmless
<1>6. slips \subseteq slips'
  BY <1>1
<1> HIDE DEF f, nxt, k, new
<1> QED
  BY <1>1, <1>3, <1>4, <1>5, <1>6, WrittenInst

LEMMA DeleteKeeps == ASSUME BooksInv, NEW c \in Clerk, DeleteBefore(c) PROVE BooksInv'
<1> DEFINE k    == req[c]
           gone == {m \in Month : m < k.m /\ m \notin k.saw /\ inst[m] # 0}
           f    == [m \in Month |-> IF m \in gone THEN 0 ELSE inst[m]]
<1>1. /\ req[c].act = "delete" /\ Go(c, At("refill")) /\ inst' = [m \in Month |-> f[m]]
      /\ slips' = slips \cup (IF gone \cap closed # {} THEN {"deposit"} ELSE {})
                        \cup (IF gone # {} /\ settled # Unsettled THEN {"settled"} ELSE {})
      /\ UNCHANGED <<month, closed, settled, leave, salary, slice, paper>>
  BY DEF DeleteBefore, staffVars
<1>2. "deposit" \in slips' \/ \A m \in closed : f[m] = inst[m]
  BY <1>1 DEF BooksInv, CalendarInv
<1>3. "settled" \in slips' \/ settled = Unsettled \/ \A m \in Month : f[m] = inst[m]
  BY <1>1
<1>4. LookOK(At("refill")) /\ At("refill").act # "slice"
  BY Harmless
<1>5. slips \subseteq slips'
  BY <1>1
<1> HIDE DEF f, k, gone
<1> QED
  BY <1>1, <1>2, <1>3, <1>4, <1>5, WrittenInst

LEMMA CorrectionKeeps == ASSUME BooksInv, NEW c \in Clerk, SaveCorrection(c) PROVE BooksInv'
<1> DEFINE k == req[c]
           f == [inst EXCEPT ![k.m] = IF @ = 0 THEN 0 ELSE k.amount]
<1>1. /\ req[c].act = "correct" /\ Go(c, Free) /\ inst' = f
      /\ slips' = slips \cup (IF k.m \in closed \ k.saw THEN {"deposit"} ELSE {})
                        \cup (IF k.unpaid /\ settled # Unsettled THEN {"settled"} ELSE {})
      /\ UNCHANGED <<month, closed, settled, leave, salary, slice, paper>>
  BY DEF SaveCorrection, staffVars
<1>2. k.m \notin k.saw /\ k.unpaid
  BY <1>1 DEF BooksInv, LookOK
<1>3. \A m \in Month : m # k.m => f[m] = inst[m]
  OBVIOUS
<1>4. "deposit" \in slips' \/ \A m \in closed : f[m] = inst[m]
  BY <1>1, <1>2, <1>3 DEF BooksInv, CalendarInv
<1>5. "settled" \in slips' \/ settled = Unsettled \/ \A m \in Month : f[m] = inst[m]
  BY <1>1, <1>2
<1>6. f = [m \in Month |-> f[m]]
  BY DEF BooksInv, ShapeInv
<1>7. slips \subseteq slips'
  BY <1>1
<1> HIDE DEF f, k
<1> QED
  BY <1>1, <1>4, <1>5, <1>6, <1>7, Harmless, WrittenInst

LEMMA SettlementKeeps == ASSUME BooksInv, NEW c \in Clerk, SaveSettlement(c) PROVE BooksInv'
<1>1. /\ req[c].act = "settle" /\ req' = [req EXCEPT ![c] = Free]
      /\ settled' = IF settled = Unsettled THEN req[c].total ELSE settled
      /\ slips' = IF settled = Unsettled /\ req[c].total # Total THEN slips \cup {"settled"} ELSE slips
      /\ UNCHANGED <<month, closed, inst, leave, salary, slice, paper>>
  BY DEF SaveSettlement, Slip, Go, staffVars
<1>2. slips \subseteq slips'
  BY <1>1
<1>3. ShapeInv' /\ \A d \in Clerk : LookOK(req'[d])
  BY <1>1, Harmless, LooksKept DEF BooksInv, ShapeInv
<1>4. CalendarInv' /\ DepositsFrozen' /\ LeaveFrozen'
  BY <1>1, <1>2 DEF BooksInv, CalendarInv, DepositsFrozen, LeaveFrozen
<1>5. SettledKept'
  <2>1. Total' = Total
    BY <1>1 DEF Total
  <2> QED
    BY <1>1, <1>2, <2>1 DEF BooksInv, SettledKept
<1>6. SalaryInv'
  BY <1>1, <1>2, Harmless, SalaryKept DEF BooksInv, Pending
<1> QED
  BY <1>3, <1>4, <1>5, <1>6 DEF BooksInv

LEMMA SaveLeaveKeeps == ASSUME BooksInv, NEW c \in Clerk, SaveLeave(c) PROVE BooksInv'
<1> DEFINE k == req[c]
<1>1. /\ k.act = "leave" /\ req' = [req EXCEPT ![c] = Free]
      /\ leave' = IF k.there THEN leave \cup k.months ELSE leave \ k.months
      /\ slips' = IF k.months \cap (closed \ k.saw) # {} THEN slips \cup {"leave"} ELSE slips
      /\ UNCHANGED <<month, closed, inst, settled, salary, slice, paper>>
  BY DEF SaveLeave, Slip, Go, ledgerVars
<1>2. slips \subseteq slips'
  BY <1>1
<1>3. ShapeInv' /\ \A d \in Clerk : LookOK(req'[d])
  BY <1>1, Harmless, LooksKept DEF BooksInv, ShapeInv
<1>4. CalendarInv' /\ DepositsFrozen'
  BY <1>1, <1>2 DEF BooksInv, CalendarInv, DepositsFrozen
<1>5. LeaveFrozen'
  <2>1. k.months \cap k.saw = {}
    BY <1>1 DEF BooksInv, LookOK
  <2>2. "leave" \in slips' \/ \A m \in closed : m \notin k.months
    BY <1>1, <2>1
  <2>3. "leave" \in slips' \/ \A m \in closed : m \in leave' <=> m \in leave
    BY <1>1, <2>2
  <2> QED
    BY <1>1, <1>2, <2>3 DEF BooksInv, LeaveFrozen
<1>6. SettledKept'
  BY <1>1, <1>2 DEF BooksInv, SettledKept, Total
<1>7. SalaryInv'
  BY <1>1, <1>2, Harmless, SalaryKept DEF BooksInv, Pending
<1> QED
  BY <1>3, <1>4, <1>5, <1>6, <1>7 DEF BooksInv

-----------------------------------------------------------------------------
\* The salary: keeping the old one leaves what a past month comes to.
LEMMA OldIsKept ==
  ASSUME BooksInv, NEW old, old # 0, NEW salaryNow, NEW m \in closed, slice' = KeepOld(old)
  PROVE  KeptFor(slice', salaryNow, m) = KeptFor(slice, old, m)
<1> DEFINE through == month - 1
           reach   == {n \in Month : n >= m /\ slice[n] # 0}
           after   == {n \in Month : n >= m /\ slice'[n] # 0}
<1>1. m \in Month /\ m <= through /\ month \in Month /\ month \notin closed
      /\ Month \in SUBSET Nat /\ through \in Month
  <2>1. m \in Month /\ m < month /\ month \in Month /\ month \notin closed
    BY Months DEF BooksInv, CalendarInv
  <2>2. m \in Nat /\ month \in Nat /\ 1 <= m
    BY <2>1, Months
  <2> QED
    BY <2>1, <2>2, Months
<1>2. slice' = [n \in Month |-> IF n = through /\ slice[n] = 0 THEN old ELSE slice[n]]
  BY <1>1 DEF KeepOld, SupersededThrough
<1>3. \A n \in reach : n <= through
  BY <1>1 DEF BooksInv, CalendarInv
<1>4. after = reach \cup {through}
  <2>1. \A n \in Month : slice'[n] # 0 <=> slice[n] # 0 \/ n = through
    BY <1>2
  <2> HIDE DEF through
  <2> QED
    BY <1>1, <2>1
<1>5. KeptFor(slice', salaryNow, m) = slice'[Min(after)]
  BY <1>4 DEF KeptFor
<1>6. CASE reach = {}
  <2>1. Min(after) = through
    BY <1>1, <1>4, <1>6, MinIsLeast
  <2>2. slice[through] = 0
    BY <1>1, <1>6
  <2> QED
    BY <1>1, <1>2, <1>5, <1>6, <2>1, <2>2 DEF KeptFor
<1>7. CASE reach # {}
  <2>1. /\ Min(reach) \in reach /\ \A n \in reach : Min(reach) <= n
        /\ Min(after) \in after /\ \A n \in after : Min(after) <= n
    <3>1. reach \in SUBSET Nat /\ after \in SUBSET Nat /\ after # {}
      BY <1>1, <1>4
    <3> QED
      BY <1>7, <3>1, MinIsLeast
  <2>2. Min(after) = Min(reach)
    <3> HIDE DEF through, reach, after
    <3>1. reach \subseteq Nat /\ through \in Nat
      BY <1>1 DEF reach
    <3>2. Min(reach) \in after /\ Min(reach) \in Nat /\ Min(after) \in Nat
      BY <1>4, <2>1, <3>1
    <3>3. Min(after) <= Min(reach)
      BY <2>1, <3>2
    <3>4. Min(reach) <= Min(after)
      <4>1. CASE Min(after) \in reach
        BY <2>1, <4>1
      <4>2. CASE Min(after) = through
        BY <1>3, <2>1, <4>2
      <4> QED
        BY <1>4, <2>1, <4>1, <4>2
    <3> QED
      BY <3>2, <3>3, <3>4
  <2>3. slice'[Min(reach)] = slice[Min(reach)]
    BY <1>2, <2>1
  <2> QED
    BY <1>5, <1>7, <2>2, <2>3 DEF KeptFor
<1> QED
  BY <1>6, <1>7

LEMMA SaveSalaryKeeps == ASSUME BooksInv, NEW c \in Clerk, SaveSalary(c) PROVE BooksInv'
<1> DEFINE k   == req[c]
           nxt == IF k.old = k.new THEN Free ELSE [act |-> "slice", old |-> k.old]
<1>1. /\ k.act = "salary" /\ req' = [req EXCEPT ![c] = nxt] /\ salary' = k.new
      /\ slips' = IF k.old # salary \/ \E d \in Clerk : Pending(d)
                  THEN slips \cup {"salary"} ELSE slips
      /\ UNCHANGED <<month, closed, inst, settled, leave, slice, paper>>
  BY DEF SaveSalary, Slip, Go, ledgerVars, Pending
<1>2. slips \subseteq slips'
  BY <1>1
<1>3. LookOK(nxt)
  BY Harmless DEF LookOK
<1>4. ShapeInv' /\ \A d \in Clerk : LookOK(req'[d])
  BY <1>1, <1>3, LooksKept DEF BooksInv, ShapeInv
<1>5. CalendarInv' /\ DepositsFrozen' /\ LeaveFrozen'
  BY <1>1, <1>2 DEF BooksInv, CalendarInv, DepositsFrozen, LeaveFrozen
<1>6. SettledKept'
  BY <1>1, <1>2 DEF BooksInv, SettledKept, Total
<1>7. SalaryInv'
  <2>1. CASE k.old # salary \/ \E d \in Clerk : Pending(d)
    BY <1>1, <2>1 DEF SalaryInv
  <2>2. CASE k.old = salary /\ \A d \in Clerk : ~Pending(d)
    <3>1. \A d \in Clerk : req'[d] = IF d = c THEN nxt ELSE req[d]
      BY <1>1 DEF BooksInv, ShapeInv
    <3>2. "salary" \in slips \/ \A m \in closed : KeptFor(slice, salary, m) = paper[m].salary
      BY <2>2 DEF BooksInv, SalaryInv
    <3>3. CASE k.old = k.new
      <4>1. nxt.act # "slice"
        BY <3>3, Harmless
      <4> QED
        BY <1>1, <1>2, <2>2, <3>1, <3>2, <3>3, <4>1 DEF SalaryInv, Pending
    <3>4. CASE k.old # k.new
      <4>1. nxt.act = "slice" /\ nxt.old = salary
        BY <2>2, <3>4
      <4>2. \A d \in Clerk : Pending(d)' <=> d = c
        BY <2>2, <3>1, <4>1 DEF Pending
      <4>3. req'[c].old = salary
        BY <3>1, <4>1
      <4> HIDE DEF nxt, k
      <4> QED
        BY <1>1, <1>2, <3>2, <4>2, <4>3 DEF SalaryInv
    <3> QED
      BY <3>3, <3>4
  <2> QED
    BY <2>1, <2>2
<1> QED
  BY <1>4, <1>5, <1>6, <1>7 DEF BooksInv

LEMMA SaveSliceKeeps == ASSUME BooksInv, NEW c \in Clerk, SaveSlice(c) PROVE BooksInv'
<1> DEFINE old == req[c].old
<1>1. /\ Pending(c) /\ req' = [req EXCEPT ![c] = Free] /\ slice' = KeepOld(old)
      /\ slips' = IF old = 0 /\ closed # {} THEN slips \cup {"salary"} ELSE slips
      /\ UNCHANGED <<month, closed, inst, settled, leave, salary, paper>>
  BY DEF SaveSlice, Slip, Go, ledgerVars, Pending
<1>2. slips \subseteq slips'
  BY <1>1
<1>3. ShapeInv' /\ \A d \in Clerk : LookOK(req'[d])
  BY <1>1, Harmless, LooksKept DEF BooksInv, ShapeInv, KeepOld
<1>4. DepositsFrozen' /\ LeaveFrozen'
  BY <1>1, <1>2 DEF BooksInv, DepositsFrozen, LeaveFrozen
<1>5. CalendarInv'
  <2>1. month \notin closed /\ Month \subseteq Nat /\ month \in Month
    BY Months DEF BooksInv, CalendarInv
  <2>2. \A m \in Month : slice'[m] # 0 => slice[m] # 0 \/ m = month - 1
    BY <1>1, <2>1 DEF KeepOld, SupersededThrough
  <2> QED
    BY <1>1, <2>1, <2>2 DEF BooksInv, CalendarInv
<1>6. SettledKept'
  BY <1>1, <1>2 DEF BooksInv, SettledKept, Total
<1>7. SalaryInv'
  <2>1. CASE "salary" \in slips'
    BY <2>1 DEF SalaryInv
  <2>2. CASE "salary" \notin slips'
    <3>1. \A d \in Clerk : req'[d] = IF d = c THEN Free ELSE req[d]
      BY <1>1 DEF BooksInv, ShapeInv
    <3>2. /\ \A d \in Clerk : Pending(d) => d = c
          /\ \A m \in closed : KeptFor(slice, old, m) = paper[m].salary
      BY <1>1, <1>2, <2>2 DEF BooksInv, SalaryInv
    <3>3. \A d \in Clerk : ~Pending(d)'
      BY <3>1, <3>2, Harmless DEF Pending
    <3>4. ASSUME NEW m \in closed
          PROVE  KeptFor(slice', salary, m) = paper[m].salary
      <4>1. old # 0
        BY <1>1, <2>2
      <4> HIDE DEF old
      <4> QED
        BY <1>1, <3>2, <4>1, OldIsKept
    <3> QED
      BY <1>1, <3>3, <3>4 DEF SalaryInv
  <2> QED
    BY <2>1, <2>2
<1> QED
  BY <1>3, <1>4, <1>5, <1>6, <1>7 DEF BooksInv

LEMMA StatementKeeps == ASSUME BooksInv, NEW c \in Clerk, Statement(c) PROVE BooksInv'
<1>1. ASSUME NEW k, LookOK(k), k.act # "slice", req[c].act # "slice", Go(c, k),
             UNCHANGED <<month, closed, ledgerVars, staffVars, paper, slips>>
      PROVE  BooksInv'
  <2>1. UNCHANGED <<month, closed, inst, settled, leave, salary, slice, paper, slips>>
    BY <1>1 DEF ledgerVars, staffVars
  <2> QED
    BY <1>1, <2>1, QuietKeeps DEF Go
<1>2. CASE ReadClosures(c)
  <2>1. LET k == [act |-> "insert", months |-> OpenMonths(req[c].months), amount |-> req[c].amount,
                  saw |-> closed, then |-> req[c].then]
        IN  LookOK(k) /\ k.act # "slice"
    BY DEF LookOK, OpenMonths
  <2> QED
    BY <1>1, <1>2, <2>1 DEF ReadClosures
<1>3. CASE LookClosed(c)
  <2>1. LET k == [act |-> "delete", m |-> req[c].m, saw |-> closed] IN LookOK(k) /\ k.act # "slice"
    BY DEF LookOK
  <2> QED
    BY <1>1, <1>3, <2>1 DEF LookClosed
<1>4. CASE Refill(c)
  BY <1>1, <1>4, Harmless DEF Refill
<1>5. CASE SumUp(c)
  <2>1. LET k == [act |-> "settle", total |-> Total] IN LookOK(k) /\ k.act # "slice"
    BY DEF LookOK
  <2> QED
    BY <1>1, <1>5, <2>1 DEF SumUp
<1>6. CASE SaveStart(c)
  <2> DEFINE k == IF from' = 0 THEN At("refill") ELSE [act |-> "look", m |-> from']
  <2>1. LookOK(k) /\ k.act # "slice"
    BY Harmless DEF LookOK
  <2>2. req[c].act = "start" /\ req' = [req EXCEPT ![c] = k]
        /\ UNCHANGED <<month, closed, inst, settled, leave, salary, slice, paper, slips>>
    BY <1>6 DEF SaveStart, Go, staffVars
  <2> HIDE DEF k
  <2> QED
    BY <2>1, <2>2, QuietKeeps
<1> QED
  BY <1>2, <1>3, <1>4, <1>5, <1>6, InsertKeeps, DeleteKeeps, CorrectionKeeps, SettlementKeeps,
     SaveLeaveKeeps, SaveSalaryKeeps, SaveSliceKeeps DEF Statement

-----------------------------------------------------------------------------
\* Months, and requests that break off.
LEMMA BreakOffKeeps == ASSUME BooksInv, NEW c \in Clerk, BreakOff(c) PROVE BooksInv'
<1>1. /\ Go(c, Free)
      /\ slips' = IF Pending(c) THEN slips \cup {"salary"} ELSE slips
      /\ UNCHANGED <<month, closed, inst, settled, leave, salary, slice, paper>>
  BY DEF BreakOff, Slip, Pending, ledgerVars, staffVars
<1>2. CASE ~Pending(c)
  BY <1>1, <1>2, QuietKeeps, Harmless DEF Go, Pending
<1>3. CASE Pending(c)
  <2>1. "salary" \in slips' /\ slips \subseteq slips' /\ req' = [req EXCEPT ![c] = Free]
    BY <1>1, <1>3 DEF Go
  <2>2. ShapeInv' /\ \A d \in Clerk : LookOK(req'[d])
    BY <1>1, <2>1, Harmless, LooksKept DEF BooksInv, ShapeInv
  <2>3. CalendarInv' /\ DepositsFrozen' /\ LeaveFrozen'
    BY <1>1, <2>1 DEF BooksInv, CalendarInv, DepositsFrozen, LeaveFrozen
  <2>4. SettledKept' /\ SalaryInv'
    BY <1>1, <2>1 DEF BooksInv, SettledKept, Total, SalaryInv
  <2> QED
    BY <2>2, <2>3, <2>4 DEF BooksInv
<1> QED
  BY <1>2, <1>3

LEMMA CloseKeeps == ASSUME BooksInv, NEW m \in Month, CloseBooks(m) PROVE BooksInv'
<1>1. /\ m < month /\ closed' = closed \cup {m} /\ paper' = [paper EXCEPT ![m] = Sheet(m)]
      /\ slips' = IF \E c \in Clerk : Pending(c) THEN slips \cup {"salary"} ELSE slips
      /\ UNCHANGED <<month, inst, settled, leave, salary, slice, req>>
  BY DEF CloseBooks, Slip, One, ledgerVars, staffVars, Pending
<1>2. \A n \in Month : paper'[n] = IF n = m THEN Sheet(m) ELSE paper[n]
  BY <1>1 DEF BooksInv, ShapeInv
<1>3. ShapeInv' /\ \A d \in Clerk : LookOK(req'[d])
  BY <1>1 DEF BooksInv, ShapeInv
<1>4. CalendarInv'
  BY <1>1 DEF BooksInv, CalendarInv
<1>5. /\ Sheet(m).deposit = inst[m] /\ Sheet(m).leave = (m \in leave)
      /\ Sheet(m).salary = KeptFor(slice, salary, m)
  BY SalaryIsKept DEF Sheet
<1>6. slips \subseteq slips'
  BY <1>1
<1>7. DepositsFrozen' /\ LeaveFrozen'
  <2>1. DepositsFrozen'
    BY <1>1, <1>2, <1>5, <1>6 DEF BooksInv, CalendarInv, DepositsFrozen
  <2>2. ASSUME NEW n \in closed', "leave" \notin slips' PROVE (n \in leave) = paper'[n].leave
    <3>1. CASE n = m
      BY <1>1, <1>2, <1>5, <3>1
    <3>2. CASE n # m
      <4>1. n \in closed /\ paper'[n] = paper[n] /\ "leave" \notin slips
        BY <1>1, <1>2, <1>6, <2>2, <3>2 DEF BooksInv, CalendarInv
      <4> QED
        BY <4>1 DEF BooksInv, LeaveFrozen
    <3> QED
      BY <3>1, <3>2
  <2> QED
    BY <1>1, <2>1, <2>2 DEF LeaveFrozen
<1>8. SettledKept'
  BY <1>1, <1>6 DEF BooksInv, SettledKept, Total
<1>9. SalaryInv'
  <2>1. CASE \E c \in Clerk : Pending(c)
    BY <1>1, <2>1 DEF SalaryInv
  <2>2. CASE \A c \in Clerk : ~Pending(c)
    <3>1. \A c \in Clerk : ~Pending(c)'
      BY <1>1, <2>2 DEF Pending
    <3>2. "salary" \in slips' \/
            \A n \in closed' : KeptFor(slice, salary, n) = paper'[n].salary
      BY <1>1, <1>2, <1>5, <1>6, <2>2 DEF BooksInv, CalendarInv, SalaryInv
    <3> QED
      BY <1>1, <3>1, <3>2 DEF SalaryInv
  <2> QED
    BY <2>1, <2>2
<1> QED
  BY <1>3, <1>4, <1>7, <1>8, <1>9 DEF BooksInv

LEMMA ReopenKeeps == ASSUME BooksInv, NEW m \in Month, ReopenBooks(m) PROVE BooksInv'
<1>1. /\ closed' = closed \ {m} /\ paper' = [paper EXCEPT ![m] = NoPaper]
      /\ UNCHANGED <<month, inst, settled, leave, salary, slice, req, slips>>
  BY DEF ReopenBooks, One, ledgerVars, staffVars
<1>2. \A n \in closed' : n \in closed /\ paper'[n] = paper[n]
  BY <1>1 DEF BooksInv, ShapeInv, CalendarInv
<1>3. ShapeInv' /\ (\A d \in Clerk : LookOK(req'[d])) /\ CalendarInv'
  BY <1>1 DEF BooksInv, ShapeInv, CalendarInv
<1>4. DepositsFrozen' /\ LeaveFrozen'
  BY <1>1, <1>2 DEF BooksInv, DepositsFrozen, LeaveFrozen
<1>5. SettledKept'
  BY <1>1 DEF BooksInv, SettledKept, Total
<1>6. SalaryInv'
  BY <1>1, <1>2 DEF BooksInv, SalaryInv, Pending
<1> QED
  BY <1>3, <1>4, <1>5, <1>6 DEF BooksInv

LEMMA MonthKeeps == ASSUME BooksInv, NextMonth PROVE BooksInv'
<1>1. /\ month' = month + 1 /\ month' \in Month
      /\ UNCHANGED <<closed, inst, settled, leave, salary, slice, req, paper, slips>>
  BY DEF NextMonth, ledgerVars, staffVars
<1>2. CalendarInv'
  BY <1>1, BooksAssumption DEF BooksInv, CalendarInv
<1>3. SettledKept' /\ SalaryInv'
  BY <1>1 DEF BooksInv, SettledKept, Total, SalaryInv, Pending
<1> QED
  BY <1>1, <1>2, <1>3 DEF BooksInv, ShapeInv, DepositsFrozen, LeaveFrozen

LEMMA SameKeeps ==
  ASSUME BooksInv,
         UNCHANGED <<month, closed, inst, settled, leave, salary, slice, req, paper, slips>>
  PROVE  BooksInv'
<1>1. SettledKept' /\ SalaryInv'
  BY DEF BooksInv, SettledKept, Total, SalaryInv, Pending
<1> QED
  BY <1>1 DEF BooksInv, ShapeInv, CalendarInv, DepositsFrozen, LeaveFrozen

LEMMA BooksHold == BooksSpec => []BooksInv
<1>1. BooksInit => BooksInv
  <2> SUFFICES ASSUME BooksInit PROVE BooksInv
    OBVIOUS
  <2>1. ShapeInv
    BY DEF BooksInit, ShapeInv
  <2>2. month \in Month /\ CalendarInv
    BY Months DEF BooksInit, CalendarInv
  <2>3. \A c \in Clerk : LookOK(req[c]) /\ ~Pending(c)
    BY Harmless DEF BooksInit, Pending
  <2> QED
    BY <2>1, <2>2, <2>3
    DEF BooksInit, BooksInv, DepositsFrozen, LeaveFrozen, SettledKept, SalaryInv
<1>2. BooksInv /\ [BooksNext]_booksVars => BooksInv'
  <2> SUFFICES ASSUME BooksInv, [BooksNext]_booksVars PROVE BooksInv'
    OBVIOUS
  <2>1. ASSUME NEW c \in Clerk, LedgerRequest(c) \/ StaffRequest(c) \/ Statement(c) \/ BreakOff(c)
        PROVE  BooksInv'
    BY <2>1, LedgerRequestKeeps, StaffRequestKeeps, StatementKeeps, BreakOffKeeps
  <2>2. ASSUME NEW a, NEW m, NEW on, UpdatePolicy(a, m, on) PROVE BooksInv'
    BY <2>2, SameKeeps DEF UpdatePolicy, One, staffVars
  <2>3. ASSUME NEW m \in Month, CloseBooks(m) \/ ReopenBooks(m) PROVE BooksInv'
    BY <2>3, CloseKeeps, ReopenKeeps
  <2>4. CASE NextMonth
    BY <2>4, MonthKeeps
  <2>5. CASE UNCHANGED booksVars
    BY <2>5, SameKeeps DEF booksVars, ledgerVars, staffVars
  <2> QED
    BY <2>1, <2>2, <2>3, <2>4, <2>5 DEF BooksNext
<1> QED
  BY <1>1, <1>2, PTL DEF BooksSpec

(***************************************************************************)
(* R1 for deposits, leave, salary and settlement, whatever page loads,     *)
(* corrections, raises, closings and reopenings overlap: only a write that *)
(* overtook its own look at the closures, or broke off, spoils a paper.    *)
(***************************************************************************)
THEOREM PapersStand == BooksSpec => []PaperStands
<1>1. BooksInv => PaperStands
  <2> SUFFICES ASSUME BooksInv PROVE PaperStands
    OBVIOUS
  <2>1. SalaryFrozen
    BY SalaryIsKept DEF BooksInv, SalaryInv, SalaryFrozen, Pending
  <2> QED
    BY <2>1 DEF BooksInv, PaperStands
<1> QED
  BY <1>1, BooksHold, PTL

-----------------------------------------------------------------------------
\* The row of the month.

\* A day whose row is not what is on record now, and why that will be noticed.
Behind(d) == d \in marked \cup missed \/ d = date \/ (closeOwed /\ d = date - 1)

RowInv ==
  \A d \in DayOfMonth :
    \/ dayRow[d] = NoRow
    \/ dayRow[d].there /\ (dayRow[d] = CountedDay(d) \/ Behind(d))

MonthInv ==
  MonthEnd < date => \/ payRow = MonthRow(dayRow) \/ WillBe
                     \/ missed # {} \/ overlooked # {}

PayInv ==
  /\ dayRow = [d \in DayOfMonth |-> dayRow[d]]
  /\ hours = [d \in DayOfMonth |-> hours[d]] /\ fixes = [d \in DayOfMonth |-> fixes[d]]
  /\ date \in Nat /\ marked \subseteq DayOfMonth /\ missed \subseteq DayOfMonth
  /\ RowInv /\ MonthInv

\* A row of the month is of the same facts, but for the days that turn after its end.
LEMMA MonthRowSame ==
  ASSUME UNCHANGED <<service, holidays, onLeave, tracked, dayRow>>, date \in Nat,
         date' = date \/ (date' = date + 1 /\ MonthEnd < date)
  PROVE  MonthRow(dayRow)' = MonthRow(dayRow)
<1>1. \A d \in DayOfMonth : d < date' <=> d < date
  BY MonthAssumption DEF DayOfMonth
<1>2. Employed' = Employed
  BY DEF Employed
<1>3. ElapsedWindow' = ElapsedWindow
  BY <1>1, <1>2 DEF ElapsedWindow, Employed
<1>4. \A d : IsWorkday(d)' <=> IsWorkday(d)
  BY DEF IsWorkday
<1>5. ObservedDays(dayRow)' = ObservedDays(dayRow)
  BY <1>3, <1>4 DEF ObservedDays
<1>6. /\ CountWorkdays(Employed)' = CountWorkdays(Employed)
      /\ CountWorkdays(DayOfMonth)' = CountWorkdays(DayOfMonth)
      /\ CountLeave(Employed)' = CountLeave(Employed)
  BY <1>2, <1>4 DEF CountWorkdays, CountLeave
<1> QED
  BY <1>5, <1>6 DEF MonthRow

\* A recount of the days S: what it leaves out, it leaves as it was or notes.
LEMMA RecountKeeps ==
  ASSUME PayInv, NEW S, NEW counts \in BOOLEAN, Recount(S, counts),
         UNCHANGED <<date, service, holidays, onLeave, hours, tracked, shut>>,
         fixes' = [d \in DayOfMonth |-> fixes'[d]],
         \A d \in DayOfMonth \ S : fixes'[d] = fixes[d],
         marked' \subseteq marked, marked \ S \subseteq marked',
         closeOwed => closeOwed' \/ date - 1 \in S
  PROVE  PayInv'
<1>1. /\ S \cap DayOfMonth = {} => UNCHANGED countVars
      /\ S \cap DayOfMonth # {} /\ ~counts =>
           /\ missed' = missed \cup (S \cap DayOfMonth)
           /\ UNCHANGED <<dayRow, payRow, overlooked>>
      /\ S \cap DayOfMonth # {} /\ counts =>
           /\ dayRow' = [d \in DayOfMonth |-> IF d \in S THEN CountedDay(d)' ELSE dayRow[d]]
           /\ missed' = missed \ S
           /\ IF shut THEN UNCHANGED payRow /\ overlooked' = overlooked \cup {"closed"}
              ELSE payRow' = MonthRow(dayRow)' /\ overlooked' = {}
  BY DEF Recount
<1>2. missed' \subseteq DayOfMonth /\ dayRow' = [d \in DayOfMonth |-> dayRow'[d]]
  BY <1>1 DEF PayInv, countVars
<1>3. RowInv'
  <2> SUFFICES ASSUME NEW d \in DayOfMonth
               PROVE  \/ dayRow'[d] = NoRow
                      \/ dayRow'[d].there /\ (dayRow'[d] = CountedDay(d)' \/ Behind(d)')
    BY DEF RowInv
  <2>1. CASE d \notin S
    <3>1. dayRow'[d] = dayRow[d] /\ (d \in missed => d \in missed')
      BY <1>1, <2>1 DEF countVars
    <3>2. CountedDay(d)' = CountedDay(d)
      BY <2>1 DEF CountedDay
    <3>3. Behind(d) => Behind(d)'
      BY <2>1, <3>1 DEF Behind
    <3> QED
      BY <3>1, <3>2, <3>3 DEF PayInv, RowInv
  <2>2. CASE d \in S /\ counts
    <3>1. dayRow' = [e \in DayOfMonth |-> IF e \in S THEN CountedDay(e)' ELSE dayRow[e]]
      BY <1>1, <2>2
    <3>2. dayRow'[d] = CountedDay(d)' /\ CountedDay(d)'.there
      BY <2>2, <3>1 DEF CountedDay
    <3> QED
      BY <3>2
  <2>3. CASE d \in S /\ ~counts
    <3>1. d \in missed' /\ dayRow'[d] = dayRow[d]
      BY <1>1, <2>3
    <3> QED
      BY <3>1 DEF PayInv, RowInv, Behind
  <2> QED
    BY <2>1, <2>2, <2>3
<1>4. MonthInv'
  <2> SUFFICES ASSUME MonthEnd < date
               PROVE  \/ payRow' = MonthRow(dayRow)' \/ WillBe'
                      \/ missed' # {} \/ overlooked' # {}
    BY DEF MonthInv
  <2>1. CASE S \cap DayOfMonth = {}
    <3>1. UNCHANGED <<dayRow, payRow, missed, overlooked>>
      BY <1>1, <2>1 DEF countVars
    <3>2. MonthRow(dayRow)' = MonthRow(dayRow)
      BY <3>1, MonthRowSame DEF PayInv
    <3>3. WillBe => WillBe'
      <4>1. marked # {} => marked' # {}
        BY <2>1 DEF PayInv
      <4>2. date = MonthEnd + 1 => date - 1 \notin S
        BY <2>1, MonthAssumption DEF DayOfMonth
      <4> QED
        BY <4>1, <4>2 DEF WillBe
    <3> QED
      BY <3>1, <3>2, <3>3 DEF PayInv, MonthInv
  <2>2. CASE S \cap DayOfMonth # {}
    BY <1>1, <2>2
  <2> QED
    BY <2>1, <2>2
<1> QED
  BY <1>2, <1>3, <1>4 DEF PayInv

\* What the office enters is no recount: it is overlooked until there is one.
LEMMA EntryKeeps ==
  ASSUME PayInv, NEW what, Enter(what), UNCHANGED <<date, hours, fixes, marked, closeOwed>>
  PROVE  PayInv'
BY DEF PayInv, RowInv, MonthInv, Enter, Behind, CountedDay

LEMMA UploadKeeps ==
  ASSUME PayInv, NEW d \in DayOfMonth, UploadHours(d) \/ OthersUpload(d) PROVE PayInv'
<1>1. /\ UNCHANGED <<date, fixes, dayRow, payRow, missed, overlooked, closeOwed>>
      /\ marked \subseteq marked' /\ marked' \subseteq DayOfMonth /\ (d < date => d \in marked')
      /\ d <= date /\ hours' = [e \in DayOfMonth |-> hours'[e]]
      /\ \A e \in DayOfMonth : e # d => hours'[e] = hours[e]
      /\ d = date \/ d \in marked'
  <2>1. d \in Int /\ date \in Int /\ marked \subseteq DayOfMonth
        /\ hours = [e \in DayOfMonth |-> hours[e]]
    BY DEF PayInv, DayOfMonth
  <2>2. CASE UploadHours(d)
    BY <2>1, <2>2 DEF UploadHours, countVars
  <2>3. CASE OthersUpload(d)
    BY <2>1, <2>3 DEF OthersUpload, countVars, factVars
  <2> QED
    BY <2>2, <2>3
<1>2. RowInv'
  BY <1>1 DEF PayInv, RowInv, Behind, CountedDay
<1>3. MonthInv'
  <2>1. MonthEnd < date => d < date
    BY MonthAssumption DEF DayOfMonth, PayInv
  <2> QED
    BY <1>1, <2>1 DEF MonthInv, WillBe
<1> QED
  BY <1>1, <1>2, <1>3 DEF PayInv

LEMMA TickKeeps == ASSUME PayInv, K06Tick PROVE PayInv'
<1>1. CASE shut /\ marked # {}
  <2>1. /\ UNCHANGED <<date, hours, fixes, closeOwed, dayRow, payRow, overlooked>>
        /\ missed' = missed \cup marked /\ marked' = {}
    BY <1>1 DEF K06Tick, factVars
  <2> QED
    BY <1>1, <2>1 DEF PayInv, RowInv, MonthInv, Behind, CountedDay
<1>2. CASE ~(shut /\ marked # {})
  <2>1. /\ Recount(TickDays, service.active) /\ marked' = {} /\ marked \subseteq TickDays
        /\ UNCHANGED <<date, service, holidays, onLeave, hours, fixes, tracked, shut, closeOwed>>
    BY <1>2 DEF K06Tick, TickDays, factVars
  <2>2. Recount(TickDays, IF service.active THEN TRUE ELSE FALSE)
    BY <2>1 DEF Recount
  <2> QED
    BY <2>1, <2>2, RecountKeeps DEF PayInv
<1> QED
  BY <1>1, <1>2

LEMMA TurnKeeps == ASSUME PayInv, DateTurns PROVE PayInv'
<1>1. /\ date' = date + 1 /\ closeOwed' /\ ~closeOwed
      /\ UNCHANGED <<service, holidays, onLeave, hours, fixes, tracked,
                     dayRow, payRow, missed, overlooked, marked>>
  BY DEF DateTurns, factVars, countVars
<1>2. RowInv'
  <2>1. \A d : Behind(d) => Behind(d)'
    BY <1>1 DEF Behind, PayInv
  <2>2. \A d : CountedDay(d)' = CountedDay(d)
    BY <1>1 DEF CountedDay
  <2> QED
    BY <1>1, <2>1, <2>2 DEF PayInv, RowInv
<1>3. MonthInv'
  <2>1. CASE MonthEnd < date
    <3>1. MonthRow(dayRow)' = MonthRow(dayRow)
      BY <1>1, <2>1, MonthRowSame DEF PayInv
    <3> QED
      BY <1>1, <2>1, <3>1 DEF PayInv, MonthInv, WillBe
  <2>2. CASE ~(MonthEnd < date)
    BY <1>1, <2>2, MonthAssumption DEF PayInv, MonthInv, WillBe
  <2> QED
    BY <2>1, <2>2
<1> QED
  BY <1>1, <1>2, <1>3 DEF PayInv

LEMMA CloseDayKeeps == ASSUME PayInv, K05DayClose PROVE PayInv'
<1>1. /\ Recount({date - 1}, service.active)
      /\ UNCHANGED <<date, service, holidays, onLeave, hours, fixes, tracked, shut, marked>>
  BY DEF K05DayClose, factVars
<1>2. Recount({date - 1}, IF service.active THEN TRUE ELSE FALSE)
  BY <1>1 DEF Recount
<1> QED
  BY <1>1, <1>2, RecountKeeps DEF PayInv

LEMMA MissKeeps == ASSUME PayInv, MissK05 PROVE PayInv'
<1>1. /\ closeOwed /\ ~closeOwed' /\ missed' = missed \cup ({date - 1} \cap DayOfMonth)
      /\ UNCHANGED <<date, service, holidays, onLeave, hours, fixes, tracked,
                     dayRow, payRow, overlooked, marked>>
  BY DEF MissK05, factVars
<1>2. RowInv'
  <2>1. \A d \in DayOfMonth : Behind(d) => Behind(d)'
    BY <1>1 DEF Behind
  <2>2. \A d : CountedDay(d)' = CountedDay(d)
    BY <1>1 DEF CountedDay
  <2> QED
    BY <1>1, <2>1, <2>2 DEF PayInv, RowInv
<1>3. MonthInv'
  <2>1. MonthRow(dayRow)' = MonthRow(dayRow)
    BY <1>1, MonthRowSame DEF PayInv
  <2>2. date = MonthEnd + 1 => missed' # {}
    BY <1>1, MonthAssumption DEF DayOfMonth
  <2> QED
    BY <1>1, <2>1, <2>2 DEF PayInv, MonthInv, WillBe
<1> QED
  BY <1>1, <1>2, <1>3 DEF PayInv

LEMMA AdjustKeeps == ASSUME PayInv, NEW d \in DayOfMonth, NEW n, AdjustDay(d, n) PROVE PayInv'
<1>1. /\ UNCHANGED <<date, service, holidays, onLeave, hours, tracked, marked, shut, closeOwed>>
      /\ fixes' = [e \in DayOfMonth |-> fixes'[e]]
      /\ \A e \in DayOfMonth : e # d => fixes'[e] = fixes[e]
  BY DEF AdjustDay, PayInv
<1>2. CASE Recount({d}, TRUE)
  BY <1>1, <1>2, RecountKeeps
<1>3. CASE ~Recount({d}, TRUE)
  <2>1. missed' = missed \cup {d} /\ UNCHANGED <<dayRow, payRow, overlooked>>
    BY <1>3 DEF AdjustDay
  <2> QED
    BY <1>1, <2>1 DEF PayInv, RowInv, MonthInv, Behind, CountedDay
<1> QED
  BY <1>2, <1>3

LEMMA StillKeeps ==
  ASSUME PayInv, UNCHANGED <<date, factVars, countVars, marked, closeOwed>> PROVE PayInv'
<1>1. MonthRow(dayRow)' = MonthRow(dayRow)
  BY MonthRowSame DEF PayInv, factVars, countVars
<1>2. WillBe' <=> WillBe
  BY DEF WillBe
<1>3. RowInv'
  BY DEF PayInv, RowInv, Behind, CountedDay, factVars, countVars
<1> QED
  BY <1>1, <1>2, <1>3 DEF PayInv, MonthInv, factVars, countVars

(***************************************************************************)
(* The monthly row of a month that is over is what everything on record    *)
(* comes to, or a recount is due, failed, or was followed by an entry: for *)
(* every month, hours that come late and in any order are paid.            *)
(***************************************************************************)
THEOREM LateHoursPaid == PaySpec => []RowFollowsFacts
<1>1. PayInit => PayInv
  <2> SUFFICES ASSUME PayInit PROVE PayInv
    OBVIOUS
  <2>1. date = 1 /\ ~(MonthEnd < date)
    BY MonthAssumption DEF PayInit
  <2> QED
    BY <2>1 DEF PayInit, PayInv, RowInv, MonthInv
<1>2. PayInv /\ [PayNext]_payVars => PayInv'
  <2> SUFFICES ASSUME PayInv, [PayNext]_payVars PROVE PayInv'
    OBVIOUS
  <2>1. ASSUME NEW d \in DayOfMonth,
               EnterLeave(d) \/ EnterHoliday(d) \/ ChangeJoined(d) \/ Deactivate(d)
        PROVE  PayInv'
    BY <2>1, EntryKeeps DEF EnterLeave, EnterHoliday, ChangeJoined, Deactivate
  <2>2. ASSUME NEW d \in DayOfMonth, NEW n, AdjustDay(d, -n) PROVE PayInv'
    BY <2>2, AdjustKeeps
  <2>3. CASE Reactivate
    BY <2>3, EntryKeeps DEF Reactivate
  <2>4. CASE CloseThisMonth \/ ReopenThisMonth \/ UNCHANGED payVars
    BY <2>4, StillKeeps DEF CloseThisMonth, ReopenThisMonth, payVars
  <2> QED
    BY <2>1, <2>2, <2>3, <2>4, UploadKeeps, TickKeeps, TurnKeeps, CloseDayKeeps, MissKeeps
    DEF PayNext, Office
<1>3. PayInv => RowFollowsFacts
  <2> SUFFICES ASSUME PayInv, MonthEnd < date, ~WillBe, missed = {}, overlooked = {}
               PROVE  payRow = CountedNow
    BY DEF RowFollowsFacts
  <2>1. payRow = MonthRow(dayRow)
    BY DEF PayInv, MonthInv
  <2>2. \A d \in DayOfMonth : ~Behind(d)
    BY MonthAssumption DEF Behind, WillBe, DayOfMonth, PayInv
  <2>3. \A d \in DayOfMonth : dayRow[d] = NoRow \/ (dayRow[d].there /\ dayRow[d] = CountedDay(d))
    BY <2>2 DEF PayInv, RowInv
  <2>4. \A d \in DayOfMonth : dayRow[d] = IF dayRow[d].there THEN CountedDay(d) ELSE NoRow
    BY <2>3 DEF NoRow
  <2>5. dayRow = [d \in DayOfMonth |-> IF dayRow[d].there THEN CountedDay(d) ELSE NoRow]
    BY <2>4 DEF PayInv
  <2> QED
    BY <2>1, <2>5 DEF CountedNow
<1> QED
  BY <1>1, <1>2, <1>3, PTL DEF PaySpec

-----------------------------------------------------------------------------
\* The backups.

Steps == {"dump", "rename sha", "rename file", "copy", "verify", "rotate", "rotate copy", "record"}
JobRecord == [at : Steps, night : Nights, error : BOOLEAN, copy : {"none", "ok", "failed"}]

BackupShape ==
  /\ time \in 0 .. MaxTime /\ main \subseteq Nights /\ sidecars \subseteq Nights
  /\ parts \subseteq Nights /\ partShas \subseteq Nights /\ made \subseteq Nights /\ copied \subseteq Nights
  /\ copies \in [Nights -> {"none", "torn", "whole"}]
  /\ drive \in BOOLEAN /\ due \in BOOLEAN /\ failures \in 0 .. MaxFailures
  /\ state \in [tried : Nights \cup {NoTime}, outcome : {"none", "ok", "failed"},
                success : Nights \cup {NoTime}, copy : {"none", "ok", "failed"}]
  /\ job = Resting \/ job \in JobRecord

\* What is there was made or begun, by now.
PastInv ==
  /\ main \subseteq made /\ \A t \in Nights : copies[t] # "none" => t \in copied
  /\ \A t \in made \cup copied : t <= time

\* Only rotation takes the digest of a dump, and only with a dump that is old enough.
DigestInv == \A t \in main : t \in sidecars \/ t < time - KeepFor

\* A run is tonight's; what it has done by each of its steps.
RunInv ==
  /\ state.success <= time
  /\ due \/ job # Resting => time \in Nights /\ state.success < time
  /\ job # Resting =>
       /\ ~due /\ job.night = time
       /\ job.at = "rename file" => job.night \in sidecars
       /\ job.at \notin {"rotate", "rotate copy", "record"} => ~job.error
       /\ job.at \notin {"dump", "rename sha", "rename file"} /\ ~job.error => job.night \in main
       /\ job.at \in {"rotate", "rotate copy", "record"} /\ ~job.error =>
            /\ job.copy \in {"ok", "failed"}
            /\ job.copy = "ok" => copies[job.night] = "whole"

\* A success on record is restorable for as long as it is fresh, if its copy was good.
RecordInv ==
  state.outcome = "ok" =>
    /\ state.success \in Nights /\ state.success <= time /\ state.copy \in {"ok", "failed"}
    /\ state.copy = "ok" /\ Fresh(state.success) => Restorable(state.success)

\* What rotation may delete is no longer fresh: it is kept for longer, or there are two
\* newer ones and a dump of the night before last is not fresh.
Lasting == StaleAfter <= KeepFor + 1 \/ (KeepMin >= 2 /\ StaleAfter <= 4)

BackupInv ==
  /\ BackupShape /\ PastInv /\ DigestInv /\ RunInv /\ BackupsKept
  /\ Lasting => RecordInv

LEMMA NightsFinite == IsFiniteSet(Nights)
<1>1. IsFiniteSet(0 .. MaxTime)
  BY FS_Interval, BackupsAssumption
<1> QED
  BY <1>1, FS_Subset DEF Nights

LEMMA NewerCount ==
  ASSUME NEW S \in SUBSET Nights, NEW T \in SUBSET S, NEW t
  PROVE  /\ Cardinality(Newer(t, S)) \in Nat /\ Cardinality(Newer(t, T)) \in Nat
         /\ Cardinality(Newer(t, T)) <= Cardinality(Newer(t, S))
<1>1. Newer(t, T) \subseteq Newer(t, S) /\ Newer(t, S) \subseteq Nights
  BY DEF Newer
<1> QED
  BY <1>1, NightsFinite, FS_Subset, FS_CardinalityType

\* Rotation keeps what has KeepMin newer ones, and so does a dump that comes on top.
LEMMA KeptStays ==
  ASSUME NEW ever \in SUBSET Nights, NEW more \in SUBSET Nights, ever \subseteq more,
         NEW files, NEW left, Kept(ever, files), more \ left \subseteq ever,
         files \subseteq ever,
         \A t \in files \ left : Cardinality(Newer(t, files)) >= KeepMin
  PROVE  Kept(more, left)
<1> SUFFICES ASSUME NEW t \in more \ left PROVE Cardinality(Newer(t, more)) >= KeepMin
  BY DEF Kept
<1>1. t \in ever /\ KeepMin \in Nat
  BY BackupsAssumption
<1>2. CASE t \in files
  BY <1>1, <1>2, NewerCount
<1>3. CASE t \notin files
  <2>1. Cardinality(Newer(t, ever)) >= KeepMin
    BY <1>1, <1>3 DEF Kept
  <2> QED
    BY <1>1, <2>1, NewerCount
<1> QED
  BY <1>2, <1>3

\* What is doomed is not fresh.
LEMMA DoomedIsStale ==
  ASSUME BackupShape, Lasting, NEW files \in SUBSET Nights, \A t \in files : t <= time,
         NEW t \in Doomed(files)
  PROVE  ~Fresh(t)
<1> USE BackupsAssumption
<1>1. /\ t \in Nights /\ t \in Nat /\ time \in Nat /\ t < time - KeepFor
      /\ Cardinality(Newer(t, files)) >= KeepMin
  BY DEF Doomed, BackupShape, Nights
<1>2. CASE StaleAfter <= KeepFor + 1
  BY <1>1, <1>2 DEF Fresh
<1>3. CASE KeepMin >= 2 /\ StaleAfter <= 4
  <2>1. \E u \in files : u >= t + 4
    <3> SUFFICES ASSUME \A u \in files : u < t + 4 PROVE FALSE
      BY <1>1 DEF Nights
    <3>1. Newer(t, files) \subseteq {t + 2}
      <4> SUFFICES ASSUME NEW u \in files, u > t PROVE u = t + 2
        BY DEF Newer
      <4>1. u \in Nat /\ u % 2 = 0 /\ t % 2 = 0 /\ u < t + 4
        BY <1>1 DEF Nights
      <4> QED
        BY <4>1, <1>1
    <3>2. Cardinality({t + 2}) = 1 /\ IsFiniteSet({t + 2})
      BY FS_Singleton
    <3>3. Cardinality(Newer(t, files)) <= 1
      BY <3>1, <3>2, FS_Subset
    <3>4. Cardinality(Newer(t, files)) \in Nat
      BY NewerCount
    <3> QED
      BY <3>3, <3>4, <1>1, <1>3
  <2> QED
    BY <2>1, <1>1, <1>3 DEF Fresh, Nights
<1> QED
  BY <1>2, <1>3 DEF Lasting

LEMMA BackupInitInv == BackupsInit => BackupInv
<1> SUFFICES ASSUME BackupsInit PROVE BackupInv
  OBVIOUS
<1> USE BackupsAssumption DEF BackupsInit, NoTime, NoState, Resting
<1>0. 0 \in Nights
  BY DEF Nights
<1>1. BackupShape
  BY <1>0 DEF BackupShape
<1>2. PastInv /\ DigestInv
  BY DEF PastInv, DigestInv
<1>3. RunInv
  BY <1>0 DEF RunInv
<1>4. BackupsKept
  BY DEF BackupsKept, Kept, OnDrive
<1>5. RecordInv
  BY DEF RecordInv
<1> QED
  BY <1>1, <1>2, <1>3, <1>4, <1>5 DEF BackupInv

LEMMA FilesStay ==
  ASSUME BackupInv, UNCHANGED <<time, main, copies, state, made, copied>>,
         sidecars \subseteq sidecars', BackupShape', RunInv'
  PROVE  BackupInv'
<1>1. PastInv' /\ DigestInv'
  BY DEF BackupInv, PastInv, DigestInv
<1>2. BackupsKept'
  BY DEF BackupInv, BackupsKept, Kept, OnDrive
<1>3. Lasting => RecordInv'
  BY DEF BackupInv, RecordInv, Fresh, Restorable
<1> QED
  BY <1>1, <1>2, <1>3 DEF BackupInv

LEMMA JobAtWork ==
  ASSUME BackupInv, job.at # "rest"
  PROVE  job \in JobRecord /\ job # Resting /\ job.night = time /\ time \in Nights
<1>1. job # Resting
  BY DEF Resting
<1>2. job \in JobRecord
  BY <1>1 DEF BackupInv, BackupShape
<1> QED
  BY <1>1, <1>2 DEF BackupInv, RunInv

\* The steps that leave the dumps, the copies and the record as they are.
LEMMA PrepareKeeps ==
  ASSUME BackupInv,
         StartBackup \/ Dump \/ DumpFails \/ RenameSha \/ RenameFails \/ Verify \/ Plug
  PROVE  BackupInv'
<1> USE BackupsAssumption DEF Goes, Fault, Quietly, fileVars
<1>1. BackupShape /\ RunInv
  BY DEF BackupInv
<1>2. CASE StartBackup
  <2>1. job' = [at |-> "dump", night |-> time, error |-> FALSE, copy |-> "none"] /\ time \in Nights
    BY <1>1, <1>2 DEF StartBackup, RunInv
  <2>2. job' \in JobRecord /\ job'.at = "dump" /\ job'.night = time /\ ~job'.error
    BY <2>1 DEF JobRecord, Steps
  <2>3. BackupShape'
    BY <1>1, <1>2, <2>2 DEF StartBackup, BackupShape
  <2>4. RunInv'
    BY <1>1, <1>2, <2>1, <2>2 DEF StartBackup, RunInv
  <2> QED
    BY <1>2, <2>3, <2>4, FilesStay DEF StartBackup
<1>3. CASE Dump
  <2>1. /\ job \in JobRecord /\ job # Resting /\ job.night = time /\ time \in Nights
        /\ job.at = "dump" /\ job' = [job EXCEPT !.at = "rename sha"]
    BY <1>3, JobAtWork DEF Dump
  <2>2. /\ job' \in JobRecord /\ job'.at = "rename sha" /\ job'.night = job.night /\ job'.error = job.error
    BY <2>1 DEF JobRecord, Steps
  <2>3. BackupShape'
    BY <1>1, <1>3, <2>1, <2>2 DEF Dump, BackupShape, JobRecord
  <2>4. RunInv'
    BY <1>1, <1>3, <2>1, <2>2 DEF Dump, RunInv
  <2> QED
    BY <1>3, <2>3, <2>4, FilesStay DEF Dump
<1>4. CASE DumpFails \/ RenameFails
  <2>1. /\ job \in JobRecord /\ job # Resting /\ job.night = time /\ time \in Nights
        /\ job' = [at |-> "rotate", night |-> job.night, error |-> TRUE, copy |-> job.copy]
    BY <1>4, JobAtWork DEF DumpFails, RenameFails
  <2>2. job' \in JobRecord /\ job'.at = "rotate" /\ job'.night = job.night /\ job'.error
    BY <2>1 DEF JobRecord, Steps
  <2>5. parts' \subseteq parts \cup {time} /\ partShas' \subseteq partShas /\ failures' \in 0 .. MaxFailures
    <3>4. failures < MaxFailures /\ failures' = failures + 1
      BY <1>4 DEF DumpFails, RenameFails
    <3>1. failures' \in 0 .. MaxFailures
      BY <1>1, <3>4 DEF BackupShape
    <3>2. CASE DumpFails
      BY <3>1, <3>2, <2>1 DEF DumpFails
    <3>3. CASE RenameFails
      BY <3>1, <3>3, <2>1 DEF RenameFails
    <3> QED
      BY <1>4, <3>2, <3>3
  <2>6. UNCHANGED <<time, main, sidecars, copies, drive, due, state, made, copied>>
    BY <1>4 DEF DumpFails, RenameFails
  <2>3. BackupShape'
    BY <1>1, <2>1, <2>2, <2>5, <2>6 DEF BackupShape
  <2>4. RunInv'
    BY <1>1, <2>1, <2>2, <2>6 DEF RunInv
  <2> QED
    BY <2>3, <2>4, <2>6, FilesStay
<1>5. CASE RenameSha
  <2>1. /\ job \in JobRecord /\ job # Resting /\ job.night = time /\ time \in Nights
        /\ job.at = "rename sha" /\ job' = [job EXCEPT !.at = "rename file"]
    BY <1>5, JobAtWork DEF RenameSha
  <2>2. job' \in JobRecord /\ job'.at = "rename file" /\ job'.night = job.night /\ job'.error = job.error
    BY <2>1 DEF JobRecord, Steps
  <2>3. BackupShape'
    BY <1>1, <1>5, <2>1, <2>2 DEF RenameSha, BackupShape, JobRecord
  <2>4. RunInv'
    BY <1>1, <1>5, <2>1, <2>2 DEF RenameSha, RunInv
  <2> QED
    BY <1>5, <2>3, <2>4, FilesStay DEF RenameSha
<1>6. CASE Verify
  <2>1. PICK good \in {"ok", "failed"} :
          /\ job \in JobRecord /\ job.at = "verify"
          /\ job' = [at |-> "rotate", night |-> job.night, error |-> job.error, copy |-> good]
          /\ good = "ok" => copies[job.night] = "whole"
    BY <1>1, <1>6 DEF Verify, Verified, BackupShape, Resting
  <2>2. /\ job' \in JobRecord /\ job'.at = "rotate" /\ job'.night = job.night
        /\ job'.error = job.error /\ job'.copy = good
    BY <2>1 DEF JobRecord, Steps
  <2>3. BackupShape'
    BY <1>1, <1>6, <2>1, <2>2 DEF Verify, BackupShape, JobRecord
  <2>4. RunInv'
    BY <1>1, <1>6, <2>1, <2>2 DEF Verify, RunInv, Resting
  <2> QED
    BY <1>6, <2>3, <2>4, FilesStay DEF Verify
<1>7. CASE Plug
  <2>1. BackupShape'
    BY <1>1, <1>7 DEF Plug, BackupShape
  <2>2. RunInv'
    BY <1>1, <1>7 DEF Plug, RunInv
  <2> QED
    BY <1>7, <2>1, <2>2, FilesStay DEF Plug
<1> QED
  BY <1>2, <1>3, <1>4, <1>5, <1>6, <1>7

LEMMA RenameFileKeeps == ASSUME BackupInv, RenameFile PROVE BackupInv'
<1> USE BackupsAssumption
<1>1. BackupShape /\ RunInv /\ PastInv
  BY DEF BackupInv
<1>0. /\ UNCHANGED <<time, sidecars, partShas, copies, drive, due, state, failures, copied>>
      /\ parts' = parts \ {job.night} /\ main' = main \cup {job.night} /\ made' = made \cup {job.night}
  BY DEF RenameFile
<1>2. /\ job \in JobRecord /\ job' = [job EXCEPT !.at = "copy"] /\ job.at = "rename file"
      /\ job.night = time /\ time \in Nights /\ job # Resting
      /\ time \in sidecars /\ ~job.error
  BY <1>1, JobAtWork DEF RunInv, RenameFile, Goes
<1>3. job' \in JobRecord /\ job'.at = "copy" /\ job'.night = time /\ job'.error = job.error
  BY <1>2 DEF JobRecord, Steps
<1>a. /\ UNCHANGED <<time, sidecars, partShas, copies, drive, due, state, failures, copied>>
      /\ parts' \subseteq parts /\ main' = main \cup {time} /\ made' = made \cup {time}
      /\ time \in Nights
  BY <1>0, <1>2
<1>4. BackupShape'
  BY <1>1, <1>3, <1>a DEF BackupShape
<1>5. PastInv' /\ DigestInv'
  <2>1. UNCHANGED <<time, copies, copied, sidecars>> /\ main' = main \cup {time} /\ made' = made \cup {time}
    BY <1>0, <1>2
  <2>2. PastInv'
    <3>1. time <= time
      BY <1>1 DEF BackupShape
    <3> QED
      BY <1>1, <2>1, <3>1 DEF PastInv
  <2>3. DigestInv'
    BY <1>2, <2>1 DEF BackupInv, DigestInv
  <2> QED
    BY <2>2, <2>3
<1>6. RunInv'
  <2>1. state.success <= time /\ state.success < time /\ ~due /\ ~job.error
    BY <1>1, <1>2 DEF RunInv
  <2> QED
    BY <1>3, <1>a, <2>1 DEF RunInv
<1>7. BackupsKept'
  <2>1. Kept(made', main')
    <3>1. made \subseteq made' /\ made' \in SUBSET Nights /\ made \in SUBSET Nights
          /\ made' \ main' \subseteq made /\ main \subseteq made
          /\ \A t \in main \ main' : Cardinality(Newer(t, main)) >= KeepMin
      BY <1>0, <1>1, <1>2 DEF BackupShape, PastInv
    <3>2. Kept(made, main)
      BY DEF BackupInv, BackupsKept
    <3> QED
      BY <3>1, <3>2, KeptStays
  <2> QED
    BY <2>1, <1>a DEF BackupInv, BackupsKept, OnDrive, Kept
<1>8. Lasting => RecordInv'
  BY <1>0, <1>1, <1>2 DEF BackupInv, RecordInv, Fresh, Restorable
<1> QED
  BY <1>4, <1>5, <1>6, <1>7, <1>8 DEF BackupInv

LEMMA CopyKeeps == ASSUME BackupInv, Copy PROVE BackupInv'
<1> USE BackupsAssumption DEF Goes, Copy, Fault, Quietly
<1>1. BackupShape /\ RunInv /\ PastInv
  BY DEF BackupInv
<1>2. /\ job \in JobRecord /\ job.at = "copy" /\ job.night = time /\ time \in Nights /\ job # Resting
      /\ ~job.error /\ time \in main
  BY <1>1, JobAtWork DEF RunInv
<1>3. CASE drive
  <2>1. PICK quality \in {"torn", "whole"} :
          /\ copies' = [copies EXCEPT ![time] = quality] /\ copied' = copied \cup {time}
          /\ job' = [job EXCEPT !.at = "verify"] /\ failures' \in 0 .. MaxFailures
    BY <1>1, <1>2, <1>3 DEF BackupShape
  <2>2. job' \in JobRecord /\ job'.at = "verify" /\ job'.night = time /\ job'.error = job.error
    BY <1>2, <2>1 DEF JobRecord, Steps
  <2>3. UNCHANGED <<time, main, sidecars, parts, partShas, drive, due, state, made>>
    OBVIOUS
  <2>4. BackupShape'
    BY <1>1, <1>2, <2>1, <2>2, <2>3 DEF BackupShape
  <2>5. PastInv' /\ DigestInv'
    BY <1>1, <1>2, <2>1, <2>3 DEF BackupInv, PastInv, DigestInv, BackupShape
  <2>6. RunInv'
    BY <1>1, <1>2, <2>2, <2>3 DEF RunInv
  <2>7. BackupsKept'
    <3>1. Kept(copied', OnDrive')
      <4>1. copied \subseteq copied' /\ copied' \in SUBSET Nights /\ copied \in SUBSET Nights
        BY <1>1, <1>2, <2>1 DEF BackupShape
      <4>2. copied' \ OnDrive' \subseteq copied /\ OnDrive \subseteq OnDrive'
        BY <1>1, <1>2, <2>1 DEF BackupShape, OnDrive
      <4>3. OnDrive \subseteq copied
        BY <1>1 DEF PastInv, OnDrive
      <4>4. Kept(copied, OnDrive)
        BY DEF BackupInv, BackupsKept
      <4> QED
        BY <4>1, <4>2, <4>3, <4>4, KeptStays
    <3> QED
      BY <3>1, <2>3 DEF BackupInv, BackupsKept, Kept
  <2>8. Lasting => RecordInv'
    <3>1. \A t \in Nights : t # time => copies'[t] = copies[t]
      BY <1>1, <2>1 DEF BackupShape
    <3>2. state.success < time
      BY <1>1, <1>2 DEF RunInv
    <3> QED
      BY <1>1, <2>3, <3>1, <3>2 DEF BackupInv, RecordInv, Fresh, Restorable, Nights
  <2> QED
    BY <2>4, <2>5, <2>6, <2>7, <2>8 DEF BackupInv
<1>4. CASE ~drive
  <2>1. /\ job' = [at |-> "rotate", night |-> job.night, error |-> job.error, copy |-> "failed"]
        /\ UNCHANGED <<time, fileVars, drive, due, state, failures, made, copied>>
    BY <1>4 DEF fileVars
  <2>2. /\ job' \in JobRecord /\ job'.at = "rotate" /\ job'.night = job.night
        /\ job'.error = job.error /\ job'.copy = "failed"
    BY <1>2, <2>1 DEF JobRecord, Steps
  <2>3. BackupShape'
    BY <1>1, <2>1, <2>2 DEF BackupShape, fileVars
  <2>4. RunInv'
    BY <1>1, <1>2, <2>1, <2>2 DEF RunInv, fileVars
  <2> QED
    BY <2>1, <2>3, <2>4, FilesStay DEF fileVars
<1> QED
  BY <1>3, <1>4

LEMMA RotateMainKeeps == ASSUME BackupInv, RotateMain PROVE BackupInv'
<1> USE BackupsAssumption
<1>1. BackupShape /\ RunInv /\ PastInv /\ DigestInv
  BY DEF BackupInv
<1>2. /\ job \in JobRecord /\ job.at = "rotate" /\ job.night = time /\ time \in Nights /\ job # Resting
      /\ job' = [job EXCEPT !.at = "rotate copy"]
      /\ UNCHANGED <<time, copies, drive, due, state, made, copied>>
  BY JobAtWork DEF RotateMain, Goes
<1>3. PICK gone \in SUBSET Doomed(main) :
        /\ Quietly(gone = Doomed(main))
        /\ main' = main \ gone /\ parts' = parts \ StaleParts /\ partShas' = partShas \ StaleParts
        /\ sidecars' = (sidecars \ Doomed(main)) \ OrphanSidecars(main \ gone, parts \ StaleParts)
  BY DEF RotateMain
<1>4. \A t \in Doomed(main) : t \in main /\ Cardinality(Newer(t, main)) >= KeepMin /\ t < time - KeepFor
  BY DEF Doomed
<1>5. job' \in JobRecord /\ job'.at = "rotate copy" /\ job'.night = time
      /\ job'.error = job.error /\ job'.copy = job.copy
  BY <1>2 DEF JobRecord, Steps
<1>6. failures' \in 0 .. MaxFailures
  BY <1>1, <1>3 DEF Quietly, Fault, BackupShape
<1>7. BackupShape'
  BY <1>1, <1>2, <1>3, <1>5, <1>6 DEF BackupShape
<1>8. PastInv'
  BY <1>1, <1>2, <1>3 DEF PastInv
<1>9. DigestInv'
  BY <1>1, <1>2, <1>3, <1>4 DEF DigestInv, OrphanSidecars
<1>10. time \notin Doomed(main)
  BY <1>1, <1>4 DEF BackupShape
<1>11. RunInv'
  <2>1. time \in main => time \in main'
    BY <1>3, <1>10
  <2> QED
    BY <1>1, <1>2, <1>5, <2>1 DEF RunInv
<1>12. BackupsKept'
  <2>1. Kept(made, main)
    BY DEF BackupInv, BackupsKept
  <2>2. Kept(made, main')
    <3>1. made \in SUBSET Nights /\ made \ main' \subseteq made /\ main \subseteq made
          /\ \A t \in main \ main' : Cardinality(Newer(t, main)) >= KeepMin
      BY <1>1, <1>3, <1>4 DEF BackupShape, PastInv
    <3> QED
      BY <2>1, <3>1, KeptStays
  <2>3. Kept(copied, OnDrive)' 
    BY <1>2 DEF BackupInv, BackupsKept, Kept, OnDrive
  <2> QED
    BY <2>2, <2>3, <1>2 DEF BackupsKept, Kept
<1>13. Lasting => RecordInv'
  <2>1. SUFFICES ASSUME Lasting PROVE RecordInv'
    OBVIOUS
  <2>2. \A t \in main \ main' : ~Fresh(t)
    BY <1>1, <1>3, <2>1, DoomedIsStale DEF BackupShape, PastInv
  <2> QED
    BY <1>2, <2>1, <2>2 DEF BackupInv, RecordInv, Fresh, Restorable
<1> QED
  BY <1>7, <1>8, <1>9, <1>11, <1>12, <1>13 DEF BackupInv

LEMMA RotateCopyKeeps == ASSUME BackupInv, RotateCopy PROVE BackupInv'
<1> USE BackupsAssumption
<1>1. BackupShape /\ RunInv /\ PastInv /\ DigestInv
  BY DEF BackupInv
<1>2. /\ job \in JobRecord /\ job.at = "rotate copy" /\ job.night = time /\ time \in Nights /\ job # Resting
      /\ job' = [job EXCEPT !.at = "record"]
      /\ UNCHANGED <<time, main, sidecars, parts, partShas, drive, due, state, made, copied>>
  BY JobAtWork DEF RotateCopy, Goes
<1>3. PICK gone \in SUBSET Doomed(OnDrive) :
        /\ IF drive THEN Quietly(gone = Doomed(OnDrive)) ELSE gone = {} /\ UNCHANGED failures
        /\ copies' = [t \in Nights |-> IF t \in gone THEN "none" ELSE copies[t]]
  BY DEF RotateCopy
<1>4. \A t \in Doomed(OnDrive) : t \in OnDrive /\ Cardinality(Newer(t, OnDrive)) >= KeepMin /\ t < time - KeepFor
  BY DEF Doomed
<1>5. job' \in JobRecord /\ job'.at = "record" /\ job'.night = time
      /\ job'.error = job.error /\ job'.copy = job.copy
  BY <1>2 DEF JobRecord, Steps
<1>6. failures' \in 0 .. MaxFailures
  BY <1>1, <1>3 DEF Quietly, Fault, BackupShape
<1>7. BackupShape'
  BY <1>1, <1>2, <1>3, <1>5, <1>6 DEF BackupShape
<1>8. PastInv' /\ DigestInv'
  BY <1>1, <1>2, <1>3 DEF PastInv, DigestInv
<1>9. time \notin Doomed(OnDrive)
  BY <1>1, <1>4 DEF BackupShape
<1>10. RunInv'
  <2>1. copies'[job'.night] = copies[job.night]
    BY <1>2, <1>3, <1>5, <1>9
  <2>2. /\ state.success <= time /\ state.success < time /\ ~due
        /\ ~job.error => time \in main /\ job.copy \in {"ok", "failed"}
                          /\ (job.copy = "ok" => copies[job.night] = "whole")
    BY <1>1, <1>2 DEF RunInv
  <2>3. UNCHANGED <<time, main, due, state>> /\ time \in Nights
    BY <1>2
  <2> QED
    BY <1>5, <2>1, <2>2, <2>3 DEF RunInv
<1>11. OnDrive' \subseteq OnDrive /\ OnDrive \ OnDrive' \subseteq Doomed(OnDrive)
  BY <1>3 DEF OnDrive
<1>12. BackupsKept'
  <2>1. Kept(copied, OnDrive)
    BY DEF BackupInv, BackupsKept
  <2>2. Kept(copied, OnDrive')
    <3>1. copied \in SUBSET Nights /\ copied \ OnDrive' \subseteq copied /\ OnDrive \subseteq copied
          /\ \A t \in OnDrive \ OnDrive' : Cardinality(Newer(t, OnDrive)) >= KeepMin
      BY <1>1, <1>4, <1>11 DEF BackupShape, PastInv, OnDrive
    <3> QED
      BY <2>1, <3>1, KeptStays
  <2>3. Kept(made, main)'
    BY <1>2 DEF BackupInv, BackupsKept, Kept
  <2> QED
    BY <2>2, <2>3, <1>2 DEF BackupsKept, Kept
<1>13. Lasting => RecordInv'
  <2>1. SUFFICES ASSUME Lasting PROVE RecordInv'
    OBVIOUS
  <2>2. \A t \in Doomed(OnDrive) : ~Fresh(t)
    <3>1. OnDrive \in SUBSET Nights /\ \A t \in OnDrive : t <= time
      BY <1>1 DEF OnDrive, PastInv
    <3> QED
      BY <1>1, <2>1, <3>1, DoomedIsStale
  <2>3. \A t \in Nights : Fresh(t) => copies'[t] = copies[t]
    BY <1>3, <2>2
  <2> QED
    BY <1>2, <2>1, <2>3 DEF BackupInv, RecordInv, Fresh, Restorable
<1> QED
  BY <1>7, <1>8, <1>10, <1>12, <1>13 DEF BackupInv

LEMMA RecordKeeps == ASSUME BackupInv, Record PROVE BackupInv'
<1> USE BackupsAssumption
<1>1. BackupShape /\ RunInv /\ PastInv /\ DigestInv
  BY DEF BackupInv
<1>2. /\ job \in JobRecord /\ job.at = "record" /\ job.night = time /\ time \in Nights /\ job # Resting
      /\ job' = Resting
      /\ UNCHANGED <<time, fileVars, drive, due, made, copied>>
  BY JobAtWork DEF Record
<1>3. failures' \in 0 .. MaxFailures
  BY <1>1 DEF Record, Fault, BackupShape
<1>4. state' = state \/ \E prev \in {state, NoState} : state' = Outcome(prev)
  BY DEF Record
<1>5. ASSUME NEW prev \in {state, NoState}, state' = Outcome(prev)
      PROVE  /\ state' \in [tried : Nights \cup {NoTime}, outcome : {"none", "ok", "failed"},
                            success : Nights \cup {NoTime}, copy : {"none", "ok", "failed"}]
             /\ state'.outcome = "ok" => ~job.error /\ state'.success = time /\ state'.copy = job.copy
  <2>1. prev.success \in Nights \cup {NoTime} /\ prev.copy \in {"none", "ok", "failed"}
    BY <1>1 DEF BackupShape, NoState
  <2>2. job.copy \in {"none", "ok", "failed"} /\ job.error \in BOOLEAN
    BY <1>2 DEF JobRecord
  <2> QED
    BY <1>2, <1>5, <2>1, <2>2 DEF Outcome
<1>6. BackupShape'
  <2>1. state' \in [tried : Nights \cup {NoTime}, outcome : {"none", "ok", "failed"},
                    success : Nights \cup {NoTime}, copy : {"none", "ok", "failed"}]
    BY <1>1, <1>4, <1>5 DEF BackupShape
  <2> QED
    BY <1>1, <1>2, <1>3, <2>1 DEF BackupShape, fileVars
<1>7. PastInv' /\ DigestInv'
  BY <1>1, <1>2 DEF PastInv, DigestInv, fileVars
<1>8. RunInv'
  <2>1. ~due' /\ job' = Resting /\ time' = time
    BY <1>1, <1>2 DEF RunInv
  <2>2. state'.success <= time
    <3>3. state.success <= time
      BY <1>1 DEF RunInv
    <3>1. NoTime <= time /\ time <= time
      BY <1>1 DEF BackupShape, NoTime
    <3>2. state'.success \in {state.success, NoTime, time}
      BY <1>2, <1>4 DEF Outcome, NoState
    <3> QED
      BY <3>1, <3>2, <3>3
  <2> QED
    BY <2>1, <2>2 DEF RunInv
<1>9. BackupsKept'
  BY <1>2 DEF BackupInv, BackupsKept, Kept, OnDrive, fileVars
<1>10. Lasting => RecordInv'
  <2>1. SUFFICES ASSUME Lasting PROVE RecordInv'
    OBVIOUS
  <2>2. CASE state' = state
    BY <1>2, <2>1, <2>2 DEF BackupInv, RecordInv, Fresh, Restorable, fileVars
  <2>3. CASE \E prev \in {state, NoState} : state' = Outcome(prev)
    <3>1. state'.outcome = "ok" => ~job.error /\ state'.success = time /\ state'.copy = job.copy
      BY <1>5, <2>3
    <3>2. ~job.error => time \in main /\ job.copy \in {"ok", "failed"}
                        /\ (job.copy = "ok" => copies[time] = "whole")
      BY <1>1, <1>2 DEF RunInv
    <3>3. time <= time
      BY <1>1 DEF BackupShape
    <3> QED
      BY <1>2, <3>1, <3>2, <3>3 DEF RecordInv, Restorable, fileVars
  <2> QED
    BY <1>4, <2>2, <2>3
<1> QED
  BY <1>6, <1>7, <1>8, <1>9, <1>10 DEF BackupInv

\* The server stops: the copy on the drive may be torn, tonight's alone.
LEMMA DiesKeeps == ASSUME BackupInv, Dies PROVE BackupInv'
<1> USE BackupsAssumption
<1>1. BackupShape /\ RunInv /\ PastInv /\ DigestInv
  BY DEF BackupInv
<1>2. /\ job # Resting /\ job' = Resting /\ job.night = time /\ time \in Nights
      /\ UNCHANGED <<time, main, sidecars, partShas, drive, due, state, made>>
      /\ parts' \subseteq parts \cup {time}
      /\ failures < MaxFailures /\ failures' = failures + 1
  BY <1>1 DEF Dies, RunInv, Fault
<1>3. \/ copies' = [copies EXCEPT ![time] = "torn"] /\ copied' = copied \cup {time}
      \/ UNCHANGED <<copies, copied>>
  BY <1>2 DEF Dies
<1>4. /\ copies' \in [Nights -> {"none", "torn", "whole"}]
      /\ \A t \in Nights : t # time => copies'[t] = copies[t]
      /\ copied \subseteq copied' /\ copied' \subseteq copied \cup {time}
      /\ \A t \in Nights : copies'[t] # "none" => t \in copied'
      /\ OnDrive \subseteq OnDrive' /\ copied' \ OnDrive' \subseteq copied
  <2>1. CASE copies' = [copies EXCEPT ![time] = "torn"] /\ copied' = copied \cup {time}
    BY <1>1, <1>2, <2>1 DEF BackupShape, PastInv, OnDrive
  <2>2. CASE UNCHANGED <<copies, copied>>
    <3>1. OnDrive' = OnDrive
      BY <2>2 DEF OnDrive
    <3> QED
      BY <1>1, <2>2, <3>1 DEF BackupShape, PastInv
  <2> QED
    BY <1>3, <2>1, <2>2
<1>5. BackupShape'
  BY <1>1, <1>2, <1>4 DEF BackupShape
<1>6. PastInv' /\ DigestInv'
  <2>1. time <= time
    BY <1>1 DEF BackupShape
  <2> QED
    BY <1>1, <1>2, <1>4, <2>1 DEF PastInv, DigestInv
<1>7. RunInv'
  BY <1>1, <1>2 DEF RunInv
<1>8. BackupsKept'
  <2>1. Kept(copied, OnDrive) /\ Kept(made, main)
    BY DEF BackupInv, BackupsKept
  <2>2. copied \in SUBSET Nights /\ copied' \in SUBSET Nights /\ OnDrive \subseteq copied
        /\ \A t \in OnDrive \ OnDrive' : Cardinality(Newer(t, OnDrive)) >= KeepMin
    BY <1>1, <1>4, <1>5 DEF BackupShape, PastInv, OnDrive
  <2>3. Kept(copied', OnDrive')
    BY <2>1, <2>2, <1>4, KeptStays
  <2> QED
    BY <1>2, <2>1, <2>3 DEF BackupsKept, Kept
<1>9. Lasting => RecordInv'
  <2>1. state.success < time
    BY <1>1, <1>2 DEF RunInv
  <2> QED
    BY <1>1, <1>2, <1>4, <2>1 DEF BackupShape, BackupInv, RecordInv, Fresh, Restorable, Nights
<1> QED
  BY <1>5, <1>6, <1>7, <1>8, <1>9 DEF BackupInv

LEMMA TimePassesKeeps == ASSUME BackupInv, TimePasses PROVE BackupInv'
<1> USE BackupsAssumption
<1>1. BackupShape /\ RunInv /\ PastInv /\ DigestInv
  BY DEF BackupInv
<1>2. /\ job = Resting /\ time < MaxTime /\ time' = time + 1 /\ due' = (time + 1 \in Nights)
      /\ UNCHANGED <<main, sidecars, parts, partShas, copies, drive, job, state, failures, made, copied>>
  BY DEF TimePasses, fileVars
<1>3. BackupShape'
  <2>1. due' \in BOOLEAN
    BY <1>2
  <2> QED
    BY <1>1, <1>2, <2>1 DEF BackupShape
<1>4. PastInv'
  <2>1. \A t \in made \cup copied : t <= time + 1
    BY <1>1 DEF PastInv, BackupShape, Nights
  <2> QED
    BY <1>1, <1>2, <2>1 DEF PastInv
<1>5. DigestInv'
  <2> SUFFICES ASSUME NEW t \in main, t \notin sidecars PROVE t < time' - KeepFor
    BY <1>2 DEF DigestInv
  <2>1. t < time - KeepFor /\ t \in Nat /\ time \in Nat
    BY <1>1 DEF DigestInv, BackupShape, Nights
  <2> QED
    BY <1>2, <2>1
<1>6. RunInv'
  <2>1. state.success <= time + 1 /\ state.success < time + 1
    <3>3. state.success <= time
      BY <1>1 DEF RunInv
    <3>1. state.success \in Nights \cup {NoTime} /\ time \in Nat
      BY <1>1 DEF BackupShape
    <3>2. state.success \in Int
      BY <3>1 DEF Nights, NoTime
    <3> QED
      BY <3>1, <3>2, <3>3
  <2> QED
    BY <1>1, <1>2, <2>1 DEF RunInv
<1>7. BackupsKept'
  BY <1>2 DEF BackupInv, BackupsKept, Kept, OnDrive
<1>8. Lasting => RecordInv'
  BY <1>1, <1>2 DEF BackupShape, BackupInv, RecordInv, Fresh, Restorable, Nights, NoTime
<1> QED
  BY <1>3, <1>4, <1>5, <1>6, <1>7, <1>8 DEF BackupInv

LEMMA BackupKept == BackupsSpec => []BackupInv
<1>1. BackupInv /\ [BackupsNext]_backupVars => BackupInv'
  <2> SUFFICES ASSUME BackupInv, [BackupsNext]_backupVars PROVE BackupInv'
    OBVIOUS
  <2>1. CASE BackupsNext
    BY <2>1, PrepareKeeps, RenameFileKeeps, CopyKeeps, RotateMainKeeps, RotateCopyKeeps,
       RecordKeeps, DiesKeeps, TimePassesKeeps DEF BackupsNext
  <2>2. CASE UNCHANGED backupVars
    <3> USE <2>2 DEF backupVars, fileVars
    <3>1. BackupShape' /\ PastInv' /\ DigestInv'
      BY DEF BackupInv, BackupShape, PastInv, DigestInv
    <3>2. RunInv' /\ BackupsKept'
      BY DEF BackupInv, RunInv, BackupsKept, Kept, OnDrive
    <3>3. Lasting => RecordInv'
      BY DEF BackupInv, RecordInv, Fresh, Restorable
    <3> QED
      BY <3>1, <3>2, <3>3 DEF BackupInv
  <2> QED
    BY <2>1, <2>2
<1> QED
  BY <1>1, BackupInitInv, PTL DEF BackupsSpec

\* However many nights fail: no dump is without its digest, but one that rotation failed
\* to delete (backup.service.ts:230-236); and the newest KeepMin dumps ever made, and as many
\* copies, are never rotated away (ops.rules.ts:118-129).
THEOREM NewestKept == BackupsSpec => [](BackupsTypeOK /\ BackupsKept)
<1>1. BackupInv => BackupsTypeOK /\ BackupsKept
  <2> SUFFICES ASSUME BackupInv PROVE BackupsTypeOK
    BY DEF BackupInv
  <2>1. /\ time \in 0..MaxTime /\ main \subseteq Nights
        /\ {sidecars, parts, partShas, made, copied} \subseteq SUBSET Nights
        /\ copies \in [Nights -> {"none", "torn", "whole"}]
        /\ state \in [tried : Nights \cup {NoTime}, outcome : {"none", "ok", "failed"},
                      success : Nights \cup {NoTime}, copy : {"none", "ok", "failed"}]
        /\ failures \in 0..MaxFailures
    BY DEF BackupInv, BackupShape
  <2>2. {drive, due} \subseteq BOOLEAN
    BY Zenon DEF BackupInv, BackupShape
  <2>3. job.at \in {"rest", "dump", "rename sha", "rename file", "copy", "verify",
                    "rotate", "rotate copy", "record"}
    <3>1. CASE job = Resting
      BY <3>1 DEF Resting
    <3>2. CASE job \in JobRecord
      BY <3>2 DEF JobRecord, Steps
    <3> QED
      BY <3>1, <3>2 DEF BackupInv, BackupShape
  <2> QED
    BY <2>1, <2>2, <2>3 DEF BackupInv, DigestInv, BackupsTypeOK
<1> QED
  BY <1>1, BackupKept, PTL

\* Where rotation keeps what is fresh, as it does with the periods of ops.constants.ts for
\* every BACKUP_KEEP_DAYS: when a recorded success lets backupVerdict say nothing, there is
\* a fresh dump that can be restored from the disk and from the drive (ops.rules.ts:248-311).
THEOREM SilenceMeansBackup == Lasting => (BackupsSpec => []BackupsGood)
<1> SUFFICES ASSUME Lasting PROVE BackupsSpec => []BackupsGood
  OBVIOUS
<1>1. BackupInv => BackupsGood
  <2> SUFFICES ASSUME BackupInv PROVE SilenceIsGood
    BY DEF BackupInv, BackupsGood
  <2>1. SUFFICES ASSUME AllIsWell PROVE \E t \in Nights : Fresh(t) /\ Restorable(t)
    BY DEF SilenceIsGood
  <2> QED
    BY <2>1 DEF AllIsWell, BackupInv, RecordInv
<1> QED
  BY <1>1, BackupKept, PTL

-----------------------------------------------------------------------------
\* The sheet of the month.

Figure(f, d) == f[d].hours + f[d].fixes

\* A sum over a finite set, as the function of its subsets that MapThenSumSet takes it for.
OneOf(s)   == CHOOSE x \in s : TRUE
IsSumOf(f, s, sum) == sum[s] = IF s = {} THEN 0 ELSE Figure(f, OneOf(s)) + sum[s \ {OneOf(s)}]
IsSum(f, S, sum) ==
  sum = [s \in SUBSET S |-> IF s = {} THEN 0 ELSE Figure(f, OneOf(s)) + sum[s \ {OneOf(s)}]]

SumOver(f, S) == MapThenSumSet(LAMBDA d : f[d].hours + f[d].fixes, S)

LEMMA SumUnfolds ==
  ASSUME NEW S, NEW f
  PROVE  SumOver(f, S) = (CHOOSE sum : IsSum(f, S, sum))[S]
BY DEF SumOver, MapThenSumSet, MapThenFoldSet, IsSum, OneOf, Figure

LEMMA OneLess ==
  ASSUME NEW S, IsFiniteSet(S), NEW s \in SUBSET S
  PROVE  /\ Cardinality(s) \in Nat /\ (Cardinality(s) = 0 <=> s = {})
         /\ s # {} => /\ OneOf(s) \in S /\ s \ {OneOf(s)} \in SUBSET S
                      /\ Cardinality(s \ {OneOf(s)}) = Cardinality(s) - 1
<1>1. IsFiniteSet(s)
  BY FS_Subset
<1>2. s # {} => OneOf(s) \in s
  BY DEF OneOf
<1> QED BY <1>1, <1>2, FS_CardinalityType, FS_EmptySet, FS_RemoveElement

\* There is one: from the sums of the smaller subsets to those of the next size.
LEMMA SumExists ==
  ASSUME NEW S, IsFiniteSet(S), NEW f
  PROVE  \E sum : IsSum(f, S, sum)
<1> DEFINE Upto(n, sum) == \A s \in SUBSET S : Cardinality(s) <= n => IsSumOf(f, s, sum)
           Missing == {n \in Nat : ~\E sum : Upto(n, sum)}
<1>1. Missing = {}
  <2> SUFFICES ASSUME Missing # {} PROVE FALSE
    OBVIOUS
  <2>1. PICK n \in Missing : \A m \in Missing : n <= m
    BY MinIsLeast
  <2>2. n # 0
    <3> DEFINE none == [s \in SUBSET S |-> 0]
    <3>1. ASSUME NEW s \in SUBSET S, Cardinality(s) <= 0 PROVE s = {}
      <4>1. Cardinality(s) \in Nat /\ (Cardinality(s) = 0 <=> s = {})
        BY OneLess
      <4> QED BY <3>1, <4>1
    <3>2. Upto(0, none)
      BY <3>1 DEF IsSumOf
    <3> QED BY <3>2
  <2>3. PICK sum : Upto(n - 1, sum)
    BY <2>1, <2>2
  <2> DEFINE next == [s \in SUBSET S |->
                        IF Cardinality(s) = n THEN Figure(f, OneOf(s)) + sum[s \ {OneOf(s)}] ELSE sum[s]]
  <2>4. ASSUME NEW s \in SUBSET S, Cardinality(s) <= n PROVE IsSumOf(f, s, next)
    <3>1. CASE s = {}
      <4>1. Cardinality(s) = 0
        BY <3>1, OneLess
      <4>2. IsSumOf(f, s, sum) /\ next[s] = sum[s]
        BY <2>2, <2>3, <4>1
      <4> QED BY <3>1, <4>2 DEF IsSumOf
    <3>2. CASE s # {}
      <4> DEFINE r == s \ {OneOf(s)}
      <4>1. /\ Cardinality(s) \in Nat /\ r \in SUBSET S /\ Cardinality(r) = Cardinality(s) - 1
        BY <3>2, OneLess
      <4>2. next[r] = sum[r]
        BY <2>4, <4>1
      <4>3. CASE Cardinality(s) = n
        BY <3>2, <4>2, <4>3 DEF IsSumOf
      <4>4. CASE Cardinality(s) # n
        <5>1. IsSumOf(f, s, sum) /\ next[s] = sum[s]
          BY <2>3, <2>4, <4>1, <4>4
        <5> QED BY <3>2, <4>2, <5>1 DEF IsSumOf
      <4> QED BY <4>3, <4>4
    <3> QED BY <3>1, <3>2
  <2>5. Upto(n, next)
    BY <2>4
  <2> QED BY <2>5
<1>2. Cardinality(S) \in Nat
  BY FS_CardinalityType
<1>3. PICK sum : Upto(Cardinality(S), sum)
  BY <1>1, <1>2
<1>4. \A s \in SUBSET S : IsSumOf(f, s, sum)
  BY <1>3, FS_Subset
<1> DEFINE total == [s \in SUBSET S |-> sum[s]]
<1>5. \A s \in SUBSET S : s \ {OneOf(s)} \in SUBSET S
  OBVIOUS
<1>6. \A s \in SUBSET S : total[s] = IF s = {} THEN 0 ELSE Figure(f, OneOf(s)) + total[s \ {OneOf(s)}]
  BY <1>4, <1>5 DEF IsSumOf
<1>7. total = [s \in SUBSET S |-> IF s = {} THEN 0 ELSE Figure(f, OneOf(s)) + total[s \ {OneOf(s)}]]
  BY <1>6
<1> QED BY <1>7 DEF IsSum

\* A sum of integers is one, and of natural numbers, too.
LEMMA SumStays ==
  ASSUME NEW S, IsFiniteSet(S), NEW f, NEW Sort \in {Nat, Int},
         \A d \in S : Figure(f, d) \in Sort, NEW sum, IsSum(f, S, sum)
  PROVE  sum[S] \in Sort
<1> DEFINE Wrong == {n \in Nat : \E s \in SUBSET S : Cardinality(s) = n /\ sum[s] \notin Sort}
<1>1. Wrong = {}
  <2> SUFFICES ASSUME Wrong # {} PROVE FALSE
    OBVIOUS
  <2>1. PICK n \in Wrong : \A m \in Wrong : n <= m
    BY MinIsLeast
  <2>2. PICK s \in SUBSET S : Cardinality(s) = n /\ sum[s] \notin Sort
    BY <2>1
  <2>3. sum[s] = IF s = {} THEN 0 ELSE Figure(f, OneOf(s)) + sum[s \ {OneOf(s)}]
    BY DEF IsSum
  <2>4. s # {}
    <3>1. 0 \in Sort
      OBVIOUS
    <3> QED
      BY <2>2, <2>3, <3>1
  <2>5. /\ OneOf(s) \in S /\ s \ {OneOf(s)} \in SUBSET S
        /\ Cardinality(s \ {OneOf(s)}) = n - 1 /\ n - 1 \in Nat
    <3>1. /\ Cardinality(s) \in Nat /\ Cardinality(s) # 0 /\ OneOf(s) \in S
          /\ s \ {OneOf(s)} \in SUBSET S /\ Cardinality(s \ {OneOf(s)}) = Cardinality(s) - 1
      BY <2>4, OneLess
    <3> QED
      BY <2>2, <3>1
  <2>6. sum[s \ {OneOf(s)}] \in Sort
    BY <2>1, <2>5
  <2>7. \A x, y \in Sort : x + y \in Sort
    OBVIOUS
  <2> QED BY <2>2, <2>3, <2>4, <2>5, <2>6, <2>7
<1> QED BY <1>1, FS_CardinalityType

LEMMA SumIsInt ==
  ASSUME NEW S, IsFiniteSet(S), NEW f, \A d \in S : Figure(f, d) \in Int
  PROVE  SumOver(f, S) \in Int
<1> DEFINE sum == CHOOSE sum : IsSum(f, S, sum)
<1>1. IsSum(f, S, sum)
  BY SumExists
<1> HIDE DEF sum
<1>2. sum[S] \in Int
  BY <1>1, SumStays
<1> QED BY <1>2, SumUnfolds DEF sum

LEMMA Quotient ==
  ASSUME NEW n \in Int, NEW d \in Nat \ {0}
  PROVE  /\ n \div d \in Int
         /\ d * (n \div d) <= n
         /\ n < d * (n \div d) + d
OBVIOUS
LEMMA QuotientIs ==
  ASSUME NEW n \in Int, NEW d \in Nat \ {0}, NEW q \in Int, d * q <= n, n < d * q + d
  PROVE  n \div d = q
OBVIOUS
LEMMA Product ==
  ASSUME NEW a \in Int, NEW b \in Int, NEW c \in Nat, a <= b
  PROVE  a * c <= b * c /\ c * a <= c * b
OBVIOUS
LEMMA RoundWhole ==
  ASSUME NEW k \in Int, NEW b \in Nat \ {0}
  PROVE  RoundDiv(k * b, b) = k /\ RoundDiv(b * k, b) = k
<1>1. (2 * (k * b) + b) \div (2 * b) = k
  <2>1. k * b \in Int /\ 2 * b \in Nat \ {0} /\ (2 * b) * k = 2 * (k * b)
    OBVIOUS
  <2>2. 2 * (k * b) + b \in Int
    OBVIOUS
  <2> QED BY <2>1, <2>2, QuotientIs
<1>2. b * k = k * b
  OBVIOUS
<1> QED BY <1>1, <1>2 DEF RoundDiv
LEMMA RoundMonotone ==
  ASSUME NEW x \in Int, NEW y \in Int, NEW b \in Nat \ {0}, x <= y
  PROVE  RoundDiv(x, b) \in Int /\ RoundDiv(x, b) <= RoundDiv(y, b)
<1> DEFINE p == (2 * x + b) \div (2 * b)
           q == (2 * y + b) \div (2 * b)
           d == 2 * b
<1>1. /\ p \in Int /\ q \in Int /\ d \in Nat \ {0}
      /\ d * p <= 2 * x + b /\ 2 * y + b < d * q + d
  <2>1. 2 * x + b \in Int /\ 2 * y + b \in Int /\ d \in Nat \ {0}
    OBVIOUS
  <2> HIDE DEF d
  <2> QED BY <2>1, Quotient DEF d
<1> HIDE DEF p, q, d
<1>2. d * p < d * q + d
  BY <1>1
<1>3. p <= q
  <2> SUFFICES ASSUME q + 1 <= p PROVE FALSE
    BY <1>1
  <2>1. d * (q + 1) <= d * p
    BY <1>1, Product
  <2>2. d * (q + 1) = d * q + d
    BY <1>1
  <2>3. d * q \in Int /\ d * p \in Int
    BY <1>1
  <2> QED BY <1>2, <2>1, <2>2, <2>3, <1>1
<1> QED BY <1>1, <1>3 DEF RoundDiv, p, q
\* A daily row, if there is one, has hours and adjustments.
CountedRow(row) == row.there /\ row.hours \in Nat /\ row.fixes \in Int

LinesInv ==
  /\ PayTypeOK
  /\ dayRow = [d \in DayOfMonth |-> dayRow[d]]
  /\ hours \in [DayOfMonth -> Nat] /\ fixes \in [DayOfMonth -> Int]
  /\ \A d \in DayOfMonth : dayRow[d] = NoRow \/ CountedRow(dayRow[d])

LEMMA DaysAre ==
  /\ DayOfMonth \subseteq Nat \ {0} /\ \A d \in DayOfMonth : d <= MonthEnd
  /\ MonthEnd \in Nat \ {0} /\ LastDate \in Nat /\ MonthEnd < LastDate /\ Never = LastDate + 1
BY MonthAssumption DEF DayOfMonth, Never

LEMMA RecountTypes ==
  ASSUME LinesInv, NEW S, NEW counts \in BOOLEAN, Recount(S, counts),
         fixes' \in [DayOfMonth -> Int], marked' \in {marked, {}},
         UNCHANGED <<date, service, holidays, onLeave, hours, tracked>>
  PROVE  LinesInv'
<1>1. \A d \in DayOfMonth : CountedRow(CountedDay(d)')
  BY DEF LinesInv, CountedRow, CountedDay
<1>2. /\ missed' \subseteq DayOfMonth /\ dayRow' = [d \in DayOfMonth |-> dayRow'[d]]
      /\ \A d \in DayOfMonth : dayRow'[d] \in {dayRow[d], CountedDay(d)'}
      /\ payRow' = payRow \/ \E d \in DayOfMonth : dayRow'[d] = CountedDay(d)'
  BY DEF Recount, countVars, LinesInv, PayTypeOK
<1>3. \A d \in DayOfMonth : dayRow'[d] = NoRow \/ CountedRow(dayRow'[d])
  BY <1>1, <1>2 DEF LinesInv
<1>4. \A d \in DayOfMonth : dayRow[d].there => dayRow'[d].there
  BY <1>1, <1>2 DEF CountedRow
<1>5. payRow'.there => \E d \in DayOfMonth : dayRow'[d].there
  BY <1>1, <1>2, <1>4 DEF LinesInv, PayTypeOK, CountedRow
<1> QED BY <1>2, <1>3, <1>5 DEF LinesInv, PayTypeOK

\* Whatever moves neither a row nor a figure.
LEMMA CalmTypes ==
  ASSUME LinesInv, PayTypeOK', UNCHANGED <<dayRow, hours, fixes>>
  PROVE  LinesInv'
BY DEF LinesInv

LEMMA UploadTypes == ASSUME LinesInv, NEW d \in DayOfMonth, UploadHours(d) PROVE LinesInv'
<1>1. /\ d <= date /\ hours' = [hours EXCEPT ![d] = @ + Stint] /\ tracked' = AtMost(tracked, d)
      /\ marked' \in {marked, marked \cup {d}}
      /\ UNCHANGED <<date, service, holidays, onLeave, fixes, dayRow, payRow, missed>>
  BY DEF UploadHours, countVars
<1>2. hours' \in [DayOfMonth -> Nat]
  BY <1>1, PolicyAssumption DEF LinesInv
<1>3. tracked' \in 0 .. MonthEnd \cup {Never} /\ tracked' <= d /\ tracked' <= tracked /\ tracked \in Nat
  BY <1>1, DaysAre DEF LinesInv, PayTypeOK, AtMost
<1>4. \A e \in DayOfMonth : hours'[e] > 0 => e <= date /\ tracked' <= e
  <2> SUFFICES ASSUME NEW e \in DayOfMonth, hours'[e] > 0 PROVE e <= date /\ tracked' <= e
    OBVIOUS
  <2>1. CASE e = d
    BY <1>1, <1>3, <2>1
  <2>2. CASE e # d
    <3>1. hours'[e] = hours[e]
      BY <1>1, <2>2 DEF LinesInv
    <3>2. e <= date /\ tracked <= e /\ e \in Nat /\ tracked \in Nat /\ tracked' \in Nat
      BY <1>3, <3>1, DaysAre DEF LinesInv, PayTypeOK
    <3> QED BY <1>3, <3>2
  <2> QED BY <2>1, <2>2
<1> QED BY <1>1, <1>2, <1>3, <1>4 DEF LinesInv, PayTypeOK

LEMMA TurnTypes == ASSUME LinesInv, DateTurns PROVE LinesInv'
<1>1. /\ date < LastDate /\ date' = date + 1
      /\ UNCHANGED <<service, holidays, onLeave, hours, fixes, tracked, dayRow, payRow, missed, marked>>
  BY DEF DateTurns, factVars, countVars
<1>2. date' \in 1 .. LastDate /\ \A d \in DayOfMonth : d <= date => d <= date'
  BY <1>1, DaysAre DEF LinesInv, PayTypeOK
<1> QED BY <1>1, <1>2 DEF LinesInv, PayTypeOK

LEMMA TickTypes == ASSUME LinesInv, K06Tick PROVE LinesInv'
<1>1. marked' = {} /\ UNCHANGED <<date, service, holidays, onLeave, hours, fixes, tracked>>
  BY DEF K06Tick, factVars
<1>2. CASE shut /\ marked # {}
  <2>1. missed' = missed \cup marked /\ UNCHANGED <<dayRow, payRow>>
    BY <1>2 DEF K06Tick
  <2> QED BY <1>1, <2>1 DEF LinesInv, PayTypeOK
<1>3. CASE ~(shut /\ marked # {})
  <2>1. Recount(TickDays, IF service.active THEN TRUE ELSE FALSE)
    BY <1>3 DEF K06Tick, Recount
  <2> QED BY <1>1, <2>1, RecountTypes DEF LinesInv
<1> QED BY <1>2, <1>3

LEMMA CloseTypes == ASSUME LinesInv, K05DayClose \/ MissK05 PROVE LinesInv'
<1>1. CASE K05DayClose
  <2>1. Recount({date - 1}, IF service.active THEN TRUE ELSE FALSE)
    BY <1>1 DEF K05DayClose, Recount
  <2> QED BY <1>1, <2>1, RecountTypes DEF LinesInv, K05DayClose, factVars
<1>2. CASE MissK05
  BY <1>2 DEF MissK05, factVars, LinesInv, PayTypeOK
<1> QED BY <1>1, <1>2

LEMMA AdjustTypes ==
  ASSUME LinesInv, NEW d \in DayOfMonth, NEW n \in TakenOff, AdjustDay(d, -n) PROVE LinesInv'
<1>1. /\ fixes' = [fixes EXCEPT ![d] = @ + (-n)] /\ n \in Nat
      /\ UNCHANGED <<date, service, holidays, onLeave, hours, tracked, marked>>
  BY PolicyAssumption DEF AdjustDay
<1>2. fixes' \in [DayOfMonth -> Int]
  BY <1>1 DEF LinesInv
<1>3. CASE Recount({d}, TRUE)
  BY <1>1, <1>2, <1>3, RecountTypes
<1>4. CASE missed' = missed \cup {d} /\ UNCHANGED <<dayRow, payRow>>
  BY <1>1, <1>2, <1>4 DEF LinesInv, PayTypeOK
<1> QED BY <1>3, <1>4 DEF AdjustDay

LEMMA EntryTypes ==
  ASSUME LinesInv, NEW d \in DayOfMonth,
         EnterLeave(d) \/ EnterHoliday(d) \/ ChangeJoined(d) \/ Deactivate(d) \/ Reactivate
  PROVE  LinesInv'
<1>1. /\ UNCHANGED <<date, hours, fixes, tracked, dayRow, payRow, missed, marked>>
  BY DEF EnterLeave, EnterHoliday, ChangeJoined, Deactivate, Reactivate, Enter
<1>2. \A T \in SUBSET DayOfMonth : Toggle(T, d) \in SUBSET DayOfMonth
  BY DEF Toggle
<1>3. onLeave' \subseteq DayOfMonth /\ holidays' \subseteq DayOfMonth
  BY <1>2 DEF EnterLeave, EnterHoliday, ChangeJoined, Deactivate, Reactivate, LinesInv, PayTypeOK
<1>4. service' \in [active : BOOLEAN, joined : 0 .. MonthEnd, left : DayOfMonth \cup {Never}]
  <2>1. service \in [active : BOOLEAN, joined : 0 .. MonthEnd, left : DayOfMonth \cup {Never}]
    BY DEF LinesInv, PayTypeOK
  <2>2. d \in 0 .. MonthEnd
    BY DaysAre
  <2>3. \/ service' = service \/ service' = [service EXCEPT !.joined = d]
        \/ service' = [service EXCEPT !.active = FALSE, !.left = d]
        \/ service' = [service EXCEPT !.active = TRUE, !.left = Never]
    BY DEF EnterLeave, EnterHoliday, ChangeJoined, Deactivate, Reactivate
  <2> QED BY <2>1, <2>2, <2>3
<1> QED BY <1>1, <1>3, <1>4 DEF LinesInv, PayTypeOK

LEMMA LinesStep == LinesInv /\ [PayNext]_payVars => LinesInv'
<1> SUFFICES ASSUME LinesInv, [PayNext]_payVars PROVE LinesInv'
  OBVIOUS
<1>1. ASSUME NEW d \in DayOfMonth, UploadHours(d) PROVE LinesInv'
  BY <1>1, UploadTypes
<1>2. ASSUME NEW d \in DayOfMonth, OthersUpload(d) PROVE LinesInv'
  BY <1>2 DEF OthersUpload, factVars, countVars, LinesInv, PayTypeOK
<1>3. CASE K06Tick \/ DateTurns \/ K05DayClose \/ MissK05
  BY <1>3, TickTypes, TurnTypes, CloseTypes
<1>4. ASSUME NEW d \in DayOfMonth, EnterLeave(d) \/ EnterHoliday(d) \/ ChangeJoined(d) \/ Deactivate(d)
      PROVE LinesInv'
  BY <1>4, EntryTypes
<1>5. ASSUME NEW d \in DayOfMonth, NEW n \in TakenOff, AdjustDay(d, -n) PROVE LinesInv'
  BY <1>5, AdjustTypes
<1>6. CASE Reactivate
  <2>1. 1 \in DayOfMonth
    BY MonthAssumption DEF DayOfMonth
  <2> QED BY <1>6, <2>1, EntryTypes
<1>7. CASE CloseThisMonth \/ ReopenThisMonth
  BY <1>7 DEF CloseThisMonth, ReopenThisMonth, factVars, countVars, LinesInv, PayTypeOK
<1>8. CASE UNCHANGED payVars
  BY <1>8 DEF payVars, factVars, countVars, LinesInv, PayTypeOK
<1> QED BY <1>1, <1>2, <1>3, <1>4, <1>5, <1>6, <1>7, <1>8 DEF PayNext, Office

LEMMA LinesBegin == PayInit => LinesInv
<1> SUFFICES ASSUME PayInit PROVE LinesInv
  OBVIOUS
<1>1. NoRow.there = FALSE /\ hours \in [DayOfMonth -> Nat] /\ fixes \in [DayOfMonth -> Int]
  BY DEF NoRow, PayInit
<1> QED BY <1>1, DaysAre DEF PayInit, LinesInv, PayTypeOK, NoRow
-----------------------------------------------------------------------------
LEMMA DaysFinite == IsFiniteSet(DayOfMonth)
BY DaysAre, FS_Interval DEF DayOfMonth

\* What the rows credit is a natural.
LEMMA CreditedIs == LinesInv => Credited(dayRow) \in Nat
<1> SUFFICES ASSUME LinesInv PROVE Credited(dayRow) \in Nat
  OBVIOUS
<1> DEFINE there == {d \in DayOfMonth : dayRow[d].there}
<1>1. IsFiniteSet(there)
  BY DaysFinite, FS_Subset
<1>2. \A d \in there : Figure(dayRow, d) \in Int
  BY DEF LinesInv, CountedRow, NoRow, Figure
<1>3. SumOver(dayRow, there) \in Int
  BY <1>1, <1>2, SumIsInt
<1>4. Credited(dayRow) = AtLeast0(SumOver(dayRow, there))
  BY DEF Credited, SumOver
<1> QED BY <1>3, <1>4 DEF AtLeast0

\* How many of the days there are.
LEMMA Counts ==
  ASSUME NEW S \in SUBSET DayOfMonth, NEW T \in SUBSET S
  PROVE  /\ Cardinality(S) \in Nat /\ Cardinality(T) \in Nat /\ Cardinality(T) <= Cardinality(S)
         /\ Cardinality(S \ T) = Cardinality(S) - Cardinality(T)
<1>1. IsFiniteSet(S)
  BY DaysFinite, FS_Subset
<1>2. S \cap T = T
  OBVIOUS
<1>3. Cardinality(S) \in Nat
  BY <1>1, FS_CardinalityType
<1>4. IsFiniteSet(T) /\ Cardinality(T) <= Cardinality(S)
  BY <1>1, FS_Subset
<1>5. Cardinality(T) \in Nat
  BY <1>4, FS_CardinalityType
<1>6. Cardinality(S \ T) = Cardinality(S) - Cardinality(T)
  BY <1>1, <1>2, FS_Difference
<1> QED BY <1>3, <1>4, <1>5, <1>6

\* The counts of a month's row, day by day.
WorkedOn == {d \in Employed : IsWorkday(d)}
OwedDays == {d \in DayOfMonth : Owes(d)}

LEMMA RowCounts ==
  LET row == MonthRow(dayRow) IN
    /\ row.workdays = Cardinality(WorkedOn) /\ row.workdays \in Nat
    /\ row.monthWorkdays = Cardinality(DayOfMonth \ (WeeklyOff \cup holidays)) /\ row.monthWorkdays \in Nat
    /\ row.workdays <= row.monthWorkdays
    /\ row.leave \in Nat /\ row.workdays - row.leave = Cardinality(OwedDays)
    /\ Cardinality(OwedDays) \in Nat /\ Billable(row) = Cardinality(OwedDays)
    /\ row.target = RoundDiv(Cardinality(OwedDays) * MonthlyTarget, PolicyWorkdays)
    /\ row.observed = Cardinality(Charged) /\ row.observed \in Nat
    /\ row.observed <= Cardinality(OwedDays)
    /\ row.credited = Credited(dayRow)
<1> DEFINE off == {d \in Employed : IsWorkday(d) /\ d \in onLeave}
           working == {d \in DayOfMonth : IsWorkday(d)}
           row == MonthRow(dayRow)
<1>1. /\ Employed \subseteq DayOfMonth /\ WorkedOn \in SUBSET working /\ working \in SUBSET DayOfMonth
      /\ off \in SUBSET WorkedOn /\ OwedDays = WorkedOn \ off
      /\ Charged \in SUBSET OwedDays /\ OwedDays \in SUBSET DayOfMonth /\ WorkedOn \in SUBSET DayOfMonth
  BY DEF Employed, WorkedOn, OwedDays, Owes, Charged
<1>2. CountWorkdays(Employed) = Cardinality(WorkedOn) /\ CountWorkdays(DayOfMonth) = Cardinality(working)
  BY DEF CountWorkdays, WorkedOn
<1>3. CountLeave(Employed) = Cardinality(off)
  <2>1. {d \in Employed \cap onLeave : IsWorkday(d)} = off
    OBVIOUS
  <2> QED BY <2>1 DEF CountLeave, CountWorkdays
<1>4. working = DayOfMonth \ (WeeklyOff \cup holidays)
  BY DEF IsWorkday
<1>5. ObservedDays(dayRow) = Charged
  BY DEF ObservedDays, Charged, ElapsedWindow, Employed, Owes, Seen
<1>6. /\ Cardinality(WorkedOn) \in Nat /\ Cardinality(working) \in Nat /\ Cardinality(WorkedOn) <= Cardinality(working)
      /\ Cardinality(off) \in Nat /\ Cardinality(WorkedOn \ off) = Cardinality(WorkedOn) - Cardinality(off)
      /\ Cardinality(OwedDays) \in Nat /\ Cardinality(Charged) \in Nat /\ Cardinality(Charged) <= Cardinality(OwedDays)
  BY <1>1, Counts
<1>7. AtLeast0(Cardinality(WorkedOn) - Cardinality(off)) = Cardinality(OwedDays)
  BY <1>1, <1>6 DEF AtLeast0
<1>8. /\ row.workdays = Cardinality(WorkedOn) /\ row.monthWorkdays = Cardinality(working) /\ row.leave = Cardinality(off)
      /\ row.target = RoundDiv(Cardinality(OwedDays) * MonthlyTarget, PolicyWorkdays)
      /\ row.observed = Cardinality(Charged) /\ row.credited = Credited(dayRow)
  BY <1>2, <1>3, <1>5, <1>7 DEF MonthRow
<1> HIDE DEF row, off, working
<1>9. Billable(row) = Cardinality(OwedDays)
  BY <1>7, <1>8 DEF Billable
<1> QED BY <1>1, <1>4, <1>6, <1>8, <1>9 DEF row

WholeHours == MonthlyTarget % PolicyWorkdays = 0

\* The arithmetic of a line: n of b owed days were seen, a day is t hours, c are credited.
SeenHours(b, n, t) ==
  IF b * t <= 0 \/ b <= 0 THEN 0 ELSE RoundDiv((b * t) * AtMost(n, b), b)
Charge(share, seen, target, c) ==
  LET deficit == AtLeast0(AtMost(seen, target) - c)
  IN  IF target <= 0 \/ deficit = 0 THEN 0 ELSE RoundDiv(share * deficit, target)
LedgerLine(share, missing, owed) ==
  IF missing <= 0 THEN share ELSE share - RoundDiv(share * missing, owed)

LEMMA LineIsLedger ==
  ASSUME NEW b \in Nat, NEW n \in Nat, n <= b, NEW t \in Nat \ {0}, NEW c \in Nat, NEW share \in Nat
  PROVE  AtLeast0(share - Charge(share, SeenHours(b, n, t), b * t, c)) = LedgerLine(share, n * t - c, b * t)
<1> DEFINE target  == b * t
           seen    == SeenHours(b, n, t)
           deficit == AtLeast0(AtMost(seen, target) - c)
           charged == Charge(share, seen, target, c)
           missing == n * t - c
<1>1. AtMost(n, b) = n /\ n * t \in Nat /\ target \in Nat
  BY DEF AtMost
<1>2. n * t <= target
  BY Product
<1>3. seen = n * t
  <2>1. CASE b = 0
    <3>1. n = 0 /\ n * t = 0
      BY <2>1
    <3> QED BY <2>1, <3>1 DEF SeenHours
  <2>2. CASE b # 0
    <3>1. target # 0
      BY <2>2
    <3>2. target * n = b * (n * t)
      OBVIOUS
    <3>3. RoundDiv(b * (n * t), b) = n * t
      BY <1>1, <2>2, RoundWhole
    <3> QED BY <1>1, <2>2, <3>1, <3>2, <3>3 DEF SeenHours
  <2> QED BY <2>1, <2>2 DEF SeenHours
<1>4. AtMost(seen, target) = n * t
  BY <1>1, <1>2, <1>3 DEF AtMost
<1>5. deficit = IF missing <= 0 THEN 0 ELSE missing
  BY <1>1, <1>4 DEF AtLeast0
<1>6. CASE missing <= 0
  BY <1>5, <1>6 DEF AtLeast0, Charge, LedgerLine
<1>7. CASE ~(missing <= 0)
  <2>1. missing \in Nat /\ missing <= target /\ target \in Nat \ {0}
    BY <1>1, <1>2, <1>7
  <2>2. charged = RoundDiv(share * missing, target)
    BY <1>5, <1>7, <2>1 DEF Charge
  <2> HIDE DEF target, missing, charged
  <2>3. share * missing <= share * target /\ share * missing \in Int /\ share * target \in Int
    BY <2>1, Product
  <2>4. RoundDiv(share * target, target) = share
    BY <2>1, RoundWhole
  <2>5. RoundDiv(share * missing, target) \in Int /\ RoundDiv(share * missing, target) <= share
    BY <2>1, <2>3, <2>4, RoundMonotone
  <2>6. AtLeast0(share - charged) = share - RoundDiv(share * missing, target)
    BY <2>2, <2>5 DEF AtLeast0
  <2> QED BY <1>7, <2>6 DEF target, missing, charged, LedgerLine
<1> QED BY <1>6, <1>7

\* For any month and any policy of whole daily hours, whatever was entered and counted:
\* a line of the sheet is the salary of the workdays in service, less the share of it
\* that the hours missing on the workdays the system saw are of the hours owed
\* (proration.ts, summary.math.ts, payroll.math.ts).
THEOREM SheetComesToLedger == WholeHours => (PaySpec => []SheetIsLedger)
<1> SUFFICES ASSUME WholeHours PROVE PaySpec => []SheetIsLedger
  OBVIOUS
<1>1. LinesInv => SheetIsLedger
  <2> SUFFICES ASSUME LinesInv PROVE Payable(MonthRow(dayRow)) = LedgerPay
    BY DEF SheetIsLedger
  <2> DEFINE row == MonthRow(dayRow)
             b == Cardinality(OwedDays)
             n == Cardinality(Charged)
             c == Credited(dayRow)
             t == DailyTarget
  <2>1. t \in Nat \ {0} /\ MonthlyTarget = t * PolicyWorkdays
    <3>1. PolicyWorkdays \in Nat \ {0} /\ MonthlyTarget \in Nat \ {0}
      BY PolicyAssumption
    <3>2. MonthlyTarget = PolicyWorkdays * (MonthlyTarget \div PolicyWorkdays)
      BY <3>1 DEF WholeHours
    <3> QED BY <3>1, <3>2 DEF DailyTarget
  <2> HIDE DEF t
  <2>2. /\ row.workdays \in Nat /\ row.monthWorkdays \in Nat /\ row.workdays <= row.monthWorkdays
        /\ b \in Nat /\ n \in Nat /\ n <= b /\ Billable(row) = b
        /\ row.target = RoundDiv(b * MonthlyTarget, PolicyWorkdays)
        /\ row.observed = n /\ row.credited = c /\ c \in Nat
        /\ row.workdays = Cardinality(WorkedOn)
        /\ row.monthWorkdays = Cardinality(DayOfMonth \ (WeeklyOff \cup holidays))
    BY RowCounts, CreditedIs
  <2>3. row.target = b * t
    <3>1. b * MonthlyTarget = (b * t) * PolicyWorkdays /\ b * t \in Nat
      BY <2>1, <2>2, PolicyAssumption
    <3> QED BY <2>2, <3>1, RoundWhole, PolicyAssumption
  <2>4. WorkedOn = Employed \ (WeeklyOff \cup holidays)
    BY DEF WorkedOn, IsWorkday
  <2> HIDE DEF row, b, n, c
  <2>5. SalaryShare(row) = Share /\ Share \in Nat
    <3> DEFINE w == row.workdays
               m == row.monthWorkdays
    <3>1. AtMost(w, m) = w
      BY <2>2 DEF AtMost
    <3>2. SalaryShare(row) = IF m <= 0 THEN Salary ELSE RoundDiv(Salary * w, m)
      BY <3>1 DEF SalaryShare
    <3>3. Share = IF m = 0 THEN Salary ELSE RoundDiv(Salary * w, m)
      BY <2>2, <2>4 DEF Share
    <3>4. ASSUME m # 0 PROVE RoundDiv(Salary * w, m) \in Nat
      <4>1. Salary * w \in Nat /\ m \in Nat \ {0}
        BY <2>2, <3>4, PolicyAssumption
      <4>2. RoundDiv(0 * m, m) = 0
        BY <4>1, RoundWhole
      <4>3. 0 * m \in Int /\ 0 * m <= Salary * w
        BY <4>1
      <4> HIDE DEF w, m
      <4>4. RoundDiv(Salary * w, m) \in Int /\ RoundDiv(0 * m, m) <= RoundDiv(Salary * w, m)
        <5>1. Salary * w \in Int
          BY <4>1
        <5>2. RoundDiv(0 * m, m) \in Int
          BY <4>2
        <5> QED BY <4>1, <4>3, <5>1, RoundMonotone
      <4> QED BY <4>2, <4>4
    <3> QED BY <2>2, <3>2, <3>3, <3>4, PolicyAssumption
  <2>6. /\ ObservedTarget(row) = SeenHours(b, n, t)
        /\ Deduction(row) = Charge(Share, ObservedTarget(row), b * t, c)
        /\ Payable(row) = AtLeast0(Share - Deduction(row))
    BY <2>2, <2>3, <2>5 DEF ObservedTarget, Deduction, Payable, SeenHours, Charge
  <2>7. LedgerPay = LedgerLine(Share, n * t - c, b * t)
    BY DEF LedgerPay, Owed, OwedDays, LedgerLine, b, n, c, t
  <2>8. Payable(row) = LedgerPay
    BY <2>1, <2>2, <2>5, <2>6, <2>7, LineIsLedger
  <2> QED BY <2>8 DEF row
<1> QED BY <1>1, LinesBegin, LinesStep, PTL DEF PaySpec

\* Every figure of the month is of its type, nobody has hours ahead of the calendar or of
\* the day he was first tracked, and a month has a row only if one of its days has.
THEOREM MonthTyped == PaySpec => []PayTypeOK
<1>1. LinesInv => PayTypeOK
  BY DEF LinesInv
<1> QED BY <1>1, LinesBegin, LinesStep, PTL DEF PaySpec

-----------------------------------------------------------------------------
\* The shapes of the books.

\* What a request has in hand: the months it may write are not to come.
InHand(k) ==
  /\ k.act \in {"free", "due", "insert", "start", "look", "delete", "refill", "correct",
                "sum", "settle", "leave", "salary", "slice"}
  /\ k.act \in {"due", "insert"} => k.months \subseteq 1 .. month /\ k.amount \in Amount
  /\ k.act = "start" => k.m \in Month \cup {0}
  /\ k.act = "correct" => k.amount \in Amount
  /\ k.act = "settle" => k.total \in Nat
  /\ k.act = "leave" => k.months \subseteq Month
  /\ k.act = "salary" => k.new \in Amount \cup {0}
  /\ k.act \in {"salary", "slice"} => k.old \in Amount \cup {0}

LinesTyped ==
  /\ leave \subseteq Month /\ from \in Month \cup {0} /\ settled \in Nat \cup {Unsettled}
  /\ rule \in [amount : Amount, start : Month, active : BOOLEAN]
  /\ inst \in [Month -> Amount \cup {0}] /\ slice \in [Month -> Amount \cup {0}]
  /\ salary \in Amount \cup {0}
  /\ \A m \in Month : inst[m] # 0 => m <= month

ShelfInv == /\ LinesTyped /\ \A c \in Clerk : InHand(req[c])
            /\ changes \in 0 .. MaxChanges /\ slips \subseteq {"deposit", "leave", "salary", "settled"}

LEMMA TotalIsNat == ASSUME LinesTyped PROVE Total \in Nat
<1> DEFINE g == [m \in Month |-> [hours |-> inst[m], fixes |-> 0]]
           IsTotal(sum) == sum = [s \in SUBSET Month |->
                                    IF s = {} THEN 0 ELSE inst[OneOf(s)] + sum[s \ {OneOf(s)}]]
<1>1. Total = (CHOOSE sum : IsTotal(sum))[Month]
  BY DEF Total, SumOf, MapThenSumSet, MapThenFoldSet, OneOf
<1>2. \A m \in Month : inst[m] \in Nat /\ Figure(g, m) = inst[m]
  <2>1. Amount \cup {0} \subseteq Nat
    BY BooksAssumption
  <2>2. \A m \in Month : inst[m] \in Nat
    BY <2>1 DEF LinesTyped
  <2> QED
    BY <2>2 DEF Figure
<1>3. ASSUME NEW sum PROVE IsTotal(sum) <=> IsSum(g, Month, sum)
  <2>1. \A s \in SUBSET Month : s # {} => Figure(g, OneOf(s)) = inst[OneOf(s)]
    BY <1>2 DEF OneOf
  <2> HIDE DEF g
  <2>2. [s \in SUBSET Month |-> IF s = {} THEN 0 ELSE inst[OneOf(s)] + sum[s \ {OneOf(s)}]]
          = [s \in SUBSET Month |-> IF s = {} THEN 0 ELSE Figure(g, OneOf(s)) + sum[s \ {OneOf(s)}]]
    BY <2>1
  <2> QED
    BY <2>2 DEF IsSum
<1> HIDE DEF g, IsTotal
<1>4. \E sum : IsTotal(sum)
  BY <1>3, SumExists, BooksAssumption
<1>5. IsSum(g, Month, CHOOSE sum : IsTotal(sum))
  BY <1>3, <1>4
<1> QED
  BY <1>1, <1>2, <1>5, SumStays, BooksAssumption

\* What a request takes in hand next.
LEMMA NextInHand ==
  ASSUME BooksInv, ShelfInv, NEW c, NEW k, InHand(k), req' = [req EXCEPT ![c] = k], month' = month
  PROVE  \A d \in Clerk : InHand(req[d])'
<1>1. \A d \in Clerk : req'[d] = k \/ req'[d] = req[d]
  BY DEF BooksInv, ShapeInv
<1>2. \A r : InHand(r) => InHand(r)'
  BY DEF InHand
<1> QED
  BY <1>1, <1>2 DEF ShelfInv, InHand

LEMMA PlainInHand ==
  ASSUME LinesTyped, CalendarInv
  PROVE  /\ \A a \in {"free", "refill", "sum"} : InHand(At(a))
         /\ InHand(Free) /\ \A t : InHand(Fill(t))
<1>1. Due \subseteq 1 .. month
  <2>1. Due \subseteq {m \in Month : m <= month}
    BY DEF Due
  <2> QED
    BY <2>1, Months DEF CalendarInv
<1>2. rule.amount \in Amount
  BY DEF LinesTyped
<1> QED
  BY <1>1, <1>2 DEF InHand, At, Free, Fill

\* A step of a request that writes no line of the books.
LEMMA AsksTyped ==
  ASSUME BooksInv, ShelfInv, NEW c, NEW k, InHand(k), Request(c, k) \/ Go(c, k),
         UNCHANGED <<month, rule, from, inst, settled, leave, salary, slice>>,
         slips' \subseteq slips \cup {"deposit", "leave", "salary", "settled"}
  PROVE  ShelfInv'
<1>1. req' = [req EXCEPT ![c] = k] /\ changes' \in 0 .. MaxChanges
  BY BooksAssumption DEF Request, Go, ShelfInv
<1>2. LinesTyped'
  BY DEF ShelfInv, LinesTyped
<1> QED
  BY <1>1, <1>2, NextInHand DEF ShelfInv

LEMMA LedgerAsks == ASSUME BooksInv, ShelfInv, NEW c \in Clerk, LedgerRequest(c) PROVE ShelfInv'
<1> USE DEF ledgerVars, staffVars
<1>1. CASE Load(c) \/ Settle(c)
  BY <1>1, PlainInHand, AsksTyped DEF Load, Settle, BooksInv, ShelfInv
<1>2. ASSUME NEW m \in Month \cup {0}, NewStart(c, m) PROVE ShelfInv'
  <2>1. InHand([act |-> "start", m |-> m])
    BY DEF InHand
  <2> QED
    BY <1>2, <2>1, AsksTyped DEF NewStart
<1>3. ASSUME NEW m \in Month, NEW a \in Amount, CorrectInstalment(c, m, a) PROVE ShelfInv'
  <2>1. InHand([act |-> "correct", m |-> m, amount |-> a, saw |-> closed,
                unpaid |-> settled = Unsettled])
    BY DEF InHand
  <2> QED
    BY <1>3, <2>1, AsksTyped DEF CorrectInstalment
<1> QED
  BY <1>1, <1>2, <1>3 DEF LedgerRequest

LEMMA StaffAsks == ASSUME BooksInv, ShelfInv, NEW c \in Clerk, StaffRequest(c) PROVE ShelfInv'
<1> USE DEF ledgerVars, staffVars
<1>1. ASSUME NEW ms \in SUBSET Month, NEW b
      PROVE  InHand([act |-> "leave", months |-> ms, there |-> b, saw |-> closed])
  BY DEF InHand
<1>2. ASSUME NEW ms \in SUBSET Month, AddLeave(c, ms) PROVE ShelfInv'
  BY <1>1, <1>2, AsksTyped DEF AddLeave
<1>3. ASSUME NEW m \in Month, RemoveLeave(c, m) PROVE ShelfInv'
  <2>1. {m} \in SUBSET Month
    OBVIOUS
  <2> QED
    BY <1>1, <1>3, <2>1, AsksTyped DEF RemoveLeave
<1>4. ASSUME NEW a \in Amount \cup {0}, ChangeSalary(c, a) PROVE ShelfInv'
  <2>1. InHand([act |-> "salary", old |-> salary, new |-> a])
    BY DEF InHand, ShelfInv, LinesTyped
  <2> QED
    BY <1>4, <2>1, AsksTyped DEF ChangeSalary
<1>5. \A m \in Month : {m} \in SUBSET Month /\ ({m, m + 1} \cap Month) \in SUBSET Month
  OBVIOUS
<1> QED
  BY <1>2, <1>3, <1>4, <1>5 DEF StaffRequest

\* Statements that write a line.
LEMMA InstTyped ==
  ASSUME BooksInv, ShelfInv, NEW c \in Clerk, Insert(c) \/ DeleteBefore(c) \/ SaveCorrection(c)
  PROVE  ShelfInv'
<1>1. PICK k : Go(c, k) /\ InHand(k)
  <2>1. /\ Insert(c) => Go(c, At("sum")) \/ Go(c, Free)
        /\ DeleteBefore(c) => Go(c, At("refill"))
        /\ SaveCorrection(c) => Go(c, Free)
    BY DEF Insert, DeleteBefore, SaveCorrection
  <2>2. InHand(At("sum")) /\ InHand(Free) /\ InHand(At("refill"))
    BY PlainInHand DEF BooksInv, ShelfInv
  <2> QED
    BY <2>1, <2>2
<1>2. /\ UNCHANGED <<month, rule, from, settled, leave, salary, slice>>
      /\ slips' \subseteq slips \cup {"deposit", "settled"}
  BY DEF Insert, DeleteBefore, SaveCorrection, staffVars
<1>3. /\ inst' = [m \in Month |-> inst'[m]]
      /\ \A m \in Month : \/ inst'[m] = inst[m] \/ inst'[m] = 0
                          \/ inst'[m] \in Amount /\ m <= month
  <2>1. CASE Insert(c)
    <3>1. req[c].months \subseteq 1 .. month /\ req[c].amount \in Amount
      BY <2>1 DEF Insert, ShelfInv, InHand
    <3> DEFINE new == {m \in req[c].months : inst[m] = 0}
    <3>2. inst' = [m \in Month |-> IF m \in new THEN req[c].amount ELSE inst[m]]
      BY <2>1 DEF Insert
    <3>3. \A m \in new : m <= month
      BY <3>1
    <3> HIDE DEF new
    <3> QED
      BY <3>1, <3>2, <3>3
  <2>2. CASE DeleteBefore(c)
    BY <2>2 DEF DeleteBefore
  <2>3. CASE SaveCorrection(c)
    <3>1. /\ req[c].amount \in Amount
          /\ inst' = [inst EXCEPT ![req[c].m] = IF @ = 0 THEN 0 ELSE req[c].amount]
      BY <2>3 DEF SaveCorrection, ShelfInv, InHand
    <3> QED
      BY <3>1 DEF ShelfInv, LinesTyped
  <2> QED
    BY <2>1, <2>2, <2>3
<1>4. LinesTyped'
  <2>1. inst' \in [Month -> Amount \cup {0}]
    BY <1>3 DEF ShelfInv, LinesTyped
  <2>2. \A m \in Month : inst'[m] # 0 => m <= month'
    BY <1>2, <1>3 DEF ShelfInv, LinesTyped
  <2> QED
    BY <1>2, <2>1, <2>2 DEF ShelfInv, LinesTyped
<1> QED
  BY <1>1, <1>2, <1>4, NextInHand DEF Go, ShelfInv

LEMMA StatementTyped == ASSUME BooksInv, ShelfInv, NEW c \in Clerk, Statement(c) PROVE ShelfInv'
<1> USE DEF ledgerVars, staffVars
<1>1. CASE ReadClosures(c)
  <2>1. InHand([act |-> "insert", months |-> OpenMonths(req[c].months), amount |-> req[c].amount,
                saw |-> closed, then |-> req[c].then])
    BY <1>1 DEF ReadClosures, ShelfInv, InHand, OpenMonths
  <2> QED
    BY <1>1, <2>1, AsksTyped DEF ReadClosures
<1>2. CASE LookClosed(c)
  <2>1. InHand([act |-> "delete", m |-> req[c].m, saw |-> closed])
    BY DEF InHand
  <2> QED
    BY <1>2, <2>1, AsksTyped DEF LookClosed
<1>3. CASE Refill(c)
  BY <1>3, PlainInHand, AsksTyped DEF Refill, BooksInv, ShelfInv
<1>4. CASE SumUp(c)
  <2>1. InHand([act |-> "settle", total |-> Total])
    BY TotalIsNat DEF InHand, ShelfInv
  <2> QED
    BY <1>4, <2>1, AsksTyped DEF SumUp
<1>5. CASE SaveStart(c)
  <2>1. from' \in Month \cup {0}
    BY <1>5 DEF SaveStart, ShelfInv, InHand
  <2>2. PICK k : Go(c, k) /\ InHand(k)
    <3>1. InHand([act |-> "look", m |-> from']) /\ InHand(At("refill"))
      BY PlainInHand DEF InHand, BooksInv, ShelfInv
    <3> QED
      BY <1>5, <3>1 DEF SaveStart
  <2>3. LinesTyped'
    BY <1>5, <2>1 DEF SaveStart, ShelfInv, LinesTyped
  <2> QED
    BY <1>5, <2>2, <2>3, NextInHand DEF SaveStart, Go, ShelfInv
<1>6. CASE SaveSettlement(c)
  <2>1. LinesTyped'
    BY <1>6 DEF SaveSettlement, ShelfInv, InHand, LinesTyped
  <2> QED
    BY <1>6, <2>1, PlainInHand, NextInHand DEF SaveSettlement, Slip, Go, BooksInv, ShelfInv
<1>7. CASE SaveLeave(c)
  <2>1. LinesTyped'
    BY <1>7 DEF SaveLeave, ShelfInv, InHand, LinesTyped
  <2> QED
    BY <1>7, <2>1, PlainInHand, NextInHand DEF SaveLeave, Slip, Go, BooksInv, ShelfInv
<1>8. CASE SaveSalary(c)
  <2>1. LinesTyped' /\ req[c].old \in Amount \cup {0}
    BY <1>8 DEF SaveSalary, ShelfInv, InHand, LinesTyped
  <2>2. PICK k : Go(c, k) /\ InHand(k)
    <3>1. InHand([act |-> "slice", old |-> req[c].old]) /\ InHand(Free)
      BY <2>1, PlainInHand DEF InHand, BooksInv, ShelfInv
    <3> QED
      BY <1>8, <3>1 DEF SaveSalary
  <2> QED
    BY <1>8, <2>1, <2>2, NextInHand DEF SaveSalary, Slip, Go, ShelfInv
<1>9. CASE SaveSlice(c)
  <2>1. req[c].old \in Amount \cup {0}
    BY <1>9 DEF SaveSlice, ShelfInv, InHand
  <2>2. slice' \in [Month -> Amount \cup {0}]
    BY <1>9, <2>1 DEF SaveSlice, KeepOld, ShelfInv, LinesTyped
  <2>3. LinesTyped'
    BY <1>9, <2>2 DEF SaveSlice, ShelfInv, LinesTyped
  <2> QED
    BY <1>9, <2>3, PlainInHand, NextInHand DEF SaveSlice, Slip, Go, BooksInv, ShelfInv
<1> QED
  BY <1>1, <1>2, <1>3, <1>4, <1>5, <1>6, <1>7, <1>8, <1>9, InstTyped DEF Statement

\* Months, policies and requests that break off.
LEMMA RestTyped ==
  ASSUME BooksInv, ShelfInv,
         \/ \E c \in Clerk : BreakOff(c)
         \/ \E a \in Amount, m \in Month, on \in BOOLEAN : UpdatePolicy(a, m, on)
         \/ \E m \in Month : CloseBooks(m) \/ ReopenBooks(m)
         \/ NextMonth
  PROVE  ShelfInv'
<1> USE DEF ledgerVars, staffVars
<1>1. ASSUME NEW c \in Clerk, BreakOff(c) PROVE ShelfInv'
  BY <1>1, PlainInHand, AsksTyped DEF BreakOff, Slip, BooksInv, ShelfInv
<1>2. ASSUME month' = month, UNCHANGED <<from, inst, settled, leave, salary, slice>>, One,
             slips' \subseteq slips \cup {"salary"},
             rule' \in [amount : Amount, start : Month, active : BOOLEAN]
      PROVE  ShelfInv'
  <2>1. LinesTyped' /\ \A c \in Clerk : InHand(req[c])'
    BY <1>2 DEF One, ShelfInv, LinesTyped, InHand
  <2> QED
    BY <1>2, <2>1, BooksAssumption DEF One, ShelfInv
<1>3. ASSUME NEW a \in Amount, NEW m \in Month, NEW on \in BOOLEAN, UpdatePolicy(a, m, on)
      PROVE  ShelfInv'
  BY <1>2, <1>3 DEF UpdatePolicy
<1>4. ASSUME NEW m \in Month, CloseBooks(m) \/ ReopenBooks(m) PROVE ShelfInv'
  <2>1. rule' = rule /\ rule \in [amount : Amount, start : Month, active : BOOLEAN]
    BY <1>4 DEF CloseBooks, ReopenBooks, ShelfInv, LinesTyped
  <2> QED
    BY <1>2, <1>4, <2>1 DEF CloseBooks, ReopenBooks, Slip
<1>5. CASE NextMonth
  <2>1. month \in Nat /\ month' = month + 1
    BY <1>5, Months DEF NextMonth, BooksInv, CalendarInv
  <2>2. \A m \in Month : m <= month => m <= month'
    BY <2>1, Months
  <2>3. LinesTyped'
    BY <1>5, <2>2 DEF NextMonth, ShelfInv, LinesTyped
  <2>4. 1 .. month \subseteq 1 .. month'
    BY <2>1
  <2>5. \A c \in Clerk : InHand(req[c])'
    BY <1>5, <2>4 DEF NextMonth, ShelfInv, InHand
  <2> QED
    BY <1>5, <2>3, <2>5 DEF NextMonth, ShelfInv
<1> QED
  BY <1>1, <1>3, <1>4, <1>5

\* The shapes of the books: instalments and kept salaries are amounts, and none is on
\* record for a month to come (deposits.service.ts:240-271, employees.service.ts:582-627).
THEOREM BooksTyped == BooksSpec => []BooksTypeOK
<1>1. BooksInit => ShelfInv
  <2> SUFFICES ASSUME BooksInit PROVE ShelfInv
    OBVIOUS
  <2>1. Min(Amount) \in Amount /\ 1 \in Month
    BY BooksAssumption, MinIsLeast
  <2>2. LinesTyped
    BY <2>1 DEF BooksInit, LinesTyped
  <2>3. \A c \in Clerk : InHand(req[c])
    BY DEF BooksInit, InHand, Free, At
  <2> QED
    BY <2>2, <2>3, BooksAssumption DEF BooksInit, ShelfInv
<1>2. BooksInv /\ ShelfInv /\ [BooksNext]_booksVars => ShelfInv'
  <2> SUFFICES ASSUME BooksInv, ShelfInv, [BooksNext]_booksVars PROVE ShelfInv'
    OBVIOUS
  <2>1. CASE UNCHANGED booksVars
    <3>1. LinesTyped' /\ \A c \in Clerk : InHand(req[c])'
      BY <2>1 DEF booksVars, ledgerVars, staffVars, ShelfInv, LinesTyped, InHand
    <3> QED
      BY <2>1, <3>1 DEF booksVars, ShelfInv
  <2>2. CASE BooksNext
    BY <2>2, LedgerAsks, StaffAsks, StatementTyped, RestTyped DEF BooksNext
  <2> QED
    BY <2>1, <2>2
<1>3. BooksInv /\ ShelfInv => BooksTypeOK
  <2> SUFFICES ASSUME BooksInv, ShelfInv PROVE BooksTypeOK
    OBVIOUS
  <2>1. \A m \in Month : inst[m] # 0 \/ slice[m] # 0 => m <= month
    BY Months DEF BooksInv, CalendarInv, ShelfInv, LinesTyped
  <2> QED
    BY <2>1 DEF BooksInv, CalendarInv, ShelfInv, LinesTyped, InHand, BooksTypeOK
<1> QED
  BY <1>1, <1>2, <1>3, BooksHold, PTL DEF BooksSpec
=============================================================================
