----------------------------- MODULE TargetPool -----------------------------
(***************************************************************************)
(* The pool of design targets: how rows reach designers (distribute,       *)
(* topUp), how they finish or drop them (markDone, skip), how the night    *)
(* job takes back what nobody touched (returnUnworked), and how a file     *)
(* seen in the daily summary marks a row as started.                       *)
(*                                                                         *)
(* A request is a `call' that runs one database statement per step, so     *)
(* requests interleave between statements as they do in the server.        *)
(***************************************************************************)
EXTENDS DesignRows, Integers, Sequences, FiniteSets

CONSTANTS Target,       \* rows of design_targets
          Designer,     \* active employees whose staff type does design work
          ByCode,       \* the same, in the order of their employee codes
          PerDesigner,  \* POOL_PER_DESIGNER
          MaxPerDay,    \* MAX_ISSUED_PER_DAY
          Quota,        \* a designer's daily target, 0 for none
          Call,         \* requests that can be in flight together
          JobCall,      \* the one of them that the scheduled jobs use
          MaxDay,       \* bound: days
          MaxCalls      \* bound: requests ever made

ASSUME PoolAssumption ==
  /\ IsFiniteSet(Target)
  /\ ByCode \in Seq(Designer)
  /\ Quota \in [Designer -> Nat]
  /\ PerDesigner \in Nat /\ MaxPerDay \in Nat
  /\ MaxDay \in Nat \ {0} /\ MaxCalls \in Nat
  /\ JobCall \in Call
  /\ NoOne \notin Designer /\ Staff \notin Designer /\ NoOne # Staff

VARIABLES row,      \* design_targets
          credit,   \* design_credits: the first day a designer's file carried the number
          today,    \* the day in Dhaka
          call,     \* what each request in flight is about to do
          asks      \* requests made so far

poolVars == <<row, credit, today, call, asks>>

Smaller(a, b) == IF a < b THEN a ELSE b
\* Mutant: without Math.max.
Difference(a, b) == a - b

Less(a, b)    == IF a > b THEN a - b ELSE 0     \* Math.max(0, a - b)

Pool          == {t \in Target : row[t].status = "pool"}
OpenRows(d)   == {t \in Target : row[t].owner = d /\ row[t].status = "assigned"}
DoneOn(d, n)  == {t \in Target : row[t].owner = d /\ row[t].completed = n}
IssuedOn(d, n) == {t \in Target : row[t].owner = d /\ row[t].issued = n}

\* No daily target, no cap.
UnderCap(d, n) == Quota[d] = 0 \/ Cardinality(DoneOn(d, n)) < Quota[d]

\* topUpSize: only when the open rows cannot reach the daily target.
TopUpSize(d, n) ==
  LET remaining == Less(Quota[d], Cardinality(DoneOn(d, n)))
      want      == (remaining * PerDesigner + Quota[d] - 1) \div Quota[d]
      budget    == Less(MaxPerDay, Cardinality(IssuedOn(d, n)))
  IN  IF Quota[d] = 0 \/ remaining = 0 THEN 0
      ELSE Smaller(Less(want, Cardinality(OpenRows(d))), budget)

\* allocationSizes: each designer up to PerDesigner, in order, while the pool lasts.
AllocationSizes ==
  LET want(i) == Less(PerDesigner, Cardinality(OpenRows(ByCode[i])))
      left[i \in 0..Len(ByCode)] ==
        IF i = 0 THEN Cardinality(Pool) ELSE Less(left[i - 1], want(i))
  IN  [i \in 1..Len(ByCode) |-> [to |-> ByCode[i], size |-> Smaller(want(i), left[i - 1])]]

(***************************************************************************)
(* Requests.  A call keeps the time it took when it began.                 *)
(***************************************************************************)
Idle == [op |-> "idle"]

Begin(c, op) == /\ call[c] = Idle /\ asks < MaxCalls
                /\ asks' = asks + 1
                /\ call' = [call EXCEPT ![c] = op]

Becomes(c, op) == call' = [call EXCEPT ![c] = op] /\ UNCHANGED asks

\* Sizes still to be claimed, or nothing left to do.
Giving(sizes, day) == IF sizes = <<>> THEN Idle ELSE [op |-> "give", sizes |-> sizes, day |-> day]

\* Designers still to be topped up, then nothing.
ToppingUp(who, day) == IF who = <<>> THEN Idle ELSE [op |-> "topup", who |-> who, day |-> day]

\* A claim that is over, for the two kinds of callers.
AfterClaim(k) == IF k.sizes # <<>> THEN Giving(k.sizes, k.day) ELSE ToppingUp(k.who, k.day)

Distribute(c) ==
  /\ Begin(c, Giving(AllocationSizes, today))
  /\ UNCHANGED <<row, credit, today>>

\* The hourly job, one run at a time (topUpLock), 9 to 19 o'clock.
TopUpAll ==
  /\ Begin(JobCall, ToppingUp(ByCode, today))
  /\ UNCHANGED <<row, credit, today>>

\* claimFor reads rows of the pool.  FOR UPDATE SKIP LOCKED runs outside a
\* transaction, so no lock outlives the statement.
Pick(c, d, size, sizes, who, day) ==
  \E ids \in SUBSET Pool :
    /\ Cardinality(ids) = Smaller(size, Cardinality(Pool))
    /\ LET k == [op |-> "claim", to |-> d, ids |-> ids, sizes |-> sizes, who |-> who, day |-> day]
       IN  Becomes(c, IF ids = {} THEN AfterClaim(k) ELSE k)

Give(c) ==
  /\ call[c].op = "give"
  /\ LET k == call[c] IN Pick(c, k.sizes[1].to, k.sizes[1].size, Tail(k.sizes), <<>>, k.day)
  /\ UNCHANGED <<row, credit, today>>

TopUp(c) ==
  /\ call[c].op = "topup"
  /\ LET k == call[c]
         d == Head(k.who)
     IN  Pick(c, d, TopUpSize(d, k.day), <<>>, Tail(k.who), k.day)
  /\ UNCHANGED <<row, credit, today>>

\* Mutant: the update asks for the id alone.
ClaimById(r, d, day) == Claimed(r, d, day)

\* One row's UPDATE ... WHERE status = 'pool'.
ClaimIf(r, d, day) == IF r.status = "pool" THEN Claimed(r, d, day) ELSE r

Claim(c) ==
  /\ call[c].op = "claim"
  /\ \E t \in call[c].ids :
       LET k    == call[c]
           rest == [k EXCEPT !.ids = @ \ {t}]
       IN  /\ row' = [row EXCEPT ![t] = ClaimIf(@, k.to, k.day)]
           /\ Becomes(c, IF rest.ids = {} THEN AfterClaim(rest) ELSE rest)
  /\ UNCHANGED <<credit, today>>

(***************************************************************************)
(* The designer: done, skip, undo.                                         *)
(***************************************************************************)
\* Mutant: no advisory lock.
NeverLocked(d) == FALSE

\* The advisory lock of markDone's transaction: one completion at a time.
Locked(d) == \E k \in Call : call[k].op = "done" /\ call[k].who = d

\* The lock is taken and today's completions are counted; over the cap the
\* request fails and changes nothing.
MarkDone(c, d, t) ==
  /\ ~Locked(d)
  /\ UnderCap(d, today)
  /\ Begin(c, [op |-> "done", who |-> d, row |-> t, day |-> today])
  /\ UNCHANGED <<row, credit, today>>

\* The UPDATE and the commit, which releases the lock; then the top-up.
CommitDone(c) ==
  /\ call[c].op = "done"
  /\ LET k    == call[c]
         mine == row[k.row].owner = k.who /\ row[k.row].status = "assigned"
     IN  /\ row' = [row EXCEPT ![k.row] = IF mine THEN Completed(@, k.day, k.who) ELSE @]
         /\ Becomes(c, IF mine THEN ToppingUp(<<k.who>>, k.day) ELSE Idle)
  /\ UNCHANGED <<credit, today>>

Skip(c, d, t) ==
  /\ row[t].owner = d /\ row[t].status = "assigned"
  /\ row' = [row EXCEPT ![t] = Dropped(@, "skipped")]
  /\ Begin(c, ToppingUp(<<d>>, today))
  /\ UNCHANGED <<credit, today>>

\* One request that is a single statement.
Single(t, r) ==
  /\ asks < MaxCalls /\ asks' = asks + 1
  /\ row' = [row EXCEPT ![t] = r]
  /\ UNCHANGED <<credit, today, call>>

UndoMine(d, t) ==
  /\ row[t].owner = d /\ row[t].status = "done" /\ row[t].completed = today
  /\ Untouched(row[t])
  /\ Single(t, Uncompleted(row[t]))

(***************************************************************************)
(* The office.                                                             *)
(***************************************************************************)
UndoComplete(t) ==
  /\ row[t].status = "done" /\ Untouched(row[t])
  /\ Single(t, Uncompleted(row[t]))

Update(t, status) == Single(t, Patched(row[t], status, today))

SoftDelete(t) == Single(t, Deleted(row[t]))

(***************************************************************************)
(* The night job, and the file seen by the daily summary.                  *)
(***************************************************************************)
\* returnUnworked reads today's credits first and the open rows second.  It
\* runs at 23:55, one run at a time (returnLock).
ReturnUnworked ==
  /\ Begin(JobCall, [op |-> "touched",
               keep |-> {p \in Designer \X Target : credit[p] = today}])
  /\ UNCHANGED <<row, credit, today>>

Unworked(keep) == {t \in Target : /\ row[t].status = "assigned" /\ ~row[t].started
                                  /\ <<row[t].owner, t>> \notin keep}

ListUnworked(c) ==
  /\ call[c].op = "touched"
  /\ LET ids == Unworked(call[c].keep)
     IN  Becomes(c, IF ids = {} THEN Idle ELSE [op |-> "return", ids |-> ids])
  /\ UNCHANGED <<row, credit, today>>

\* Mutant: updateMany by the listed ids alone.
ReturnsAnyhow(r) == TRUE

\* updateMany repeats the status, and nothing else.
StillReturns(r) == r.status = "assigned"

Return(c) ==
  /\ call[c].op = "return"
  /\ row' = [t \in Target |-> IF t \in call[c].ids /\ StillReturns(row[t])
                              THEN Returned(row[t]) ELSE row[t]]
  /\ Becomes(c, Idle)
  /\ UNCHANGED <<credit, today>>

\* claimDesigns: the credit (skipDuplicates), then the rows to be marked.
FileSeen(c, d, t) ==
  /\ credit' = [credit EXCEPT ![<<d, t>>] = IF @ = NoDay THEN today ELSE @]
  /\ Begin(c, [op |-> "seen", who |-> d, row |-> t])
  /\ UNCHANGED <<row, today>>

ListPending(c) ==
  /\ call[c].op = "seen"
  /\ LET k == call[c]
         r == row[k.row]
     IN  Becomes(c, IF r.owner = k.who /\ r.status = "assigned" /\ ~r.started
                    THEN [op |-> "start", row |-> k.row] ELSE Idle)
  /\ UNCHANGED <<row, credit, today>>

\* The update asks only that startedAt is still null.
MarkStarted(c) ==
  /\ call[c].op = "start"
  /\ row' = [row EXCEPT ![call[c].row].started = TRUE]
  /\ Becomes(c, Idle)
  /\ UNCHANGED <<credit, today>>

Midnight == /\ today < MaxDay /\ today' = today + 1
            /\ UNCHANGED <<row, credit, call, asks>>

(***************************************************************************)
(* Specification.                                                          *)
(***************************************************************************)
PoolInit ==
  /\ row = [t \in Target |-> PoolRow]
  /\ credit = [p \in Designer \X Target |-> NoDay]
  /\ today = 1 /\ asks = 0
  /\ call = [c \in Call |-> Idle]

Requests(c) ==
  \/ Distribute(c)
  \/ \E d \in Designer, t \in Target : MarkDone(c, d, t) \/ Skip(c, d, t) \/ FileSeen(c, d, t)

Statements(c) ==
  \/ Give(c) \/ TopUp(c) \/ Claim(c) \/ CommitDone(c)
  \/ ListUnworked(c) \/ Return(c) \/ ListPending(c) \/ MarkStarted(c)

Singles(t) ==
  \/ \E d \in Designer : UndoMine(d, t)
  \/ UndoComplete(t) \/ SoftDelete(t)
  \/ \E status \in {"pool", "assigned", "done", "skipped"} : Update(t, status)

PoolNext ==
  \/ \E c \in Call : Requests(c) \/ Statements(c)
  \/ \E t \in Target : Singles(t)
  \/ TopUpAll \/ ReturnUnworked
  \/ Midnight

PoolSpec == PoolInit /\ [][PoolNext]_poolVars

(***************************************************************************)
(* Properties.                                                             *)
(***************************************************************************)
Days  == 0..MaxDay

Sizes == Seq([to : Designer, size : Nat])
CallType ==
  {Idle}
  \cup [op : {"give"}, sizes : Sizes, day : Days]
  \cup [op : {"topup"}, who : Seq(Designer), day : Days]
  \cup [op : {"claim"}, to : Designer, ids : SUBSET Target, sizes : Sizes,
        who : Seq(Designer), day : Days]
  \cup [op : {"done"}, who : Designer, row : Target, day : Days]
  \cup [op : {"touched"}, keep : SUBSET (Designer \X Target)]
  \cup [op : {"return"}, ids : SUBSET Target]
  \cup [op : {"seen"}, who : Designer, row : Target]
  \cup [op : {"start"}, row : Target]

\* The shapes of the rows and of the requests in flight.
PoolTypeOK ==
  /\ row \in [Target -> RowType(Designer, Days)]
  /\ credit \in [Designer \X Target -> Days]
  /\ today \in Days /\ asks \in 0..MaxCalls
  /\ call \in [Call -> CallType]

\* The completions a designer entered for himself on a day.
OwnDone(d, n) == {t \in DoneOn(d, n) : row[t].status = "done" /\ row[t].by = d}

\* A designer never has more designs of a day marked done by his own hand
\* than his daily target (targets.service.ts:827-851), whatever other requests
\* of his, top-ups and corrections of the office run between the count and the
\* update.
CapKept == \A d \in Designer, n \in 1..MaxDay :
             Quota[d] > 0 => Cardinality(OwnDone(d, n)) <= Quota[d]

\* A row is its designer's.  It changes hands only through the pool: two claims
\* that picked the same row (distribute against topUp, whose locks are gone by
\* then) give it once.  And the night job never takes back a design that was
\* finished after it listed the open rows (targets.service.ts:553-554): only the
\* office or an undo, each a request of its own, takes a row out of `done'.
HandedOver(t) == row'[t].owner \notin {row[t].owner, NoOne}
Unfinished(t) == row[t].status = "done" /\ row'[t].status # "done"
RowsKept == [][\A t \in Target : /\ HandedOver(t) => row[t].status = "pool"
                                 /\ Unfinished(t) => asks' = asks + 1]_poolVars

\* Both, for overlapping requests and jobs: the cap holds and rows are kept.
PoolSound == []CapKept /\ RowsKept
=============================================================================
