----------------------------- MODULE DesignRows -----------------------------
(***************************************************************************)
(* One row of design_targets, and what each statement of                   *)
(* targets.service.ts does to it.  A date is the day it falls on, with     *)
(* NoDay for null; a stage's date is only ever compared with null, so it   *)
(* is a Boolean.  The ASIN and the job number never change (update and     *)
(* returnUnworked leave both alone), so the row's name stands for them.    *)
(***************************************************************************)
EXTENDS Naturals

CONSTANTS NoOne,   \* assigned_to_id IS NULL
          Staff    \* completed_by_id of an owner, a manager or a researcher

NoDay == 0

\* The shape of a row, its designers among who and its days among days.
RowType(who, days) ==
  [ status : {"pool", "assigned", "done", "skipped", "deleted"},
    owner : who \cup {NoOne}, issued : days, started : BOOLEAN,
    completed : days, by : who \cup {NoOne, Staff},
    checked : BOOLEAN, error : BOOLEAN, fixed : BOOLEAN, uploaded : BOOLEAN, live : BOOLEAN,
    reason : BOOLEAN, reviewed : BOOLEAN ]

\* A row as bulkAdd inserts it, and as update(pool) leaves it.
PoolRow ==
  [ status |-> "pool", owner |-> NoOne, issued |-> NoDay, started |-> FALSE,
    completed |-> NoDay, by |-> NoOne,
    checked |-> FALSE, error |-> FALSE, fixed |-> FALSE, uploaded |-> FALSE, live |-> FALSE,
    reason |-> FALSE, reviewed |-> FALSE ]

\* claimFor gives the row to a designer.
Claimed(r, d, day) == [r EXCEPT !.status = "assigned", !.owner = d, !.issued = day]

\* Mutant: the designer keeps the row.
ReturnedHalf(r) == [r EXCEPT !.status = "pool", !.issued = NoDay]

\* returnUnworked takes it back: nothing but these three columns.
Returned(r) == [r EXCEPT !.status = "pool", !.owner = NoOne, !.issued = NoDay]

\* markDone, and update(done), which a retry does not repeat.
Completed(r, day, who) == [r EXCEPT !.status = "done", !.completed = day, !.by = who]

\* clearCompletion.
Uncompleted(r) == [r EXCEPT !.status = "assigned", !.completed = NoDay, !.by = NoOne]

\* No later stage has begun: the condition both undos repeat in their WHERE.
Untouched(r) == ~r.checked /\ ~r.uploaded /\ ~r.live

\* skip and softDelete, each with a reason.
Dropped(r, status) == [r EXCEPT !.status = status, !.reason = TRUE]

\* update: the status the office asks for.
Patched(r, status, day) ==
  CASE status = "pool"                      -> PoolRow
    [] status = "done" /\ r.status # "done" -> Completed(r, day, Staff)
    [] status \in {"assigned", "skipped"}   -> [r EXCEPT !.status = status]
    [] OTHER                                -> r

\* softDelete leaves a finished row, and one already deleted.
Deleted(r) == IF r.status \in {"done", "deleted"} THEN r ELSE Dropped(r, "deleted")
=============================================================================
