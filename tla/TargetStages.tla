---------------------------- MODULE TargetStages ----------------------------
(***************************************************************************)
(* The life of one design after it reached a designer: done, checked,      *)
(* fixed, uploaded, live, or dropped and reviewed, against undos and the   *)
(* corrections of the office.  The four stage marks and the undos read the *)
(* row in one statement and write it in the next; the rest is one          *)
(* conditional UPDATE.  A mark overtaken by another request between its    *)
(* read and its write is remembered in moved.                              *)
(***************************************************************************)
EXTENDS DesignRows

CONSTANTS Artist,     \* the designer who holds the row
          Slot,       \* requests that can be between their read and their write
          LastDay,    \* bound: days
          MaxAsked    \* bound: requests ever made

ASSUME StagesAssumption == /\ LastDay \in Nat \ {0} /\ MaxAsked \in Nat
                           /\ Artist # NoOne /\ Artist # Staff /\ NoOne # Staff

VARIABLES design,   \* the row
          pending,  \* per slot: what the request is about to write, and the row it read
          clock,    \* the day in Dhaka
          asked,    \* requests made so far
          moved     \* some mark was written on a row that had moved back meanwhile

stageVars == <<design, pending, clock, asked, moved>>

None == [do |-> "nothing"]

(***************************************************************************)
(* Requests of one statement.                                              *)
(***************************************************************************)
Ask == asked < MaxAsked /\ asked' = asked + 1

\* A request whose WHERE is cond; one that matches nothing changes nothing.
Write(cond, r) == /\ Ask /\ cond /\ design' = r
                  /\ UNCHANGED <<pending, clock, moved>>

Hold == design.owner = Artist /\ design.status = "assigned"

GiveOut  == Write(design.status = "pool", Claimed(design, Artist, clock))
TakeBack == Write(design.status = "assigned" /\ ~design.started, Returned(design))
Finish   == Write(Hold, Completed(design, clock, Artist))
Drop     == Write(Hold, Dropped(design, "skipped"))
Erase    == Write(TRUE, Deleted(design))
Patch(status) == Write(TRUE, Patched(design, status, clock))
MarkReviewed == Write(design.status \in {"skipped", "deleted"} /\ design.reason,
                      [design EXCEPT !.reviewed = TRUE])

(***************************************************************************)
(* Requests of a read and a write.                                         *)
(***************************************************************************)
\* The read: the request goes on only if what it saw allows it.
Look(s, what, allowed) ==
  /\ Ask /\ pending[s] = None /\ allowed
  /\ pending' = [pending EXCEPT ![s] = [do |-> what, saw |-> design]]
  /\ UNCHANGED <<design, clock, moved>>

LookChecked(s, what) == Look(s, what, design.completed # NoDay /\ ~design.checked)
LookFixed(s)    == Look(s, "fixed", design.error /\ ~design.fixed)
\* Mutant: an unfinished design may be uploaded.
LookUnfinished(s) == Look(s, "uploaded", ~design.uploaded)

LookUploaded(s) == Look(s, "uploaded", design.completed # NoDay /\ ~design.uploaded)
LookLive(s)     == Look(s, "live", design.uploaded /\ ~design.live)

\* undoMine asks for a completion of today, undoComplete for any.
MayUndo(r, what) == /\ r.status = "done" /\ Untouched(r)
                    /\ what = "undoMine" => r.owner = Artist /\ r.completed = clock
LookUndo(s, what) == Look(s, what, MayUndo(design, what))

\* The condition a mark was allowed under still holds of the row.
Stands(do, r) ==
  CASE do = "ok" -> r.completed # NoDay /\ ~r.fixed
    [] do \in {"wrong", "uploaded"} -> r.completed # NoDay
    [] do = "fixed" -> r.error
    [] do = "live"  -> r.uploaded
    [] OTHER        -> TRUE

\* The write, by id alone for a mark and with the whole condition for an undo.
Marked(do, r) ==
  CASE do = "ok"       -> [r EXCEPT !.checked = TRUE, !.error = FALSE]
    [] do = "wrong"    -> [r EXCEPT !.checked = TRUE, !.error = TRUE]
    [] do = "fixed"    -> [r EXCEPT !.fixed = TRUE]
    [] do = "uploaded" -> [r EXCEPT !.uploaded = TRUE]
    [] do = "live"     -> [r EXCEPT !.live = TRUE]

ClearIf(r, what) == IF MayUndo(r, what) THEN Uncompleted(r) ELSE r

Undos == {"undoMine", "undoComplete"}

Put(s) ==
  /\ pending[s] # None
  /\ LET do  == pending[s].do
         saw == pending[s].saw
     IN  /\ design' = IF do \in Undos THEN ClearIf(design, do) ELSE Marked(do, design)
         /\ moved' = (moved \/ (Stands(do, saw) /\ ~Stands(do, design)))
  /\ pending' = [pending EXCEPT ![s] = None]
  /\ UNCHANGED <<clock, asked>>

NextDay == /\ clock < LastDay /\ clock' = clock + 1
           /\ UNCHANGED <<design, pending, asked, moved>>

(***************************************************************************)
(* Specification.                                                          *)
(***************************************************************************)
StagesInit == /\ design = PoolRow /\ pending = [s \in Slot |-> None]
              /\ clock = 1 /\ asked = 0 /\ moved = FALSE

Looks(s) ==
  \/ LookChecked(s, "ok") \/ LookChecked(s, "wrong")
  \/ LookFixed(s) \/ LookUploaded(s) \/ LookLive(s)
  \/ \E what \in Undos : LookUndo(s, what)

Writes ==
  \/ GiveOut \/ TakeBack \/ Finish \/ Drop \/ Erase \/ MarkReviewed
  \/ \E status \in {"pool", "assigned", "done", "skipped"} : Patch(status)

StagesNext == \/ Writes \/ NextDay
              \/ \E s \in Slot : Looks(s) \/ Put(s)

StagesSpec == StagesInit /\ [][StagesNext]_stageVars

(***************************************************************************)
(* Properties.                                                             *)
(***************************************************************************)
\* The shapes; and no row in the pool has a designer.
StagesTypeOK ==
  /\ design \in RowType({Artist}, 0..LastDay)
  /\ design.status = "pool" => design.owner = NoOne
  /\ pending \in [Slot -> {None} \cup
       [do : {"ok", "wrong", "fixed", "uploaded", "live"} \cup Undos,
        saw : RowType({Artist}, 0..LastDay)]]
  /\ clock \in 1..LastDay /\ asked \in 0..MaxAsked /\ moved \in BOOLEAN

\* A row that reached a later stage has passed the earlier ones: nothing is
\* checked or uploaded unfinished, fixed without an error, or live without
\* an upload (targets.service.ts:1760,1792,1840,1871) - except where a request
\* overtook a mark between its read and its write.
OnlySlippedStages ==
  moved \/ /\ design.checked \/ design.uploaded => design.completed # NoDay
           /\ design.fixed => design.error
           /\ design.live => design.uploaded

=============================================================================
