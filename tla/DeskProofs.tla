----------------------------- MODULE DeskProofs -----------------------------
(***************************************************************************)
(* What requests and jobs do to the rows of the office, for any number of  *)
(* them. Design targets: the daily cap and whose a row is, while every     *)
(* request runs one statement at a time; and the stages of one design.     *)
(* Updates: no installer with other bytes than the published ones is ever  *)
(* run, and the staged rollout neither passes a stage unproven nor waits   *)
(* for a proof that nobody can give. With the books (BooksProofs), all of  *)
(* it holds of the runs that check them side by side (MCDesk).             *)
(***************************************************************************)
EXTENDS MCDesk, BooksProofs, FiniteSetTheorems, WellFoundedInduction, TLAPS

\* The least of some naturals.
LEMMA LeastOf == ASSUME NEW S \in SUBSET Nat, S # {} PROVE \E n \in S : \A k \in S : n <= k
BY MinIsLeast

\* A record with the columns of design_targets.
IsRow(r) ==
  r \in [ status : {r.status}, owner : {r.owner}, issued : {r.issued}, started : {r.started},
         completed : {r.completed}, by : {r.by},
         checked : {r.checked}, error : {r.error}, fixed : {r.fixed}, uploaded : {r.uploaded},
         live : {r.live}, reason : {r.reason}, reviewed : {r.reviewed} ]

\* Every statement leaves the columns there are.
LEMMA RowsStayRows ==
  ASSUME NEW r, IsRow(r)
  PROVE  /\ IsRow(PoolRow)
         /\ \A d, n : IsRow(Claimed(r, d, n)) /\ IsRow(Completed(r, n, d))
         /\ IsRow(Returned(r)) /\ IsRow(Uncompleted(r)) /\ IsRow(Deleted(r))
         /\ \A s : IsRow(Dropped(r, s))
         /\ \A s, n : IsRow(Patched(r, s, n))
<1>1. IsRow(PoolRow)
  BY DEF IsRow, PoolRow
<1>2. \A d, n : IsRow(Claimed(r, d, n)) /\ IsRow(Completed(r, n, d))
  BY DEF IsRow, Claimed, Completed
<1>3. IsRow(Returned(r)) /\ IsRow(Uncompleted(r))
  BY DEF IsRow, Returned, Uncompleted
<1>4. \A s : IsRow(Dropped(r, s)) /\ IsRow([r EXCEPT !.status = s])
  BY DEF IsRow, Dropped
<1>5. IsRow(Deleted(r))
  BY <1>4 DEF Deleted
<1>6. \A s, n : IsRow(Patched(r, s, n))
  BY <1>1, <1>2, <1>4 DEF Patched
<1> QED
  BY <1>1, <1>2, <1>3, <1>4, <1>5, <1>6

-----------------------------------------------------------------------------
\* The stages of one design.

\* An error is marked only with the check that found it; and what a mark under way read
\* allowed it.
StageInv ==
  /\ IsRow(design) /\ clock \in Nat /\ clock # NoDay
  /\ pending = [s \in Slot |-> pending[s]]
  /\ moved \/ /\ OnlySlippedStages
              /\ design.error => design.checked
              /\ \A s \in Slot : pending[s] # None => Stands(pending[s].do, pending[s].saw)
  /\ \A s \in Slot : pending[s] # None =>
       pending[s].do \in {"ok", "wrong", "fixed", "uploaded", "live"} \cup Undos

\* A statement that takes nothing back and finishes, resets or moves the row.
LEMMA StageKept ==
  ASSUME StageInv, UNCHANGED <<pending, clock, moved>>, IsRow(design'),
         moved \/ /\ design'.checked = design.checked /\ design'.uploaded = design.uploaded
                  /\ design'.error = design.error /\ design'.fixed = design.fixed
                  /\ design'.live = design.live
                  /\ design.completed # NoDay => design'.completed # NoDay
               \/ design' = PoolRow
  PROVE  StageInv'
BY DEF StageInv, OnlySlippedStages, PoolRow

LEMMA WritesKeep == ASSUME StageInv, Writes PROVE StageInv'
<1>1. UNCHANGED <<pending, clock, moved>>
  BY DEF Writes, GiveOut, TakeBack, Finish, Drop, Erase, Patch, MarkReviewed, Write
<1>2. PICK r : design' = r /\ \/ r = Claimed(design, Artist, clock) \/ r = Returned(design)
                              \/ r = Completed(design, clock, Artist) \/ r = Dropped(design, "skipped")
                              \/ r = Deleted(design) \/ r = [design EXCEPT !.reviewed = TRUE]
                              \/ \E wish \in {"pool", "assigned", "done", "skipped"} :
                                   r = Patched(design, wish, clock)
  BY DEF Writes, GiveOut, TakeBack, Finish, Drop, Erase, Patch, MarkReviewed, Write
<1>3. IsRow(design)
  BY DEF StageInv
<1>4. IsRow(design')
  <2>1. IsRow([design EXCEPT !.reviewed = TRUE])
    BY <1>3 DEF IsRow
  <2> QED
    BY <1>2, <1>3, <2>1, RowsStayRows
<1>5. ASSUME NEW x \in {"checked", "uploaded", "error", "fixed", "live"}, r # PoolRow
      PROVE  design'[x] = design[x]
  BY <1>2, <1>3, <1>5 DEF IsRow, Claimed, Returned, Completed, Dropped, Deleted, Patched
<1>6. design.completed # NoDay /\ r # PoolRow => design'.completed # NoDay
  BY <1>2, <1>3 DEF IsRow, Claimed, Returned, Completed, Dropped, Deleted, Patched, StageInv
<1> QED
  BY <1>1, <1>2, <1>4, <1>5, <1>6, StageKept

LEMMA LooksKeep == ASSUME StageInv, NEW s \in Slot, Looks(s) PROVE StageInv'
<1>1. PICK what : /\ UNCHANGED <<design, clock, moved>>
                  /\ pending' = [pending EXCEPT ![s] = [do |-> what, saw |-> design]]
                  /\ moved \/ Stands(what, design)
                  /\ what \in {"ok", "wrong", "fixed", "uploaded", "live"} \cup Undos
  <2>1. moved \/ (design.fixed => design.checked)
    BY DEF StageInv, OnlySlippedStages
  <2> QED
    BY <2>1 DEF Looks, LookChecked, LookFixed, LookUploaded, LookLive, LookUndo, Undos, Look, Stands
<1>2. pending' = [k \in Slot |-> pending'[k]]
  BY <1>1 DEF StageInv
<1>3. \A k \in Slot : pending'[k] = IF k = s THEN [do |-> what, saw |-> design] ELSE pending[k]
  BY <1>1 DEF StageInv
<1> QED
  BY <1>1, <1>2, <1>3 DEF StageInv, OnlySlippedStages

LEMMA PutKeeps == ASSUME StageInv, NEW s \in Slot, Put(s) PROVE StageInv'
<1> DEFINE do == pending[s].do
           saw == pending[s].saw
<1>1. /\ pending[s] # None
      /\ design' = IF do \in Undos THEN ClearIf(design, do) ELSE Marked(do, design)
      /\ moved' = (moved \/ (Stands(do, saw) /\ ~Stands(do, design)))
      /\ pending' = [pending EXCEPT ![s] = None] /\ UNCHANGED clock
  BY DEF Put
<1>2. IsRow(design)
  BY DEF StageInv
<1>3. pending' = [k \in Slot |-> pending'[k]]
        /\ \A k \in Slot : pending'[k] # None => pending'[k] = pending[k]
  BY <1>1 DEF StageInv
<1>4. CASE do \in Undos
  <2>1. design' = design \/ (Untouched(design) /\ design' = Uncompleted(design))
    BY <1>1, <1>4 DEF ClearIf, MayUndo
  <2>2. IsRow(design')
    BY <1>2, <2>1, RowsStayRows
  <2>3. moved \/ (OnlySlippedStages' /\ (design'.error => design'.checked))
    BY <1>2, <2>1 DEF StageInv, OnlySlippedStages, Untouched, Uncompleted, IsRow
  <2> QED
    BY <1>1, <1>3, <2>2, <2>3 DEF StageInv, OnlySlippedStages
<1>5. CASE do \notin Undos
  <2>1. design' = Marked(do, design)
    BY <1>1, <1>5
  <2>2. moved' \/ Stands(do, design)
    BY <1>1 DEF StageInv
  <2>3. CASE do \in {"ok", "wrong", "fixed", "uploaded", "live"}
    <3>1. IsRow(design')
      BY <1>2, <2>1, <2>3 DEF Marked, IsRow
    <3>2. moved' \/ (OnlySlippedStages' /\ (design'.error => design'.checked))
      <4>1. moved \/ (OnlySlippedStages /\ (design.error => design.checked))
        BY DEF StageInv
      <4>2. moved => moved'
        BY <1>1
      <4>3. CASE do = "ok"
        <5>1. design' = [design EXCEPT !.checked = TRUE, !.error = FALSE]
          BY <2>1, <4>3 DEF Marked
        <5>2. moved' \/ (design.completed # NoDay /\ ~design.fixed)
          BY <2>2, <4>3 DEF Stands
        <5> QED
          BY <1>2, <4>1, <4>2, <5>1, <5>2 DEF OnlySlippedStages, IsRow
      <4>4. CASE do = "wrong"
        <5>1. design' = [design EXCEPT !.checked = TRUE, !.error = TRUE]
          BY <2>1, <4>4 DEF Marked
        <5>2. moved' \/ design.completed # NoDay
          BY <2>2, <4>4 DEF Stands
        <5> QED
          BY <1>2, <4>1, <4>2, <5>1, <5>2 DEF OnlySlippedStages, IsRow
      <4>5. CASE do = "fixed"
        <5>1. design' = [design EXCEPT !.fixed = TRUE] /\ (moved' \/ design.error)
          BY <2>1, <2>2, <4>5 DEF Marked, Stands
        <5> QED
          BY <1>2, <4>1, <4>2, <5>1 DEF OnlySlippedStages, IsRow
      <4>6. CASE do = "uploaded"
        <5>1. design' = [design EXCEPT !.uploaded = TRUE] /\ (moved' \/ design.completed # NoDay)
          BY <2>1, <2>2, <4>6 DEF Marked, Stands
        <5> QED
          BY <1>2, <4>1, <4>2, <5>1 DEF OnlySlippedStages, IsRow
      <4>7. CASE do = "live"
        <5>1. design' = [design EXCEPT !.live = TRUE] /\ (moved' \/ design.uploaded)
          BY <2>1, <2>2, <4>7 DEF Marked, Stands
        <5> QED
          BY <1>2, <4>1, <4>2, <5>1 DEF OnlySlippedStages, IsRow
      <4> QED
        BY <2>3, <4>3, <4>4, <4>5, <4>6, <4>7
    <3> QED
      BY <1>1, <1>3, <3>1, <3>2 DEF StageInv, OnlySlippedStages
  <2> QED
    BY <1>1, <1>5, <2>3 DEF StageInv
<1> QED
  BY <1>4, <1>5

(***************************************************************************)
(* A row that reached a later stage has passed the earlier ones, unless a  *)
(* request overtook a mark between its read and its write: the reads of    *)
(* the four marks, and the undos that leave a later stage alone, suffice.  *)
(***************************************************************************)
THEOREM StagesInOrder == StagesSpec => []OnlySlippedStages
<1>1. StagesInit => StageInv
  BY DEF StagesInit, StageInv, OnlySlippedStages, PoolRow, IsRow, NoDay
<1>2. StageInv /\ [StagesNext]_stageVars => StageInv'
  <2>1. StageInv /\ NextDay => StageInv'
    BY DEF NextDay, StageInv, OnlySlippedStages, NoDay
  <2>2. StageInv /\ UNCHANGED stageVars => StageInv'
    BY DEF stageVars, StageInv, OnlySlippedStages
  <2> QED
    BY <2>1, <2>2, WritesKeep, LooksKeep, PutKeeps DEF StagesNext
<1>3. StageInv => OnlySlippedStages \/ moved
  BY DEF StageInv
<1>4. moved => OnlySlippedStages
  BY DEF OnlySlippedStages
<1> QED
  BY <1>1, <1>2, <1>3, <1>4, PTL DEF StagesSpec

\* The shapes of a design and of the requests about it.
\* Every statement leaves a row of its designers and its days.
LEMMA RowsStayTyped ==
  ASSUME NEW who, NEW days, NEW r \in RowType(who, days), NoDay \in days
  PROVE  /\ PoolRow \in RowType(who, days)
         /\ \A d \in who, n \in days : Claimed(r, d, n) \in RowType(who, days)
         /\ \A d \in who \cup {NoOne, Staff}, n \in days : Completed(r, n, d) \in RowType(who, days)
         /\ Returned(r) \in RowType(who, days)
         /\ Uncompleted(r) \in RowType(who, days)
         /\ Dropped(r, "skipped") \in RowType(who, days)
         /\ Deleted(r) \in RowType(who, days)
         /\ [r EXCEPT !.reviewed = TRUE] \in RowType(who, days)
         /\ [r EXCEPT !.started = TRUE] \in RowType(who, days)
         /\ \A n \in days, s \in {"pool", "assigned", "done", "skipped"} :
              Patched(r, s, n) \in RowType(who, days)
<1>1. PoolRow \in RowType(who, days)
  BY DEF PoolRow, RowType
<1>2. ASSUME NEW d \in who, NEW n \in days PROVE Claimed(r, d, n) \in RowType(who, days)
  BY DEF Claimed, RowType
<1>3. ASSUME NEW d \in who \cup {NoOne, Staff}, NEW n \in days
      PROVE  Completed(r, n, d) \in RowType(who, days)
  BY DEF Completed, RowType
<1>4. Returned(r) \in RowType(who, days) /\ Uncompleted(r) \in RowType(who, days)
  BY DEF Returned, Uncompleted, RowType
<1>5. Dropped(r, "skipped") \in RowType(who, days) /\ Dropped(r, "deleted") \in RowType(who, days)
  BY DEF Dropped, RowType
<1>6. Deleted(r) \in RowType(who, days)
  BY <1>5 DEF Deleted
<1>7. /\ [r EXCEPT !.reviewed = TRUE] \in RowType(who, days)
      /\ [r EXCEPT !.started = TRUE] \in RowType(who, days)
  BY DEF RowType
<1>8. ASSUME NEW n \in days, NEW s \in {"pool", "assigned", "done", "skipped"}
      PROVE  Patched(r, s, n) \in RowType(who, days)
  <2>1. CASE s = "pool"
    BY <1>1, <2>1 DEF Patched
  <2>2. CASE s = "done"
    BY <1>3, <2>2 DEF Patched
  <2>3. CASE s \in {"assigned", "skipped"}
    <3>1. Patched(r, s, n) = [r EXCEPT !.status = s]
      BY <2>3 DEF Patched
    <3> QED
      BY <2>3, <3>1 DEF RowType
  <2> QED
    BY <2>1, <2>2, <2>3
<1> QED
  BY <1>1, <1>2, <1>3, <1>4, <1>5, <1>6, <1>7, <1>8

-----------------------------------------------------------------------------
LEMMA WritesTyped == ASSUME StagesTypeOK, Writes PROVE StagesTypeOK'
<1> DEFINE Rows == RowType({Artist}, 0 .. LastDay)
<1>1. /\ asked' = asked + 1 /\ asked' \in 0 .. MaxAsked
      /\ UNCHANGED <<pending, clock, moved>>
  BY StagesAssumption
  DEF Writes, GiveOut, TakeBack, Finish, Drop, Erase, Patch, MarkReviewed, Write, Ask, StagesTypeOK
<1>2. design \in Rows /\ clock \in 0 .. LastDay /\ NoDay \in 0 .. LastDay
  BY StagesAssumption DEF StagesTypeOK, NoDay
<1> HIDE DEF Rows
<1>3. /\ PoolRow \in Rows /\ Claimed(design, Artist, clock) \in Rows
      /\ Returned(design) \in Rows /\ Completed(design, clock, Artist) \in Rows
      /\ Dropped(design, "skipped") \in Rows /\ Deleted(design) \in Rows
      /\ [design EXCEPT !.reviewed = TRUE] \in Rows
      /\ \A s \in {"pool", "assigned", "done", "skipped"} : Patched(design, s, clock) \in Rows
  BY <1>2, RowsStayTyped DEF Rows
<1>4. design' \in Rows
  BY <1>3 DEF Writes, GiveOut, TakeBack, Finish, Drop, Erase, Patch, MarkReviewed, Write
<1>5. design'.status = "pool" => design'.owner = NoOne
  <2>1. design.status = "pool" => design.owner = NoOne
    BY DEF StagesTypeOK
  <2>2. CASE GiveOut \/ TakeBack \/ Finish \/ Drop
    BY <1>2, <2>1, <2>2 DEF GiveOut, TakeBack, Finish, Drop, Write, Claimed, Returned, Completed,
       Dropped, Rows, RowType
  <2>3. CASE Erase \/ MarkReviewed
    BY <1>2, <2>1, <2>3 DEF Erase, MarkReviewed, Write, Deleted, Dropped, Rows, RowType
  <2>4. CASE \E s \in {"pool", "assigned", "done", "skipped"} : Patch(s)
    <3>1. PICK s \in {"pool", "assigned", "done", "skipped"} : design' = Patched(design, s, clock)
      BY <2>4 DEF Patch, Write
    <3> QED
      BY <1>2, <2>1, <3>1 DEF Patched, PoolRow, Completed, Rows, RowType
  <2> QED
    BY <2>2, <2>3, <2>4 DEF Writes
<1> QED
  BY <1>1, <1>4, <1>5 DEF StagesTypeOK, Rows

LEMMA LooksTyped == ASSUME StagesTypeOK, NEW s \in Slot, Looks(s) PROVE StagesTypeOK'
<1>1. PICK what \in {"ok", "wrong", "fixed", "uploaded", "live"} \cup Undos :
        /\ UNCHANGED <<design, clock, moved>> /\ Ask
        /\ pending' = [pending EXCEPT ![s] = [do |-> what, saw |-> design]]
  BY DEF Looks, LookChecked, LookFixed, LookUploaded, LookLive, LookUndo, Look, Undos
<1>2. asked' \in 0 .. MaxAsked
  BY <1>1, StagesAssumption DEF Ask, StagesTypeOK
<1> QED
  BY <1>1, <1>2 DEF StagesTypeOK

LEMMA PutTyped == ASSUME StagesTypeOK, NEW s \in Slot, Put(s) PROVE StagesTypeOK'
<1> DEFINE do == pending[s].do
           Rows == RowType({Artist}, 0 .. LastDay)
<1>1. /\ pending[s] # None
      /\ design' = IF do \in Undos THEN ClearIf(design, do) ELSE Marked(do, design)
      /\ moved' \in BOOLEAN
      /\ pending' = [pending EXCEPT ![s] = None] /\ UNCHANGED <<clock, asked>>
  BY DEF Put, StagesTypeOK, Stands
<1>2. do \in {"ok", "wrong", "fixed", "uploaded", "live"} \cup Undos /\ design \in Rows
  BY <1>1 DEF StagesTypeOK
<1>3. design' \in Rows /\ (design'.status = "pool" => design'.owner = NoOne)
  <2>1. design.status = "pool" => design.owner = NoOne
    BY DEF StagesTypeOK
  <2>2. CASE do \in Undos
    <3>1. NoDay \in 0 .. LastDay
      BY StagesAssumption DEF NoDay
    <3>2. Uncompleted(design) \in Rows
      BY <1>2, <3>1, RowsStayTyped
    <3>3. Uncompleted(design).status = "assigned"
      BY <1>2 DEF Uncompleted, RowType
    <3>4. design' = design \/ design' = Uncompleted(design)
      BY <1>1, <2>2 DEF ClearIf
    <3> QED
      BY <1>2, <2>1, <3>2, <3>3, <3>4
  <2>3. CASE do \notin Undos
    <3>1. design' = Marked(do, design) /\ do \in {"ok", "wrong", "fixed", "uploaded", "live"}
      BY <1>1, <1>2, <2>3
    <3> HIDE DEF do
    <3> QED
      BY <1>2, <2>1, <3>1 DEF Marked, RowType
  <2> QED
    BY <2>2, <2>3
<1>4. pending' \in [Slot -> {None} \cup
         [do : {"ok", "wrong", "fixed", "uploaded", "live"} \cup Undos, saw : Rows]]
  BY <1>1 DEF StagesTypeOK
<1> QED
  BY <1>1, <1>3, <1>4 DEF StagesTypeOK

\* The shapes of a design and of the marks under way.
THEOREM StagesTyped == StagesSpec => []StagesTypeOK
<1>1. StagesInit => StagesTypeOK
  <2> SUFFICES ASSUME StagesInit PROVE StagesTypeOK
    OBVIOUS
  <2>1. design \in RowType({Artist}, 0 .. LastDay) /\ design.owner = NoOne
    BY StagesAssumption DEF StagesInit, PoolRow, RowType, NoDay
  <2>2. pending \in [Slot -> {None}] /\ clock \in 1 .. LastDay /\ asked \in 0 .. MaxAsked
    BY StagesAssumption DEF StagesInit
  <2>3. moved \in BOOLEAN
    BY DEF StagesInit
  <2> QED
    BY <2>1, <2>2, <2>3 DEF StagesTypeOK
<1>2. StagesTypeOK /\ [StagesNext]_stageVars => StagesTypeOK'
  <2>1. ASSUME StagesTypeOK, NextDay PROVE StagesTypeOK'
    <3>1. clock' \in 1 .. LastDay /\ UNCHANGED <<design, pending, asked, moved>>
      BY <2>1, StagesAssumption DEF NextDay, StagesTypeOK
    <3> QED
      BY <2>1, <3>1 DEF StagesTypeOK
  <2>2. StagesTypeOK /\ UNCHANGED stageVars => StagesTypeOK'
    BY DEF stageVars, StagesTypeOK
  <2> QED
    BY <2>1, <2>2, WritesTyped, LooksTyped, PutTyped DEF StagesNext
<1> QED
  BY <1>1, <1>2, PTL DEF StagesSpec

-----------------------------------------------------------------------------
\* The pool.

\* The advisory lock: a designer has one completion under way, and there is room for it.
LockInv ==
  \A c \in Call : call[c].op = "done" =>
    /\ call[c].who \in Designer
    /\ \A k \in Call : call[k].op = "done" /\ call[k].who = call[c].who => k = c
    /\ \A d \in {call[c].who}, n \in {call[c].day} :
         Quota[d] > 0 => Cardinality(OwnDone(d, n)) < Quota[d]

PoolInv ==
  /\ row = [t \in Target |-> row[t]] /\ \A t \in Target : IsRow(row[t])
  /\ call = [c \in Call |-> call[c]]
  /\ LockInv /\ CapKept

\* Whose a row is, and what a designer finished himself.
Mine(r, d, n) == r.owner = d /\ r.completed = n /\ r.status = "done" /\ r.by = d

LEMMA OwnDoneMine == \A d, n : OwnDone(d, n) = {t \in Target : Mine(row[t], d, n)}
BY DEF OwnDone, DoneOn, Mine

LEMMA OwnDoneFinite ==
  \A d, n : /\ IsFiniteSet(OwnDone(d, n)) /\ Cardinality(OwnDone(d, n)) \in Nat
            /\ IsFiniteSet(DoneOn(d, n)) /\ Cardinality(DoneOn(d, n)) \in Nat
            /\ Cardinality(OwnDone(d, n)) <= Cardinality(DoneOn(d, n))
<1> SUFFICES ASSUME NEW d, NEW n
             PROVE  /\ IsFiniteSet(OwnDone(d, n)) /\ Cardinality(OwnDone(d, n)) \in Nat
                    /\ IsFiniteSet(DoneOn(d, n)) /\ Cardinality(DoneOn(d, n)) \in Nat
                    /\ Cardinality(OwnDone(d, n)) <= Cardinality(DoneOn(d, n))
  OBVIOUS
<1>1. DoneOn(d, n) \subseteq Target /\ OwnDone(d, n) \subseteq DoneOn(d, n) /\ IsFiniteSet(Target)
  BY PoolAssumption DEF DoneOn, OwnDone
<1>2. IsFiniteSet(DoneOn(d, n))
  BY <1>1, FS_Subset
<1> QED
  BY <1>1, <1>2, FS_Subset, FS_CardinalityType

\* What one statement of a request does to one row: nobody but markDone makes a row one
\* that its designer finished himself.
Allowed(r, after) ==
  \/ after = r
  \/ r.status = "pool" /\ \E d, n : after = Claimed(r, d, n)
  \/ r.status = "assigned" /\ after = Returned(r)
  \/ after = [r EXCEPT !.started = TRUE]

\* And one request of one statement.
OnRequest(r, after) ==
  \/ after = Dropped(r, "skipped") \/ after = Uncompleted(r) \/ after = Deleted(r)
  \/ \E s \in {"pool", "assigned", "done", "skipped"} : \E n : after = Patched(r, s, n)

LEMMA StatementMine ==
  ASSUME NEW r, IsRow(r), NEW after, Allowed(r, after) \/ OnRequest(r, after)
  PROVE  /\ IsRow(after)
         /\ \A d \in Designer : \A n : Mine(after, d, n) => Mine(r, d, n)
         /\ after.owner \notin {r.owner, NoOne} => r.status = "pool"
         /\ r.status = "done" /\ after.status # "done" => ~Allowed(r, after)
<1>1. IsRow([r EXCEPT !.started = TRUE])
  BY DEF IsRow
<1>2. IsRow(after)
  BY <1>1, RowsStayRows DEF Allowed, OnRequest
<1>3. ASSUME Allowed(r, after)
      PROVE  /\ \A d, n : Mine(after, d, n) => Mine(r, d, n)
             /\ after.owner \notin {r.owner, NoOne} => r.status = "pool"
             /\ r.status = "done" => after.status = "done"
  <2>1. CASE after = r
    BY <2>1
  <2>2. CASE r.status = "pool" /\ \E d, n : after = Claimed(r, d, n)
    BY <2>2 DEF Claimed, IsRow, Mine
  <2>3. CASE r.status = "assigned" /\ after = Returned(r)
    BY <2>3 DEF Returned, IsRow, Mine
  <2>4. CASE after = [r EXCEPT !.started = TRUE]
    BY <2>4 DEF IsRow, Mine
  <2> QED
    BY <1>3, <2>1, <2>2, <2>3, <2>4 DEF Allowed
<1>4. ASSUME OnRequest(r, after)
      PROVE  /\ \A d \in Designer : \A n : Mine(after, d, n) => Mine(r, d, n)
             /\ after.owner \in {r.owner, NoOne}
  <2>1. CASE after = Dropped(r, "skipped") \/ after = Uncompleted(r)
    BY <2>1 DEF Dropped, Uncompleted, IsRow, Mine
  <2>2. CASE after = Deleted(r)
    BY <2>2 DEF Deleted, Dropped, IsRow, Mine
  <2>3. CASE \E s \in {"pool", "assigned", "done", "skipped"} : \E n : after = Patched(r, s, n)
    <3>1. PICK s \in {"pool", "assigned", "done", "skipped"} : \E n : after = Patched(r, s, n)
      BY <2>3
    <3>2. CASE s = "pool"
      BY <3>1, <3>2 DEF Patched, PoolRow, Mine
    <3>3. CASE s = "done" /\ r.status # "done"
      <4>1. after.by = Staff /\ after.owner = r.owner
        BY <3>1, <3>3 DEF Patched, Completed, IsRow
      <4> QED
        BY <4>1, PoolAssumption DEF Mine
    <3>4. CASE s = "done" /\ r.status = "done"
      BY <3>1, <3>4 DEF Patched
    <3>5. CASE s \in {"assigned", "skipped"}
      BY <3>1, <3>5 DEF Patched, IsRow, Mine
    <3> QED
      BY <3>1, <3>2, <3>3, <3>4, <3>5
  <2> QED
    BY <1>4, <2>1, <2>2, <2>3 DEF OnRequest
<1> QED
  BY <1>2, <1>3, <1>4

\* A step that gives no designer a completion of his own, and takes no lock.
LEMMA PoolKept ==
  ASSUME PoolInv,
         row' = [t \in Target |-> row'[t]],
         \A t \in Target : Allowed(row[t], row'[t]) \/ OnRequest(row[t], row'[t]),
         call' = [c \in Call |-> call'[c]],
         \A c \in Call : call'[c].op = "done" => call'[c] = call[c]
  PROVE  PoolInv'
<1>1. \A t \in Target : IsRow(row'[t])
  BY StatementMine DEF PoolInv
<1>2. ASSUME NEW d \in Designer, NEW n
      PROVE  /\ OwnDone(d, n)' \subseteq OwnDone(d, n)
             /\ Cardinality(OwnDone(d, n)') <= Cardinality(OwnDone(d, n))
             /\ Cardinality(OwnDone(d, n)') \in Nat /\ Cardinality(OwnDone(d, n)) \in Nat
  <2>1. OwnDone(d, n)' = {t \in Target : Mine(row'[t], d, n)}
    BY DEF OwnDone, DoneOn, Mine
  <2>2. OwnDone(d, n)' \subseteq OwnDone(d, n)
    BY <2>1, OwnDoneMine, StatementMine DEF PoolInv
  <2>3. IsFiniteSet(OwnDone(d, n)) /\ Cardinality(OwnDone(d, n)) \in Nat
    BY OwnDoneFinite
  <2>4. IsFiniteSet(OwnDone(d, n)')
    BY <2>2, <2>3, FS_Subset
  <2> QED
    BY <2>2, <2>3, <2>4, FS_Subset, FS_CardinalityType
<1>3. CapKept'
  <2> SUFFICES ASSUME NEW d \in Designer, NEW n \in 1 .. MaxDay, Quota[d] > 0
               PROVE  Cardinality(OwnDone(d, n)') <= Quota[d]
    BY DEF CapKept
  <2> QED
    BY <1>2, PoolAssumption DEF PoolInv, CapKept
<1>4. LockInv'
  <2> SUFFICES ASSUME NEW c \in Call, call'[c].op = "done"
               PROVE  /\ call'[c].who \in Designer
                      /\ \A k \in Call : call'[k].op = "done" /\ call'[k].who = call'[c].who => k = c
                      /\ \A d \in {call'[c].who}, n \in {call'[c].day} :
                           Quota[d] > 0 => Cardinality(OwnDone(d, n)') < Quota[d]
    BY DEF LockInv
  <2>1. call'[c] = call[c] /\ call[c].op = "done" /\ call[c].who \in Designer
    BY DEF PoolInv, LockInv
  <2>2. \A k \in Call : call'[k].op = "done" /\ call'[k].who = call'[c].who => k = c
    BY <2>1 DEF PoolInv, LockInv
  <2>3. ASSUME NEW d \in {call'[c].who}, NEW n \in {call'[c].day}, Quota[d] > 0
        PROVE  Cardinality(OwnDone(d, n)') < Quota[d]
    <3>1. d \in Designer /\ d \in {call[c].who} /\ n \in {call[c].day}
      BY <2>1, <2>3
    <3>2. Cardinality(OwnDone(d, n)) < Quota[d]
      BY <2>1, <2>3, <3>1 DEF PoolInv, LockInv
    <3> QED
      BY <1>2, <3>1, <3>2, PoolAssumption
  <2> QED
    BY <2>1, <2>2, <2>3
<1> QED
  BY <1>1, <1>3, <1>4 DEF PoolInv

\* The calls of a step: one of them becomes `op', which takes no lock.
LEMMA CallsKept ==
  ASSUME PoolInv, NEW c, NEW op, op.op # "done", call' = [call EXCEPT ![c] = op]
  PROVE  /\ call' = [k \in Call |-> call'[k]]
         /\ \A k \in Call : call'[k].op = "done" => call'[k] = call[k]
BY DEF PoolInv

\* What a request becomes is no completion.
LEMMA NoLock ==
  /\ Idle.op # "done"
  /\ \A sizes, day : Giving(sizes, day).op # "done"
  /\ \A who, day : ToppingUp(who, day).op # "done"
  /\ \A k : AfterClaim(k).op # "done"
<1>1. /\ Idle.op # "done"
      /\ \A sizes, day : Giving(sizes, day).op # "done"
      /\ \A who, day : ToppingUp(who, day).op # "done"
  BY DEF Idle, Giving, ToppingUp
<1> QED
  BY <1>1 DEF AfterClaim

\* A step that leaves the rows alone.
LEMMA RowsUntouched ==
  ASSUME PoolInv, UNCHANGED row
  PROVE  /\ row' = [t \in Target |-> row'[t]]
         /\ \A t \in Target : Allowed(row[t], row'[t]) \/ OnRequest(row[t], row'[t])
BY DEF PoolInv, Allowed

\* A step that writes one row.
LEMMA OneRow ==
  ASSUME PoolInv, NEW t, NEW r, row' = [row EXCEPT ![t] = r],
         t \in Target => Allowed(row[t], r) \/ OnRequest(row[t], r)
  PROVE  /\ row' = [u \in Target |-> row'[u]]
         /\ \A u \in Target : Allowed(row[u], row'[u]) \/ OnRequest(row[u], row'[u])
<1>1. \A u \in Target : row'[u] = IF u = t THEN r ELSE row[u]
  BY DEF PoolInv
<1>2. \A u \in Target : Allowed(row[u], row[u])
  BY DEF Allowed
<1>3. row' = [u \in Target |-> row'[u]]
  BY DEF PoolInv
<1> QED
  BY <1>1, <1>2, <1>3

\* What a step keeps: rows change hands through the pool, and only a request un-finishes one.
HandsKept == \A t \in Target : /\ HandedOver(t) => row[t].status = "pool"
                               /\ Unfinished(t) => asks' = asks + 1

\* A step that writes rows by statements, or is a request, and takes no lock.
LEMMA StepKeeps ==
  ASSUME PoolInv,
         row' = [t \in Target |-> row'[t]],
         \A t \in Target : Allowed(row[t], row'[t]) \/ OnRequest(row[t], row'[t]),
         call' = [c \in Call |-> call'[c]],
         \A c \in Call : call'[c].op = "done" => call'[c] = call[c],
         asks' = asks + 1 \/ \A t \in Target : Allowed(row[t], row'[t])
  PROVE  PoolInv' /\ HandsKept
<1>1. PoolInv'
  BY PoolKept
<1>2. ASSUME NEW t \in Target PROVE HandedOver(t) => row[t].status = "pool"
  BY StatementMine DEF HandedOver, PoolInv
<1>3. ASSUME NEW t \in Target PROVE Unfinished(t) => asks' = asks + 1
  BY StatementMine DEF Unfinished, PoolInv
<1> QED
  BY <1>1, <1>2, <1>3 DEF HandsKept

\* A request or a statement of one that writes no row.
LEMMA ReadsKeep ==
  ASSUME PoolInv, NEW c, NEW op, op.op # "done", call' = [call EXCEPT ![c] = op], UNCHANGED row
  PROVE  PoolInv' /\ HandsKept
<1>1. \A t \in Target : Allowed(row[t], row'[t])
  BY DEF Allowed
<1> HIDE DEF PoolInv, Allowed
<1> QED
  BY <1>1, RowsUntouched, CallsKept, StepKeeps

\* A request of one statement.
LEMMA SingleKeeps ==
  ASSUME PoolInv, NEW t \in Target, NEW r, OnRequest(row[t], r), Single(t, r)
  PROVE  PoolInv' /\ HandsKept
<1>1. row' = [row EXCEPT ![t] = r] /\ asks' = asks + 1 /\ call' = call
  BY DEF Single
<1>2. call' = [k \in Call |-> call'[k]] /\ \A k \in Call : call'[k].op = "done" => call'[k] = call[k]
  BY <1>1 DEF PoolInv
<1> QED
  BY <1>1, <1>2, OneRow, StepKeeps

LEMMA SinglesKeep == ASSUME PoolInv, NEW t \in Target, Singles(t) PROVE PoolInv' /\ HandsKept
<1>1. CASE (\E d \in Designer : UndoMine(d, t)) \/ UndoComplete(t)
  BY <1>1, SingleKeeps DEF UndoMine, UndoComplete, OnRequest
<1>2. CASE SoftDelete(t)
  BY <1>2, SingleKeeps DEF SoftDelete, OnRequest
<1>3. CASE \E wish \in {"pool", "assigned", "done", "skipped"} : Update(t, wish)
  BY <1>3, SingleKeeps DEF Update, OnRequest
<1> QED
  BY <1>1, <1>2, <1>3 DEF Singles

\* Taking the lock: today's completions were counted, and one more fits.
LEMMA MarkDoneKeeps ==
  ASSUME PoolInv, NEW c \in Call, NEW d \in Designer, NEW t \in Target, MarkDone(c, d, t)
  PROVE  PoolInv' /\ HandsKept
<1> DEFINE k == [op |-> "done", who |-> d, row |-> t, day |-> today]
<1>1. ~Locked(d) /\ UnderCap(d, today) /\ call' = [call EXCEPT ![c] = k] /\ UNCHANGED row
  BY DEF MarkDone, Begin
<1>2. \A j \in Call : call'[j] = IF j = c THEN k ELSE call[j]
  BY <1>1 DEF PoolInv
<1>3. \A a, n : OwnDone(a, n)' = OwnDone(a, n)
  BY <1>1 DEF OwnDone, DoneOn
<1>4. CapKept'
  BY <1>3 DEF PoolInv, CapKept
<1>5. \A n \in {today} : Quota[d] > 0 => Cardinality(OwnDone(d, n)) < Quota[d]
  <2>1. Quota[d] > 0 => Cardinality(DoneOn(d, today)) < Quota[d]
    BY <1>1, PoolAssumption DEF UnderCap
  <2> QED
    BY <2>1, OwnDoneFinite, PoolAssumption
<1>6. LockInv'
  <2> SUFFICES ASSUME NEW i \in Call, call'[i].op = "done"
               PROVE  /\ call'[i].who \in Designer
                      /\ \A j \in Call : call'[j].op = "done" /\ call'[j].who = call'[i].who => j = i
                      /\ \A a \in {call'[i].who}, n \in {call'[i].day} :
                           Quota[a] > 0 => Cardinality(OwnDone(a, n)') < Quota[a]
    BY DEF LockInv
  <2>1. \A j \in Call : j # c /\ call'[j].op = "done" => call[j] = call'[j] /\ call'[j].who # d
    BY <1>1, <1>2 DEF Locked
  <2>2. CASE i = c
    <3>1. call'[i].who = d /\ call'[i].day = today
      BY <1>2, <2>2
    <3> HIDE DEF k
    <3> QED
      BY <1>3, <1>5, <2>1, <2>2, <3>1
  <2>3. CASE i # c
    <3>1. call'[i] = call[i] /\ call'[i].who # d
      BY <2>1, <2>3
    <3>2. \A j \in Call : call'[j].op = "done" /\ call'[j].who = call'[i].who => j = i
      BY <1>2, <2>1, <3>1 DEF PoolInv, LockInv
    <3> HIDE DEF k
    <3> QED
      BY <1>3, <3>1, <3>2 DEF PoolInv, LockInv
  <2> QED
    BY <2>2, <2>3
<1>7. HandsKept
  BY <1>1 DEF HandsKept, HandedOver, Unfinished
<1>8. row' = [u \in Target |-> row'[u]] /\ call' = [j \in Call |-> call'[j]]
  BY <1>1 DEF PoolInv
<1> QED
  BY <1>1, <1>4, <1>6, <1>7, <1>8 DEF PoolInv

\* The update and the commit: one completion of his own more, for which there was room.
LEMMA CommitKeeps ==
  ASSUME PoolInv, NEW c \in Call, CommitDone(c)
  PROVE  PoolInv' /\ HandsKept
<1> DEFINE u == call[c].row
           d == call[c].who
           n == call[c].day
           mine == row[u].owner = d /\ row[u].status = "assigned"
<1>1. /\ call[c].op = "done"
      /\ row' = [row EXCEPT ![u] = IF mine THEN Completed(@, n, d) ELSE @]
      /\ call' = [call EXCEPT ![c] = IF mine THEN ToppingUp(<<d>>, n) ELSE Idle]
  BY DEF CommitDone, Becomes
<1>2. call' = [j \in Call |-> call'[j]]
      /\ \A j \in Call : call'[j].op = "done" => j # c /\ call'[j] = call[j]
  <2>1. (IF mine THEN ToppingUp(<<d>>, n) ELSE Idle).op # "done"
    BY NoLock
  <2> HIDE DEF mine, u, n
  <2> QED
    BY <1>1, <2>1 DEF PoolInv
<1>3. CASE mine /\ u \in Target
  <2>1. row' = [t \in Target |-> IF t = u THEN Completed(row[u], n, d) ELSE row[t]]
    BY <1>1, <1>3 DEF PoolInv
  <2>2. \A t \in Target : IsRow(row'[t])
    BY <2>1, RowsStayRows DEF PoolInv
  <2>3. ASSUME NEW a, NEW m
        PROVE  OwnDone(a, m)' \subseteq
                 OwnDone(a, m) \cup (IF a = d /\ m = n THEN {u} ELSE {})
    <3>1. OwnDone(a, m)' = {t \in Target : Mine(row'[t], a, m)}
      BY DEF OwnDone, DoneOn, Mine
    <3>2. \A t \in Target : Mine(row'[t], a, m) =>
             Mine(row[t], a, m) \/ (t = u /\ a = d /\ m = n)
      <4>1. \A t \in Target : t # u => row'[t] = row[t]
        BY <2>1
      <4>2. row'[u].owner = d /\ row'[u].completed = n
        BY <2>1, <1>3 DEF Completed, PoolInv, IsRow
      <4> HIDE DEF d, n, u
      <4> QED
        BY <4>1, <4>2 DEF Mine
    <3> QED
      BY <3>1, <3>2, OwnDoneMine
  <2>4. ASSUME NEW a, NEW m
        PROVE  /\ Cardinality(OwnDone(a, m)') \in Nat
               /\ ~(a = d /\ m = n) => Cardinality(OwnDone(a, m)') <= Cardinality(OwnDone(a, m))
               /\ Cardinality(OwnDone(a, m)') <= Cardinality(OwnDone(a, m)) + 1
    <3>1. IsFiniteSet(OwnDone(a, m)) /\ Cardinality(OwnDone(a, m)) \in Nat
      BY OwnDoneFinite
    <3>2. /\ IsFiniteSet(OwnDone(a, m) \cup {u})
          /\ Cardinality(OwnDone(a, m) \cup {u}) \in Nat
          /\ Cardinality(OwnDone(a, m) \cup {u}) <= Cardinality(OwnDone(a, m)) + 1
      <4>1. /\ IsFiniteSet(OwnDone(a, m) \cup {u})
            /\ \/ Cardinality(OwnDone(a, m) \cup {u}) = Cardinality(OwnDone(a, m))
               \/ Cardinality(OwnDone(a, m) \cup {u}) = Cardinality(OwnDone(a, m)) + 1
        <5> HIDE DEF u
        <5> QED
          BY <3>1, FS_AddElement
      <4> HIDE DEF u
      <4> QED
        BY <3>1, <4>1
    <3>3. OwnDone(a, m)' \subseteq OwnDone(a, m) \cup {u}
      BY <2>3
    <3>4. IsFiniteSet(OwnDone(a, m)') /\ Cardinality(OwnDone(a, m)') \in Nat
          /\ Cardinality(OwnDone(a, m)') <= Cardinality(OwnDone(a, m) \cup {u})
      BY <3>2, <3>3, FS_Subset, FS_CardinalityType
    <3>5. ~(a = d /\ m = n) => Cardinality(OwnDone(a, m)') <= Cardinality(OwnDone(a, m))
      BY <2>3, <3>1, FS_Subset
    <3> QED
      BY <3>1, <3>2, <3>4, <3>5
  <2>5. \A a \in {d}, m \in {n} :
           Quota[a] > 0 => Cardinality(OwnDone(a, m)) < Quota[a]
    BY <1>1 DEF PoolInv, LockInv
  <2>6. CapKept'
    <3> SUFFICES ASSUME NEW a \in Designer, NEW m \in 1 .. MaxDay, Quota[a] > 0
                 PROVE  Cardinality(OwnDone(a, m)') <= Quota[a]
      BY DEF CapKept
    <3>1. Cardinality(OwnDone(a, m)) <= Quota[a]
      BY DEF PoolInv, CapKept
    <3>2. a = d /\ m = n => Cardinality(OwnDone(a, m)) < Quota[a]
      BY <2>5
    <3>3. Cardinality(OwnDone(a, m)) \in Nat /\ Quota[a] \in Nat
      BY OwnDoneFinite, PoolAssumption
    <3> HIDE DEF d, n, u, mine
    <3> QED
      BY <2>4, <3>1, <3>2, <3>3
  <2>7. LockInv'
    <3> SUFFICES ASSUME NEW i \in Call, call'[i].op = "done"
                 PROVE  /\ call'[i].who \in Designer
                        /\ \A j \in Call : call'[j].op = "done" /\ call'[j].who = call'[i].who => j = i
                        /\ \A a \in {call'[i].who}, m \in {call'[i].day} :
                             Quota[a] > 0 => Cardinality(OwnDone(a, m)') < Quota[a]
      BY DEF LockInv
    <3>1. i # c /\ call'[i] = call[i] /\ call[i].op = "done" /\ call[i].who \in Designer
      BY <1>2 DEF PoolInv, LockInv
    <3>2. call[i].who # d
      BY <1>1, <3>1 DEF PoolInv, LockInv
    <3>3. \A j \in Call : call'[j].op = "done" /\ call'[j].who = call'[i].who => j = i
      BY <1>2, <3>1 DEF PoolInv, LockInv
    <3>4. ASSUME NEW a \in {call'[i].who}, NEW m \in {call'[i].day}, Quota[a] > 0
          PROVE  Cardinality(OwnDone(a, m)') < Quota[a]
      <4>1. a # d /\ a \in Designer /\ Cardinality(OwnDone(a, m)) < Quota[a]
        BY <3>1, <3>2, <3>4 DEF PoolInv, LockInv
      <4>2. Cardinality(OwnDone(a, m)) \in Nat /\ Quota[a] \in Nat
        BY <4>1, OwnDoneFinite, PoolAssumption
      <4> HIDE DEF d, n, u, mine
      <4> QED
        BY <2>4, <4>1, <4>2
    <3> QED
      BY <3>1, <3>3, <3>4
  <2>8. HandsKept
    <3>1. ASSUME NEW t \in Target
          PROVE  row'[t].owner = row[t].owner /\ (t # u => row'[t] = row[t])
      BY <2>1, <1>3 DEF Completed, PoolInv, IsRow
    <3>2. row[u].status = "assigned"
      BY <1>3
    <3> QED
      BY <3>1, <3>2 DEF HandsKept, HandedOver, Unfinished
  <2> QED
    BY <1>2, <2>1, <2>2, <2>6, <2>7, <2>8 DEF PoolInv
<1>4. CASE ~(mine /\ u \in Target)
  <2>1. \A t \in Target : row'[t] = row[t]
    <3>1. row' = [row EXCEPT ![u] = IF mine THEN Completed(row[u], n, d) ELSE row[u]]
      BY <1>1
    <3>2. ~mine => row' = [row EXCEPT ![u] = row[u]]
      BY <3>1
    <3> HIDE DEF mine, u
    <3> QED
      BY <1>4, <3>1, <3>2 DEF PoolInv
  <2>3. row' = [t \in Target |-> row'[t]]
    BY <1>1 DEF PoolInv
  <2>2. \A t \in Target : Allowed(row[t], row'[t])
    BY <2>1 DEF Allowed
  <2> QED
    BY <1>2, <2>2, <2>3, StepKeeps
<1> QED
  BY <1>3, <1>4

LEMMA RequestsKeep == ASSUME PoolInv, NEW c \in Call, Requests(c) PROVE PoolInv' /\ HandsKept
<1>1. CASE Distribute(c)
  BY <1>1, NoLock, ReadsKeep DEF Distribute, Begin
<1>2. ASSUME NEW d \in Designer, NEW t \in Target, MarkDone(c, d, t) PROVE PoolInv' /\ HandsKept
  BY <1>2, MarkDoneKeeps
<1>3. ASSUME NEW d \in Designer, NEW t \in Target, Skip(c, d, t) PROVE PoolInv' /\ HandsKept
  <2>1. /\ row' = [row EXCEPT ![t] = Dropped(row[t], "skipped")]
        /\ call' = [call EXCEPT ![c] = ToppingUp(<<d>>, today)] /\ asks' = asks + 1
    BY <1>3 DEF Skip, Begin
  <2>2. OnRequest(row[t], Dropped(row[t], "skipped"))
    BY DEF OnRequest
  <2>3. ToppingUp(<<d>>, today).op # "done"
    BY NoLock
  <2>4. /\ row' = [u \in Target |-> row'[u]]
        /\ \A u \in Target : Allowed(row[u], row'[u]) \/ OnRequest(row[u], row'[u])
    BY <2>1, <2>2, OneRow
  <2> QED
    BY <2>1, <2>3, <2>4, CallsKept, StepKeeps
<1>4. ASSUME NEW d \in Designer, NEW t \in Target, FileSeen(c, d, t) PROVE PoolInv' /\ HandsKept
  BY <1>4, ReadsKeep DEF FileSeen, Begin
<1> QED
  BY <1>1, <1>2, <1>3, <1>4 DEF Requests

\* A statement that writes rows.
LEMMA WritesRows ==
  ASSUME PoolInv, NEW c, NEW op, op.op # "done", call' = [call EXCEPT ![c] = op],
         row' = [t \in Target |-> row'[t]], \A t \in Target : Allowed(row[t], row'[t])
  PROVE  PoolInv' /\ HandsKept
BY CallsKept, StepKeeps

LEMMA StatementsKeep == ASSUME PoolInv, NEW c \in Call, Statements(c) PROVE PoolInv' /\ HandsKept
<1>1. ASSUME NEW d, NEW size, NEW sizes, NEW who, NEW day, Pick(c, d, size, sizes, who, day),
             UNCHANGED row
      PROVE  PoolInv' /\ HandsKept
  <2>1. PICK ids \in SUBSET Pool :
          LET k == [op |-> "claim", to |-> d, ids |-> ids, sizes |-> sizes, who |-> who, day |-> day]
          IN  Becomes(c, IF ids = {} THEN AfterClaim(k) ELSE k)
    BY <1>1 DEF Pick
  <2> DEFINE k == [op |-> "claim", to |-> d, ids |-> ids, sizes |-> sizes, who |-> who, day |-> day]
             op == IF ids = {} THEN AfterClaim(k) ELSE k
  <2>2. call' = [call EXCEPT ![c] = op]
    BY <2>1 DEF Becomes
  <2>3. k.op # "done" /\ AfterClaim(k).op # "done"
    BY NoLock
  <2>4. op.op # "done"
    BY <2>3
  <2> HIDE DEF op
  <2> QED
    BY <1>1, <2>2, <2>4, ReadsKeep
<1>2. CASE Give(c) \/ TopUp(c)
  BY <1>1, <1>2 DEF Give, TopUp
<1>3. CASE Claim(c)
  <2>1. PICK t \in call[c].ids :
          LET k    == call[c]
              rest == [k EXCEPT !.ids = @ \ {t}]
          IN  /\ row' = [row EXCEPT ![t] = ClaimIf(@, k.to, k.day)]
              /\ Becomes(c, IF rest.ids = {} THEN AfterClaim(rest) ELSE rest)
    BY <1>3 DEF Claim
  <2> DEFINE rest == [call[c] EXCEPT !.ids = @ \ {t}]
             op   == IF rest.ids = {} THEN AfterClaim(rest) ELSE rest
  <2>2. call' = [call EXCEPT ![c] = op] /\ row' = [row EXCEPT ![t] = ClaimIf(row[t], call[c].to, call[c].day)]
    BY <2>1 DEF Becomes
  <2>3. call[c].op = "claim"
    BY <1>3 DEF Claim
  <2>4. rest.op = call[c].op
    OBVIOUS
  <2>5. op.op # "done"
    BY <2>3, <2>4, NoLock
  <2>6. Allowed(row[t], ClaimIf(row[t], call[c].to, call[c].day))
    BY DEF Allowed, ClaimIf
  <2>7. row' = [u \in Target |-> row'[u]] /\ \A u \in Target : Allowed(row[u], row'[u])
    BY <2>2, <2>6 DEF PoolInv, Allowed
  <2> HIDE DEF op
  <2> QED
    BY <2>2, <2>5, <2>7, WritesRows
<1>4. CASE CommitDone(c)
  BY <1>4, CommitKeeps
<1>5. CASE ListUnworked(c)
  <2> DEFINE ids == Unworked(call[c].keep)
             op  == IF ids = {} THEN Idle ELSE [op |-> "return", ids |-> ids]
  <2>1. call' = [call EXCEPT ![c] = op] /\ UNCHANGED row
    BY <1>5 DEF ListUnworked, Becomes
  <2>2. op.op # "done"
    BY NoLock
  <2> HIDE DEF op
  <2> QED
    BY <2>1, <2>2, ReadsKeep
<1>6. CASE Return(c)
  <2>1. row' = [t \in Target |-> IF t \in call[c].ids /\ StillReturns(row[t])
                                 THEN Returned(row[t]) ELSE row[t]]
        /\ call' = [call EXCEPT ![c] = Idle]
    BY <1>6 DEF Return, Becomes
  <2>2. \A t \in Target : Allowed(row[t], row'[t])
    BY <2>1 DEF Allowed, StillReturns
  <2> QED
    BY <2>1, <2>2, NoLock, WritesRows
<1>7. CASE ListPending(c)
  <2> DEFINE k  == call[c]
             r  == row[k.row]
             op == IF r.owner = k.who /\ r.status = "assigned" /\ ~r.started
                   THEN [op |-> "start", row |-> k.row] ELSE Idle
  <2>1. call' = [call EXCEPT ![c] = op] /\ UNCHANGED row
    BY <1>7 DEF ListPending, Becomes
  <2>2. op.op # "done"
    BY NoLock
  <2> HIDE DEF op
  <2> QED
    BY <2>1, <2>2, ReadsKeep
<1>8. CASE MarkStarted(c)
  <2>1. row' = [row EXCEPT ![call[c].row] = [row[call[c].row] EXCEPT !.started = TRUE]]
        /\ call' = [call EXCEPT ![c] = Idle]
    BY <1>8 DEF MarkStarted, Becomes
  <2>2. row' = [t \in Target |-> row'[t]] /\ \A t \in Target : Allowed(row[t], row'[t])
    BY <2>1 DEF PoolInv, Allowed
  <2> QED
    BY <2>1, <2>2, NoLock, WritesRows
<1> QED
  BY <1>2, <1>3, <1>4, <1>5, <1>6, <1>7, <1>8 DEF Statements

(***************************************************************************)
(* A designer's own completions of a day never exceed his daily target,    *)
(* and rows are kept by those they belong to, for overlapping requests of  *)
(* any number: the advisory lock is what makes the count still true at the *)
(* update.                                                                 *)
(***************************************************************************)
THEOREM CapAndRows == PoolSpec => PoolSound
<1>1. PoolInit => PoolInv
  <2> SUFFICES ASSUME PoolInit PROVE PoolInv
    OBVIOUS
  <2>1. row = [t \in Target |-> PoolRow] /\ call = [c \in Call |-> Idle]
    BY DEF PoolInit
  <2>2. (\A t \in Target : IsRow(row[t])) /\ row = [t \in Target |-> row[t]]
        /\ call = [c \in Call |-> call[c]]
    BY <2>1, RowsStayRows DEF PoolRow, IsRow
  <2>3. LockInv
    BY <2>1 DEF LockInv, Idle
  <2>4. \A d, n : OwnDone(d, n) = {}
    BY <2>1 DEF OwnDone, DoneOn, PoolRow
  <2>5. CapKept
    <3>1. Cardinality({}) = 0 /\ \A d \in Designer : Quota[d] \in Nat
      BY FS_EmptySet, PoolAssumption
    <3>2. \A d \in Designer, n \in 1 .. MaxDay : Cardinality(OwnDone(d, n)) <= Quota[d]
      BY <2>4, <3>1
    <3> QED
      BY <3>2 DEF CapKept
  <2> QED
    BY <2>2, <2>3, <2>5 DEF PoolInv
<1>2. PoolInv /\ [PoolNext]_poolVars
        => PoolInv' /\ [HandsKept]_poolVars
  <2> SUFFICES ASSUME PoolInv, [PoolNext]_poolVars
               PROVE  PoolInv' /\ (HandsKept \/ UNCHANGED poolVars)
    OBVIOUS
  <2>1. CASE UNCHANGED poolVars
    <3>1. PoolInv'
      BY <2>1 DEF poolVars, PoolInv, LockInv, CapKept, OwnDone, DoneOn
    <3> QED
      BY <2>1, <3>1
  <2>2. ASSUME NEW c \in Call, Requests(c) \/ Statements(c) PROVE PoolInv' /\ HandsKept
    BY <2>2, RequestsKeep, StatementsKeep
  <2>3. ASSUME NEW t \in Target, Singles(t) PROVE PoolInv' /\ HandsKept
    BY <2>3, SinglesKeep
  <2>4. CASE TopUpAll
    BY <2>4, NoLock, ReadsKeep DEF TopUpAll, Begin
  <2>5. CASE ReturnUnworked
    <3> DEFINE op == [op |-> "touched", keep |-> {p \in Designer \X Target : credit[p] = today}]
    <3>1. call' = [call EXCEPT ![JobCall] = op] /\ UNCHANGED row
      BY <2>5 DEF ReturnUnworked, Begin
    <3>2. op.op # "done"
      OBVIOUS
    <3> HIDE DEF op
    <3> QED
      BY <3>1, <3>2, ReadsKeep
  <2>6. CASE Midnight
    <3>1. UNCHANGED <<row, call>>
      BY <2>6 DEF Midnight
    <3>2. PoolInv' /\ HandsKept
      <4>1. PoolInv'
        BY <3>1 DEF PoolInv, LockInv, CapKept, OwnDone, DoneOn
      <4>2. HandsKept
        BY <3>1 DEF HandsKept, HandedOver, Unfinished
      <4> QED
        BY <4>1, <4>2
    <3> QED
      BY <3>2
  <2> QED
    BY <2>1, <2>2, <2>3, <2>4, <2>5, <2>6 DEF PoolNext
<1>3. PoolInv => CapKept
  BY DEF PoolInv
<1>4. PoolSpec => []PoolInv
  BY <1>1, <1>2, PTL DEF PoolSpec
<1>5. PoolSpec => []CapKept
  BY <1>3, <1>4, PTL
<1>6. PoolSpec => [][HandsKept]_poolVars
  BY <1>1, <1>2, PTL DEF PoolSpec
<1>7. PoolSpec => RowsKept
  BY <1>6 DEF HandsKept, RowsKept
<1> QED
  BY <1>5, <1>7 DEF PoolSound

\* The shapes of the pool and of the requests.
LEMMA CountsAreNatural ==
  /\ Cardinality(Pool) \in Nat
  /\ \A d : Cardinality(OpenRows(d)) \in Nat
  /\ \A d, n : Cardinality(DoneOn(d, n)) \in Nat /\ Cardinality(IssuedOn(d, n)) \in Nat
<1>1. \A S \in SUBSET Target : Cardinality(S) \in Nat
  BY PoolAssumption, FS_Subset, FS_CardinalityType
<1> QED
  BY <1>1 DEF Pool, OpenRows, DoneOn, IssuedOn

\* What each designer is to be given follows the order of the codes, and is a number: the
\* pool as the earlier ones leave it is a natural number, by the least one that were not.
LEMMA SizesTyped == AllocationSizes \in Sizes
<1> DEFINE n       == Len(ByCode)
           want(i) == Less(PerDesigner, Cardinality(OpenRows(ByCode[i])))
           left[i \in 0..Len(ByCode)] ==
             IF i = 0 THEN Cardinality(Pool) ELSE Less(left[i - 1], want(i))
           Ends(k, f) == /\ f = [i \in 0 .. k |-> f[i]] /\ f[0] = Cardinality(Pool)
                         /\ \A i \in 1 .. k : f[i] = Less(f[i - 1], want(i))
<1>1. AllocationSizes =
        [i \in 1..Len(ByCode) |-> [to |-> ByCode[i], size |-> Smaller(want(i), left[i - 1])]]
  BY DEF AllocationSizes
<1>2. n \in Nat /\ n = Len(ByCode) /\ \A i \in 1 .. n : ByCode[i] \in Designer
  BY PoolAssumption
<1>3. \A i : want(i) \in Nat
  BY CountsAreNatural, PoolAssumption DEF Less
<1>4. Cardinality(Pool) \in Nat
  BY CountsAreNatural
<1> HIDE DEF want, n
<1>5. ASSUME NEW k \in 0 .. n, \A j \in 0 .. n : j < k => \E f : Ends(j, f)
      PROVE  \E f : Ends(k, f)
  <2>1. CASE k = 0
    <3> DEFINE g == [i \in 0 .. 0 |-> Cardinality(Pool)]
    <3>1. Ends(k, g)
      BY <2>1
    <3> QED
      BY <3>1
  <2>2. CASE k > 0
    <3>1. k - 1 \in 0 .. n /\ k - 1 < k /\ k \in Nat /\ n \in Nat
      BY <1>2, <2>2
    <3>2. PICK f : Ends(k - 1, f)
      BY <1>5, <3>1
    <3> DEFINE g == [i \in 0 .. k |-> IF i = k THEN Less(f[k - 1], want(k)) ELSE f[i]]
    <3>3. g = [i \in 0 .. k |-> g[i]] /\ g[0] = Cardinality(Pool)
      BY <2>2, <3>1, <3>2
    <3>4. ASSUME NEW i \in 1 .. k PROVE g[i] = Less(g[i - 1], want(i))
      <4>1. i \in 0 .. k /\ i - 1 \in 0 .. k /\ i - 1 # k
        BY <3>1
      <4>2. g[i - 1] = f[i - 1]
        BY <4>1
      <4>3. CASE i = k
        BY <4>1, <4>2, <4>3
      <4>4. CASE i # k
        <5>1. i \in 1 .. (k - 1) /\ g[i] = f[i]
          BY <3>1, <4>1, <4>4
        <5> QED
          BY <3>2, <4>2, <5>1
      <4> QED
        BY <4>3, <4>4
    <3>5. Ends(k, g)
      BY <3>3, <3>4
    <3> QED
      BY <3>5
  <2> QED
    BY <1>2, <2>1, <2>2
<1>6. \E f : Ends(n, f)
  <2> SUFFICES ASSUME ~ \E f : Ends(n, f) PROVE FALSE
    OBVIOUS
  <2> DEFINE Fails == {k \in 0 .. n : ~ \E f : Ends(k, f)}
  <2>1. n \in Fails /\ Fails \in SUBSET Nat
    BY <1>2
  <2>2. PICK k \in Fails : \A j \in Fails : k <= j
    <3> HIDE DEF Fails
    <3> QED
      BY <2>1, LeastOf
  <2>3. \A j \in 0 .. n : j < k => j \notin Fails
    BY <1>2, <2>2
  <2> QED
    BY <1>5, <2>2, <2>3
<1>7. PICK f : Ends(n, f)
  BY <1>6
<1>8. left = [i \in 0..Len(ByCode) |->
                IF i = 0 THEN Cardinality(Pool) ELSE Less(left[i - 1], want(i))]
  <2>1. f = [i \in 0..Len(ByCode) |->
               IF i = 0 THEN Cardinality(Pool) ELSE Less(f[i - 1], want(i))]
    BY <1>2, <1>7
  <2> QED
    BY <2>1
<1> HIDE DEF left
<1>9. \A k \in 0 .. n : left[k] \in Nat
  <2> DEFINE Fails == {k \in 0 .. n : left[k] \notin Nat}
  <2> SUFFICES ASSUME Fails # {} PROVE FALSE
    OBVIOUS
  <2>1. Fails \in SUBSET Nat
    BY <1>2
  <2>2. PICK k \in Fails : \A j \in Fails : k <= j
    <3> HIDE DEF Fails
    <3> QED
      BY <2>1, LeastOf
  <2>3. CASE k = 0
    BY <1>2, <1>4, <1>8, <2>2, <2>3
  <2>4. CASE k # 0
    <3>1. k - 1 \in 0 .. n /\ k - 1 \notin Fails
      BY <1>2, <2>2, <2>4
    <3>2. left[k] = Less(left[k - 1], want(k))
      BY <1>2, <1>8, <2>2, <2>4
    <3> QED
      BY <1>3, <2>2, <3>1, <3>2 DEF Less
  <2> QED
    BY <2>3, <2>4
<1>10. ASSUME NEW i \in 1 .. n
       PROVE  [to |-> ByCode[i], size |-> Smaller(want(i), left[i - 1])] \in [to : Designer, size : Nat]
  <2>1. left[i - 1] \in Nat /\ want(i) \in Nat
    BY <1>2, <1>3, <1>9
  <2> QED
    BY <1>2, <2>1 DEF Smaller
<1> QED
  BY <1>1, <1>2, <1>10 DEF Sizes

\* A request in flight has its type, and something left to do.
RequestOK(k) == /\ k \in CallType
                /\ k.op = "give" => k.sizes # <<>>
                /\ k.op = "topup" => k.who # <<>>

ShapesInv ==
  /\ row \in [Target -> RowType(Designer, Days)]
  /\ credit \in [Designer \X Target -> Days]
  /\ today \in Days /\ asks \in 0..MaxCalls
  /\ call = [c \in Call |-> call[c]] /\ \A c \in Call : RequestOK(call[c])

\* What a request carries, by what it is about to do.
LEMMA Carries ==
  ASSUME NEW k, RequestOK(k)
  PROVE  /\ k.op = "give" => k.sizes \in Sizes /\ k.sizes # <<>> /\ k.day \in Days
         /\ k.op = "topup" => k.who \in Seq(Designer) /\ k.who # <<>> /\ k.day \in Days
         /\ k.op = "claim" => k \in [op : {"claim"}, to : Designer, ids : SUBSET Target,
                                     sizes : Sizes, who : Seq(Designer), day : Days]
         /\ k.op = "done" => k.who \in Designer /\ k.row \in Target /\ k.day \in Days
         /\ k.op = "return" => k.ids \in SUBSET Target
         /\ k.op = "seen" => k.who \in Designer /\ k.row \in Target
         /\ k.op = "start" => k.row \in Target
BY DEF RequestOK, CallType, Idle

LEMMA MayCome ==
  /\ RequestOK(Idle)
  /\ \A sizes \in Sizes, day \in Days : RequestOK(Giving(sizes, day))
  /\ \A who \in Seq(Designer), day \in Days : RequestOK(ToppingUp(who, day))
  /\ \A k \in [op : {"claim"}, to : Designer, ids : SUBSET Target, sizes : Sizes,
               who : Seq(Designer), day : Days] : RequestOK(k) /\ RequestOK(AfterClaim(k))
<1>1. RequestOK(Idle)
  BY DEF RequestOK, CallType, Idle
<1>2. ASSUME NEW sizes \in Sizes, NEW day \in Days PROVE RequestOK(Giving(sizes, day))
  <2>1. CASE sizes = <<>>
    BY <1>1, <2>1 DEF Giving
  <2>2. CASE sizes # <<>>
    BY <2>2 DEF Giving, RequestOK, CallType
  <2> QED
    BY <2>1, <2>2
<1>3. ASSUME NEW who \in Seq(Designer), NEW day \in Days PROVE RequestOK(ToppingUp(who, day))
  <2>1. CASE who = <<>>
    BY <1>1, <2>1 DEF ToppingUp
  <2>2. CASE who # <<>>
    BY <2>2 DEF ToppingUp, RequestOK, CallType
  <2> QED
    BY <2>1, <2>2
<1>4. ASSUME NEW k \in [op : {"claim"}, to : Designer, ids : SUBSET Target, sizes : Sizes,
                        who : Seq(Designer), day : Days]
      PROVE  RequestOK(k) /\ RequestOK(AfterClaim(k))
  <2>1. k.sizes \in Sizes /\ k.who \in Seq(Designer) /\ k.day \in Days
    OBVIOUS
  <2>2. RequestOK(k)
    BY DEF RequestOK, CallType
  <2> QED
    BY <1>2, <1>3, <2>1, <2>2 DEF AfterClaim
<1> QED
  BY <1>1, <1>2, <1>3, <1>4

\* A request that goes on, or begins, as something it may be.
LEMMA GoesOn ==
  ASSUME ShapesInv, NEW c \in Call, NEW op, RequestOK(op), call' = [call EXCEPT ![c] = op]
  PROVE  call' = [k \in Call |-> call'[k]] /\ \A k \in Call : RequestOK(call'[k])
BY DEF ShapesInv

LEMMA Begins ==
  ASSUME ShapesInv, NEW c \in Call, NEW op, RequestOK(op), Begin(c, op)
  PROVE  /\ asks' \in 0..MaxCalls
         /\ call' = [k \in Call |-> call'[k]] /\ \A k \in Call : RequestOK(call'[k])
<1>1. asks' \in 0..MaxCalls
  BY PoolAssumption DEF Begin, ShapesInv
<1> QED
  BY <1>1, GoesOn DEF Begin

\* A row is written as a row.
LEMMA WritesRow ==
  ASSUME ShapesInv, NEW t \in Target, NEW r \in RowType(Designer, Days),
         row' = [row EXCEPT ![t] = r]
  PROVE  row' \in [Target -> RowType(Designer, Days)]
BY DEF ShapesInv

LEMMA TodayIsDay == ShapesInv => NoDay \in Days /\ today \in Days
BY PoolAssumption DEF ShapesInv, Days, NoDay

LEMMA RequestsTyped == ASSUME ShapesInv, NEW c \in Call, Requests(c) PROVE ShapesInv'
<1>1. CASE Distribute(c)
  <2>1. RequestOK(Giving(AllocationSizes, today))
    BY SizesTyped, MayCome, TodayIsDay
  <2> QED
    BY <1>1, <2>1, Begins DEF Distribute, ShapesInv
<1>2. CASE \E d \in Designer, t \in Target : MarkDone(c, d, t)
  <2>1. PICK d \in Designer, t \in Target : MarkDone(c, d, t)
    BY <1>2
  <2> DEFINE op == [op |-> "done", who |-> d, row |-> t, day |-> today]
  <2>2. RequestOK(op)
    BY TodayIsDay DEF RequestOK, CallType
  <2>3. Begin(c, op) /\ UNCHANGED <<row, credit, today>>
    BY <2>1 DEF MarkDone
  <2> HIDE DEF op
  <2> QED
    BY <2>2, <2>3, Begins DEF ShapesInv
<1>3. CASE \E d \in Designer, t \in Target : Skip(c, d, t)
  <2>1. PICK d \in Designer, t \in Target : Skip(c, d, t)
    BY <1>3
  <2>2. <<d>> \in Seq(Designer)
    OBVIOUS
  <2>3. RequestOK(ToppingUp(<<d>>, today))
    BY <2>2, MayCome, TodayIsDay
  <2>4. row[t] \in RowType(Designer, Days)
    BY DEF ShapesInv
  <2>5. Dropped(row[t], "skipped") \in RowType(Designer, Days)
    BY <2>4, RowsStayTyped, TodayIsDay
  <2>6. row' = [row EXCEPT ![t] = Dropped(row[t], "skipped")]
    BY <2>1 DEF Skip
  <2>7. row' \in [Target -> RowType(Designer, Days)]
    BY <2>5, <2>6, WritesRow
  <2> QED
    BY <2>1, <2>3, <2>7, Begins DEF Skip, ShapesInv
<1>4. CASE \E d \in Designer, t \in Target : FileSeen(c, d, t)
  <2>1. PICK d \in Designer, t \in Target : FileSeen(c, d, t)
    BY <1>4
  <2> DEFINE op == [op |-> "seen", who |-> d, row |-> t]
  <2>2. RequestOK(op)
    BY DEF RequestOK, CallType
  <2>3. Begin(c, op) /\ UNCHANGED <<row, today>>
    BY <2>1 DEF FileSeen
  <2>4. credit' \in [Designer \X Target -> Days]
    BY <2>1, TodayIsDay DEF FileSeen, ShapesInv
  <2> HIDE DEF op
  <2> QED
    BY <2>2, <2>3, <2>4, Begins DEF ShapesInv
<1> QED
  BY <1>1, <1>2, <1>3, <1>4 DEF Requests

LEMMA PickTyped ==
  ASSUME ShapesInv, NEW c \in Call, NEW d \in Designer, NEW size, NEW sizes \in Sizes,
         NEW who \in Seq(Designer), NEW day \in Days, Pick(c, d, size, sizes, who, day),
         UNCHANGED <<row, credit, today>>
  PROVE  ShapesInv'
<1>1. PICK ids \in SUBSET Pool :
        LET k == [op |-> "claim", to |-> d, ids |-> ids, sizes |-> sizes, who |-> who, day |-> day]
        IN  Becomes(c, IF ids = {} THEN AfterClaim(k) ELSE k)
  BY DEF Pick
<1> DEFINE k  == [op |-> "claim", to |-> d, ids |-> ids, sizes |-> sizes, who |-> who, day |-> day]
           op == IF ids = {} THEN AfterClaim(k) ELSE k
<1>2. k \in [op : {"claim"}, to : Designer, ids : SUBSET Target, sizes : Sizes,
             who : Seq(Designer), day : Days]
  BY DEF Pool
<1>3. Becomes(c, op)
  BY <1>1
<1> HIDE DEF k
<1>4. RequestOK(op)
  BY <1>2, MayCome
<1> HIDE DEF op
<1> QED
  BY <1>3, <1>4, GoesOn DEF Becomes, ShapesInv

LEMMA StatementsTyped == ASSUME ShapesInv, NEW c \in Call, Statements(c) PROVE ShapesInv'
<1>0. RequestOK(call[c])
  BY DEF ShapesInv
<1>1. CASE Give(c)
  <2>1. call[c].op = "give" /\ UNCHANGED <<row, credit, today>>
    BY <1>1 DEF Give
  <2>2. call[c].sizes \in Sizes /\ call[c].sizes # <<>> /\ call[c].day \in Days
    BY <1>0, <2>1, Carries
  <2>3. Tail(call[c].sizes) \in Sizes /\ call[c].sizes[1] \in [to : Designer, size : Nat]
    <3> DEFINE S == [to : Designer, size : Nat]
               s == call[c].sizes
    <3>1. s \in Seq(S) /\ s # <<>>
      BY <2>2 DEF Sizes
    <3> HIDE DEF S, s
    <3>2. Tail(s) \in Seq(S) /\ s[1] \in S
      BY <3>1
    <3> QED
      BY <3>2 DEF S, s, Sizes
  <2>4. call[c].sizes[1].to \in Designer /\ <<>> \in Seq(Designer)
    BY <2>3
  <2>5. Pick(c, call[c].sizes[1].to, call[c].sizes[1].size, Tail(call[c].sizes), <<>>, call[c].day)
    BY <1>1 DEF Give
  <2> QED
    BY <2>1, <2>2, <2>3, <2>4, <2>5, PickTyped
<1>2. CASE TopUp(c)
  <2>1. call[c].op = "topup" /\ UNCHANGED <<row, credit, today>>
    BY <1>2 DEF TopUp
  <2>2. call[c].who \in Seq(Designer) /\ call[c].who # <<>> /\ call[c].day \in Days
    BY <1>0, <2>1, Carries
  <2>3. Tail(call[c].who) \in Seq(Designer) /\ Head(call[c].who) \in Designer /\ <<>> \in Sizes
    BY <2>2 DEF Sizes
  <2>4. Pick(c, Head(call[c].who), TopUpSize(Head(call[c].who), call[c].day), <<>>,
             Tail(call[c].who), call[c].day)
    BY <1>2 DEF TopUp
  <2> QED
    BY <2>1, <2>2, <2>3, <2>4, PickTyped
<1>3. CASE Claim(c)
  <2>1. PICK t \in call[c].ids :
          LET k    == call[c]
              rest == [k EXCEPT !.ids = @ \ {t}]
          IN  /\ row' = [row EXCEPT ![t] = ClaimIf(@, k.to, k.day)]
              /\ Becomes(c, IF rest.ids = {} THEN AfterClaim(rest) ELSE rest)
    BY <1>3 DEF Claim
  <2> DEFINE k    == call[c]
             rest == [k EXCEPT !.ids = @ \ {t}]
             Claims == [op : {"claim"}, to : Designer, ids : SUBSET Target, sizes : Sizes,
                        who : Seq(Designer), day : Days]
  <2>2. k \in Claims /\ UNCHANGED <<credit, today>>
    BY <1>0, <1>3, Carries DEF Claim
  <2>3. t \in Target /\ rest \in Claims /\ k.to \in Designer /\ k.day \in Days
    BY <2>1, <2>2
  <2>4. row[t] \in RowType(Designer, Days)
    BY <2>3 DEF ShapesInv
  <2>5. Claimed(row[t], k.to, k.day) \in RowType(Designer, Days)
    BY <2>3, <2>4, RowsStayTyped, TodayIsDay
  <2>6. ClaimIf(row[t], k.to, k.day) \in RowType(Designer, Days)
    BY <2>4, <2>5 DEF ClaimIf
  <2>7. row' = [row EXCEPT ![t] = ClaimIf(row[t], k.to, k.day)]
    BY <2>1
  <2>8. row' \in [Target -> RowType(Designer, Days)]
    BY <2>3, <2>6, <2>7, WritesRow
  <2>9. RequestOK(IF rest.ids = {} THEN AfterClaim(rest) ELSE rest)
    <3>1. rest \in Claims
      BY <2>3
    <3> HIDE DEF rest
    <3> QED
      BY <3>1, MayCome
  <2>10. Becomes(c, IF rest.ids = {} THEN AfterClaim(rest) ELSE rest)
    BY <2>1
  <2> HIDE DEF rest
  <2> QED
    BY <2>2, <2>8, <2>9, <2>10, GoesOn DEF Becomes, ShapesInv
<1>4. CASE CommitDone(c)
  <2> DEFINE k    == call[c]
             mine == row[k.row].owner = k.who /\ row[k.row].status = "assigned"
             r    == IF mine THEN Completed(row[k.row], k.day, k.who) ELSE row[k.row]
  <2>1. /\ k.op = "done" /\ UNCHANGED <<credit, today>>
        /\ row' = [row EXCEPT ![k.row] = r]
        /\ Becomes(c, IF mine THEN ToppingUp(<<k.who>>, k.day) ELSE Idle)
    BY <1>4 DEF CommitDone
  <2>2. k.who \in Designer /\ k.row \in Target /\ k.day \in Days
    BY <1>0, <2>1, Carries
  <2>3. row[k.row] \in RowType(Designer, Days) /\ <<k.who>> \in Seq(Designer)
    BY <2>2 DEF ShapesInv
  <2>4. Completed(row[k.row], k.day, k.who) \in RowType(Designer, Days)
    BY <2>2, <2>3, RowsStayTyped, TodayIsDay
  <2>5. r \in RowType(Designer, Days)
    BY <2>3, <2>4
  <2>6. RequestOK(IF mine THEN ToppingUp(<<k.who>>, k.day) ELSE Idle)
    BY <2>2, <2>3, MayCome
  <2> HIDE DEF r, mine
  <2>7. row' \in [Target -> RowType(Designer, Days)]
    BY <2>1, <2>2, <2>5, WritesRow
  <2> QED
    BY <2>1, <2>6, <2>7, GoesOn DEF Becomes, ShapesInv
<1>5. CASE ListUnworked(c)
  <2> DEFINE ids == Unworked(call[c].keep)
             op  == IF ids = {} THEN Idle ELSE [op |-> "return", ids |-> ids]
  <2>1. Becomes(c, op) /\ UNCHANGED <<row, credit, today>>
    BY <1>5 DEF ListUnworked
  <2>2. ids \in SUBSET Target
    BY DEF Unworked
  <2> HIDE DEF ids
  <2>3. RequestOK(op)
    BY <2>2, MayCome DEF RequestOK, CallType
  <2> QED
    BY <2>1, <2>3, GoesOn DEF Becomes, ShapesInv
<1>6. CASE Return(c)
  <2>1. \A t \in Target : Returned(row[t]) \in RowType(Designer, Days)
    BY RowsStayTyped, TodayIsDay DEF ShapesInv
  <2>2. row' \in [Target -> RowType(Designer, Days)]
    BY <1>6, <2>1 DEF Return, ShapesInv
  <2> QED
    BY <1>6, <2>2, MayCome, GoesOn DEF Return, Becomes, ShapesInv
<1>7. CASE ListPending(c)
  <2>1. call[c].op = "seen" /\ UNCHANGED <<row, credit, today>>
    BY <1>7 DEF ListPending
  <2>2. call[c].row \in Target
    BY <1>0, <2>1, Carries
  <2>3. RequestOK([op |-> "start", row |-> call[c].row])
    BY <2>2 DEF RequestOK, CallType
  <2>4. Becomes(c, Idle) \/ Becomes(c, [op |-> "start", row |-> call[c].row])
    BY <1>7 DEF ListPending
  <2> QED
    BY <2>1, <2>3, <2>4, MayCome, GoesOn DEF Becomes, ShapesInv
<1>8. CASE MarkStarted(c)
  <2> DEFINE t == call[c].row
  <2>1. call[c].op = "start" /\ UNCHANGED <<credit, today>>
        /\ row' = [row EXCEPT ![t] = [row[t] EXCEPT !.started = TRUE]]
    BY <1>8 DEF MarkStarted
  <2>2. t \in Target /\ row[t] \in RowType(Designer, Days)
    BY <1>0, <2>1, Carries DEF ShapesInv
  <2>3. [row[t] EXCEPT !.started = TRUE] \in RowType(Designer, Days)
    BY <2>2, RowsStayTyped, TodayIsDay
  <2>4. row' \in [Target -> RowType(Designer, Days)]
    BY <2>1, <2>2, <2>3, WritesRow
  <2> QED
    BY <1>8, <2>1, <2>4, MayCome, GoesOn DEF MarkStarted, Becomes, ShapesInv
<1> QED
  BY <1>1, <1>2, <1>3, <1>4, <1>5, <1>6, <1>7, <1>8 DEF Statements

LEMMA SinglesTyped == ASSUME ShapesInv, NEW t \in Target, Singles(t) PROVE ShapesInv'
<1>1. PICK r : Single(t, r) /\ \/ r = Uncompleted(row[t]) \/ r = Deleted(row[t])
                               \/ \E s \in {"pool", "assigned", "done", "skipped"} :
                                    r = Patched(row[t], s, today)
  BY DEF Singles, UndoMine, UndoComplete, Update, SoftDelete
<1>2. row[t] \in RowType(Designer, Days)
  BY DEF ShapesInv
<1>3. /\ Uncompleted(row[t]) \in RowType(Designer, Days)
      /\ Deleted(row[t]) \in RowType(Designer, Days)
      /\ \A s \in {"pool", "assigned", "done", "skipped"} :
           Patched(row[t], s, today) \in RowType(Designer, Days)
  BY <1>2, RowsStayTyped, TodayIsDay
<1>4. row' \in [Target -> RowType(Designer, Days)]
  <2>1. r \in RowType(Designer, Days)
    BY <1>1, <1>3
  <2> QED
    BY <1>1, <2>1, WritesRow DEF Single
<1>5. asks' \in 0..MaxCalls
  BY <1>1, PoolAssumption DEF Single, ShapesInv
<1> QED
  BY <1>1, <1>4, <1>5 DEF Single, ShapesInv

\* The shapes of the rows and of the requests in flight; and a request goes on only while it
\* has something left to give out.
THEOREM PoolTyped == PoolSpec => []PoolTypeOK
<1>1. PoolInit => ShapesInv
  <2> SUFFICES ASSUME PoolInit PROVE ShapesInv
    OBVIOUS
  <2>1. NoDay \in Days /\ today \in Days /\ asks \in 0..MaxCalls
    BY PoolAssumption DEF PoolInit, Days, NoDay
  <2>2. PoolRow \in RowType(Designer, Days)
    BY <2>1 DEF PoolRow, RowType
  <2> QED
    BY <2>1, <2>2, MayCome DEF PoolInit, ShapesInv
<1>2. ShapesInv /\ [PoolNext]_poolVars => ShapesInv'
  <2> SUFFICES ASSUME ShapesInv, [PoolNext]_poolVars PROVE ShapesInv'
    OBVIOUS
  <2>1. CASE TopUpAll
    <3>1. RequestOK(ToppingUp(ByCode, today)) /\ JobCall \in Call
      BY MayCome, TodayIsDay, PoolAssumption
    <3> QED
      BY <2>1, <3>1, Begins DEF TopUpAll, ShapesInv
  <2>2. CASE ReturnUnworked
    <3> DEFINE op == [op |-> "touched", keep |-> {p \in Designer \X Target : credit[p] = today}]
    <3>1. RequestOK(op)
      BY DEF RequestOK, CallType
    <3>2. Begin(JobCall, op) /\ UNCHANGED <<row, credit, today>>
      BY <2>2 DEF ReturnUnworked
    <3> HIDE DEF op
    <3> QED
      BY <3>1, <3>2, Begins, PoolAssumption DEF ShapesInv
  <2>3. CASE Midnight
    BY <2>3, PoolAssumption DEF Midnight, ShapesInv, Days
  <2>4. CASE UNCHANGED poolVars
    BY <2>4 DEF poolVars, ShapesInv
  <2> QED
    BY <2>1, <2>2, <2>3, <2>4, RequestsTyped, StatementsTyped, SinglesTyped DEF PoolNext
<1>3. ShapesInv => PoolTypeOK
  BY DEF ShapesInv, RequestOK, PoolTypeOK
<1> QED
  BY <1>1, <1>2, <1>3, PTL DEF PoolSpec

-----------------------------------------------------------------------------
\* One PC.

LoopType  == [at : {"wait", "open", "bytes", "compare", "clean"}, v : Version \cup {0},
              sha : {"none", "good", "spoiled"}]
ClickType == [v : Version \cup {0}, asks : {0, 1}]

FileInv ==
  /\ offer \in Version \cup {0} /\ msi \in [Version -> {"none", "good", "spoiled"}]
  /\ loop \in LoopType /\ click \in ClickType

\* Where the loop is, and what it has written down by then.
LoopInv ==
  /\ loop = Waiting \/ (loop.at # "wait" /\ loop.v \in Version)
  /\ loop.at \in {"open", "bytes", "compare"} => status = [stage |-> "offered", v |-> loop.v]
  /\ loop.at = "compare" => msi[loop.v] \in {loop.sha, "none"}
  /\ loop.at = "clean" => status = [stage |-> "verified", v |-> loop.v]

\* What is said to be ready is, unless it is lost.
ReadyInv ==
  status.stage = "verified" =>
    Staged(status.v) /\ status.v \in Version /\ msi[status.v] # "spoiled"

\* The version a person clicked on was ready; it still is, or the loop has gone on to
\* another one.
ClickInv ==
  click # NoClick =>
    /\ click.v \in Version /\ msi[click.v] # "spoiled"
    /\ click.asks = 0 => Staged(click.v)
    /\ click.asks = 1 => loop.at \in {"wait", "clean"} \/ loop.v # click.v

PublishedInv == FileInv /\ LoopInv /\ ReadyInv /\ ClickInv /\ OnlyPublishedRun

LEMMA NoVersionZero == 0 \notin Version
BY StagingAssumption

LEMMA PublishedInit == StagingInit => PublishedInv
BY NoVersionZero
   DEF StagingInit, PublishedInv, FileInv, LoopType, ClickType, LoopInv, ReadyInv, ClickInv,
       OnlyPublishedRun, IdleStatus, Waiting, NoClick, NoLaunch

LEMMA AskKeeps == ASSUME PublishedInv, AskServer PROVE PublishedInv'
<1> USE DEF PublishedInv
<1>1. /\ loop = Waiting /\ click.asks = 0
      /\ click' = IF click = NoClick THEN NoClick ELSE [click EXCEPT !.asks = 1]
      /\ UNCHANGED <<offer, installed, msi, part, launch, offers>>
  BY DEF AskServer
<1>2. /\ click' \in ClickType /\ (click' # NoClick => click # NoClick)
      /\ click' # NoClick => click'.v = click.v /\ click'.asks = 1
  BY <1>1 DEF FileInv, ClickType, NoClick
<1>3. CASE UNCHANGED <<status, loop>>
  BY <1>1, <1>2, <1>3 DEF FileInv, LoopInv, ReadyInv, ClickInv, OnlyPublishedRun, Waiting, Staged
<1>4. CASE /\ ~NothingNew
           /\ status' = [stage |-> "offered", v |-> offer]
           /\ loop' = [at |-> "open", v |-> offer, sha |-> "none"]
  <2>1. offer \in Version /\ (click # NoClick => offer # click.v)
    BY <1>1, <1>4 DEF NothingNew, FileInv, ClickInv
  <2>2. LoopInv' /\ loop' \in LoopType
    BY <1>4, <2>1 DEF LoopInv, LoopType
  <2>3. ReadyInv'
    BY <1>4 DEF ReadyInv
  <2>4. ClickInv'
    BY <1>1, <1>2, <1>4, <2>1 DEF ClickInv
  <2> QED
    BY <1>1, <1>2, <2>2, <2>3, <2>4 DEF FileInv, OnlyPublishedRun
<1> QED
  BY <1>3, <1>4 DEF AskServer

\* The loop gives up.
LEMMA GivenUp ==
  ASSUME PublishedInv, loop' = Waiting, UNCHANGED <<offer, status, msi, click, launch>>
  PROVE  PublishedInv'
BY NoVersionZero
   DEF PublishedInv, FileInv, LoopType, LoopInv, ReadyInv, ClickInv, OnlyPublishedRun, Waiting, Staged

LEMMA OpenKeeps == ASSUME PublishedInv, OpenPart PROVE PublishedInv'
<1>1. UNCHANGED <<offer, status, msi, click, launch>>
  BY DEF OpenPart
<1>2. CASE loop' = [loop EXCEPT !.at = "bytes"]
  <2>1. loop.at = "open" /\ loop' \in LoopType /\ loop'.at = "bytes" /\ loop'.v = loop.v
    BY <1>2 DEF OpenPart, PublishedInv, FileInv, LoopType
  <2> QED
    BY <1>1, <2>1
       DEF PublishedInv, FileInv, LoopInv, ReadyInv, ClickInv, OnlyPublishedRun, Staged, Waiting
<1> QED
  BY <1>1, <1>2, GivenUp DEF OpenPart

LEMMA MoveKeeps == ASSUME PublishedInv, MovePart PROVE PublishedInv'
<1>1. UNCHANGED <<offer, status, click, launch>>
  BY DEF MovePart
<1>2. ASSUME NEW bytes \in {"good", "spoiled"},
             msi' = [msi EXCEPT ![loop.v] = bytes],
             loop' = [loop EXCEPT !.at = "compare", !.sha = bytes]
      PROVE  PublishedInv'
  <2>1. /\ loop.at = "bytes" /\ loop.v \in Version
        /\ status = [stage |-> "offered", v |-> loop.v]
    BY DEF MovePart, PublishedInv, LoopInv, Waiting
  <2>2. loop \in LoopType /\ msi \in [Version -> {"none", "good", "spoiled"}]
    BY DEF PublishedInv, FileInv
  <2>3. /\ loop' \in LoopType /\ loop'.at = "compare" /\ loop'.v = loop.v /\ loop'.sha = bytes
    BY <1>2, <2>2 DEF LoopType
  <2>4. /\ msi' \in [Version -> {"none", "good", "spoiled"}] /\ msi'[loop.v] = bytes
        /\ \A v \in Version \ {loop.v} : msi'[v] = msi[v]
    BY <1>2, <2>1, <2>2
  <2>5. LoopInv' /\ ReadyInv'
    BY <1>1, <2>1, <2>3, <2>4 DEF LoopInv, ReadyInv, Staged
  <2>6. ClickInv'
    <3> SUFFICES ASSUME click # NoClick PROVE ClickInv'
      BY <1>1 DEF ClickInv
    <3>1. click.asks = 1 /\ loop.v # click.v /\ click.v \in Version /\ msi[click.v] # "spoiled"
      BY <2>1 DEF PublishedInv, FileInv, ClickType, ClickInv, Staged
    <3> QED
      BY <1>1, <2>3, <2>4, <3>1 DEF ClickInv
  <2> QED
    BY <1>1, <2>3, <2>4, <2>5, <2>6 DEF PublishedInv, FileInv, OnlyPublishedRun
<1>3. CASE \E bytes \in {"good", "spoiled"} :
             /\ msi' = [msi EXCEPT ![loop.v] = bytes]
             /\ loop' = [loop EXCEPT !.at = "compare", !.sha = bytes]
  BY <1>2, <1>3
<1> QED
  BY <1>1, <1>3, GivenUp DEF MovePart

\* Files go, and nothing else changes.
LEMMA FilesGo ==
  ASSUME PublishedInv, UNCHANGED <<offer, status, click, launch>>,
         msi' \in [Version -> {"none", "good", "spoiled"}],
         \A v \in Version : msi'[v] \in {msi[v], "none"},
         loop' = loop \/ loop' = Waiting
  PROVE  PublishedInv'
<1>1. loop' \in LoopType /\ LoopInv'
  BY NoVersionZero DEF PublishedInv, FileInv, LoopType, LoopInv, Waiting
<1>2. ReadyInv'
  BY DEF PublishedInv, ReadyInv, Staged
<1>3. ClickInv'
  BY DEF PublishedInv, ClickInv, Staged, Waiting
<1> QED
  BY <1>1, <1>2, <1>3 DEF PublishedInv, FileInv, OnlyPublishedRun

LEMMA CompareKeeps == ASSUME PublishedInv, Compare PROVE PublishedInv'
<1>1. UNCHANGED <<offer, click, launch>>
  BY DEF Compare
<1>2. /\ loop.at = "compare" /\ loop.v \in Version
      /\ status = [stage |-> "offered", v |-> loop.v] /\ msi[loop.v] \in {loop.sha, "none"}
  BY DEF Compare, PublishedInv, LoopInv, Waiting
<1>3. click # NoClick => /\ click.asks = 1 /\ loop.v # click.v
                         /\ click.v \in Version /\ msi[click.v] # "spoiled"
  BY <1>2 DEF PublishedInv, FileInv, ClickType, ClickInv, Staged
<1>4. loop \in LoopType /\ msi \in [Version -> {"none", "good", "spoiled"}]
  BY DEF PublishedInv, FileInv
<1>5. CASE Matches(loop.sha)
  <2>1. /\ status' = [stage |-> "verified", v |-> loop.v]
        /\ loop' = [loop EXCEPT !.at = "clean"] /\ UNCHANGED msi
    BY <1>5 DEF Compare
  <2>2. loop' \in LoopType /\ loop'.at = "clean" /\ loop'.v = loop.v
    BY <1>4, <2>1 DEF LoopType
  <2>3. LoopInv' /\ ReadyInv'
    BY <1>2, <1>5, <2>1, <2>2 DEF LoopInv, ReadyInv, Matches, Staged
  <2>4. ClickInv'
    BY <1>1, <1>3, <2>1, <2>2 DEF ClickInv
  <2> QED
    BY <1>1, <2>1, <2>2, <2>3, <2>4 DEF PublishedInv, FileInv, OnlyPublishedRun
<1>6. CASE ~Matches(loop.sha)
  <2>1. /\ status' = [stage |-> "corrupt", v |-> loop.v] /\ loop' = Waiting
        /\ msi' = [msi EXCEPT ![loop.v] = "none"] \/ UNCHANGED msi
    BY <1>6 DEF Compare
  <2>2. /\ msi' \in [Version -> {"none", "good", "spoiled"}]
        /\ \A v \in Version \ {loop.v} : msi'[v] = msi[v]
    BY <1>2, <1>4, <2>1
  <2>3. LoopInv' /\ ReadyInv' /\ loop' \in LoopType
    BY <2>1 DEF LoopInv, ReadyInv, Waiting, LoopType
  <2>4. ClickInv'
    BY <1>1, <1>3, <2>1, <2>2 DEF ClickInv, Waiting
  <2> QED
    BY <1>1, <2>2, <2>3, <2>4 DEF PublishedInv, FileInv, OnlyPublishedRun
<1> QED
  BY <1>5, <1>6

LEMMA CleanKeeps == ASSUME PublishedInv, CleanOld \/ \E v \in Version : FileLost(v) PROVE PublishedInv'
<1>1. UNCHANGED <<offer, status, click, launch>> /\ (loop' = loop \/ loop' = Waiting)
  BY DEF CleanOld, FileLost
<1>2. msi \in [Version -> {"none", "good", "spoiled"}]
  BY DEF PublishedInv, FileInv
<1>3. /\ msi' \in [Version -> {"none", "good", "spoiled"}]
      /\ \A v \in Version : msi'[v] \in {msi[v], "none"}
  <2>1. CASE CleanOld
    <3>1. PICK stays : msi' = [v \in Version |-> IF v \in Old(loop.v) \ stays THEN "none" ELSE msi[v]]
      BY <2>1 DEF CleanOld
    <3> QED
      BY <1>2, <3>1
  <2>2. CASE \E v \in Version : FileLost(v)
    BY <1>2, <2>2 DEF FileLost
  <2> QED
    BY <2>1, <2>2
<1> QED
  BY <1>1, <1>3, FilesGo

LEMMA TrayKeeps == ASSUME PublishedInv, Tray PROVE PublishedInv'
<1> USE NoVersionZero DEF PublishedInv
<1>1. CASE Click
  <2>1. status.v \in Version /\ msi[status.v] # "spoiled"
    BY <1>1 DEF Click, ReadyInv
  <2>2. /\ click' = [v |-> status.v, asks |-> 0] /\ status.stage = "verified"
        /\ UNCHANGED <<offer, status, msi, loop, launch>>
    BY <1>1 DEF Click
  <2>3. LoopInv' /\ ReadyInv' /\ OnlyPublishedRun'
    BY <2>2 DEF LoopInv, ReadyInv, OnlyPublishedRun, Staged
  <2>4. ClickInv' /\ click' \in ClickType
    BY <2>1, <2>2 DEF ClickInv, ClickType, Staged, ReadyInv
  <2> QED
    BY <2>2, <2>3, <2>4 DEF FileInv
<1>2. CASE StartInstaller
  <2>1. /\ click # NoClick /\ click' = NoClick
        /\ launch' = launch \/ launch'.bytes = msi[click.v]
        /\ UNCHANGED <<offer, status, msi, loop>>
    BY <1>2 DEF StartInstaller
  <2> QED
    BY <2>1 DEF FileInv, ClickType, LoopInv, ReadyInv, ClickInv, OnlyPublishedRun, NoClick, Staged
<1>3. CASE Installs
  <2>1. /\ click = NoClick /\ status' = IdleStatus /\ loop' = Waiting /\ launch' = NoLaunch
        /\ offer' \in {offer, 0} /\ UNCHANGED <<msi, click>>
    BY <1>3 DEF Installs
  <2> QED
    BY <2>1 DEF FileInv, LoopType, LoopInv, ReadyInv, ClickInv, OnlyPublishedRun, NoLaunch, Waiting,
                IdleStatus
<1>4. CASE Declines
  BY <1>4 DEF Declines, FileInv, LoopInv, ReadyInv, ClickInv, OnlyPublishedRun, NoLaunch, Staged
<1> QED
  BY <1>1, <1>2, <1>3, <1>4 DEF Tray

LEMMA OutsideKeeps == ASSUME PublishedInv, OfferChanges \/ AgentRestarts PROVE PublishedInv'
<1> USE NoVersionZero DEF PublishedInv
<1>1. CASE OfferChanges
  <2>1. offer' \in Version \cup {0} /\ UNCHANGED <<status, msi, loop, click, launch>>
    BY <1>1 DEF OfferChanges
  <2> QED
    BY <2>1 DEF FileInv, LoopInv, ReadyInv, ClickInv, OnlyPublishedRun, Staged
<1>2. CASE AgentRestarts
  BY <1>2 DEF AgentRestarts, FileInv, LoopType, ClickType, LoopInv, ReadyInv, ClickInv,
              OnlyPublishedRun, Waiting, NoClick, IdleStatus
<1> QED
  BY <1>1, <1>2

LEMMA PublishedStep == PublishedInv /\ [StagingNext]_stagingVars => PublishedInv'
<1>1. PublishedInv /\ UNCHANGED stagingVars => PublishedInv'
  BY DEF stagingVars, PublishedInv, FileInv, LoopInv, ReadyInv, ClickInv, OnlyPublishedRun, Staged
<1> QED
  BY <1>1, AskKeeps, OpenKeeps, MoveKeeps, CompareKeeps, CleanKeeps, TrayKeeps, OutsideKeeps
     DEF StagingNext, Stager, Outside

(***************************************************************************)
(* Nothing but the published bytes is ever run with a person's consent: a  *)
(* file that is called ready is what was published or gone, and under a    *)
(* click the loop can only have gone on to another version.                *)
(***************************************************************************)
THEOREM PublishedRun == StagingSpec => []OnlyPublishedRun
<1>1. PublishedInv => OnlyPublishedRun
  BY DEF PublishedInv
<1> QED
  BY PublishedInit, PublishedStep, <1>1, PTL DEF StagingSpec

\* The shapes of the files, the tray and the task.
LEMMA VersionsAndNone == Version \cup {0} = 0 .. Cardinality(Version) /\ Version \subseteq Nat \ {0}
BY StagingAssumption

\* What is left to say of the shapes, once the files and what is said of them are known.
StagingRest ==
  /\ installed \in Version \cup {0}
  /\ status \in [stage : {"none", "offered", "verified", "corrupt"}, v : Version \cup {0}]
  /\ part \subseteq Version
  /\ launch \in [v : Version \cup {0}, bytes : {"none", "good", "spoiled"}]
  /\ offers \in 0..MaxOffers /\ mishaps \in 0..MaxMishaps

LEMMA StagerTyped == ASSUME PublishedInv, StagingRest, Stager PROVE StagingRest'
<1>1. UNCHANGED <<installed, launch, offers>>
  BY DEF Stager, AskServer, OpenPart, MovePart, Compare, CleanOld
<1>2. mishaps' \in 0..MaxMishaps
  BY StagingAssumption
     DEF Stager, AskServer, OpenPart, MovePart, Compare, CleanOld, Mishap, Fine, StagingRest
<1>3. loop.at \in {"open", "bytes", "compare", "clean"} => loop.v \in Version
  BY DEF PublishedInv, LoopInv, Waiting
<1>4. status' \in [stage : {"none", "offered", "verified", "corrupt"}, v : Version \cup {0}]
  <2>1. CASE AskServer
    BY <2>1 DEF AskServer, StagingRest, PublishedInv, FileInv
  <2>2. CASE Compare
    BY <1>3, <2>2 DEF Compare
  <2>3. CASE OpenPart \/ MovePart \/ CleanOld
    BY <2>3 DEF OpenPart, MovePart, CleanOld, StagingRest
  <2> QED
    BY <2>1, <2>2, <2>3 DEF Stager
<1>5. part' \subseteq Version
  BY <1>3 DEF Stager, AskServer, OpenPart, MovePart, Compare, CleanOld, StagingRest
<1> QED
  BY <1>1, <1>2, <1>4, <1>5 DEF StagingRest

LEMMA TrayTyped == ASSUME PublishedInv, StagingRest, Tray PROVE StagingRest'
<1>1. UNCHANGED <<part, offers>>
  BY DEF Tray, Click, StartInstaller, Installs, Declines
<1>2. mishaps' \in 0..MaxMishaps
  BY StagingAssumption DEF Tray, Click, StartInstaller, Installs, Declines, Mishap, StagingRest
<1>3. installed' \in Version \cup {0}
  BY DEF Tray, Click, StartInstaller, Installs, Declines, StagingRest
<1>4. status' \in [stage : {"none", "offered", "verified", "corrupt"}, v : Version \cup {0}]
  BY DEF Tray, Click, StartInstaller, Installs, Declines, StagingRest, IdleStatus
<1>5. launch' \in [v : Version \cup {0}, bytes : {"none", "good", "spoiled"}]
  <2>1. click # NoClick => click.v \in Version /\ msi[click.v] \in {"none", "good", "spoiled"}
    BY DEF PublishedInv, ClickInv, FileInv
  <2> QED
    BY <2>1 DEF Tray, Click, StartInstaller, Installs, Declines, StagingRest, NoLaunch
<1> QED
  BY <1>1, <1>2, <1>3, <1>4, <1>5 DEF StagingRest

LEMMA OutsideTyped == ASSUME StagingRest, Outside PROVE StagingRest'
<1>1. UNCHANGED <<installed, part, launch>>
  BY DEF Outside, OfferChanges, AgentRestarts, FileLost
<1>2. mishaps' \in 0..MaxMishaps /\ offers' \in 0..MaxOffers
  BY StagingAssumption DEF Outside, OfferChanges, AgentRestarts, FileLost, Mishap, StagingRest
<1>3. status' \in [stage : {"none", "offered", "verified", "corrupt"}, v : Version \cup {0}]
  BY DEF Outside, OfferChanges, AgentRestarts, FileLost, StagingRest, IdleStatus
<1> QED
  BY <1>1, <1>2, <1>3 DEF StagingRest

\* The shapes of what a PC keeps of the offered versions.
THEOREM StagingTyped == StagingSpec => []StagingTypeOK
<1>1. StagingInit => StagingRest
  BY StagingAssumption DEF StagingInit, StagingRest, IdleStatus, NoLaunch
<1>2. PublishedInv /\ StagingRest /\ [StagingNext]_stagingVars => StagingRest'
  <2>1. StagingRest /\ UNCHANGED stagingVars => StagingRest'
    BY DEF stagingVars, StagingRest
  <2> QED
    BY <2>1, StagerTyped, TrayTyped, OutsideTyped DEF StagingNext
<1>3. PublishedInv /\ [StagingNext]_stagingVars => PublishedInv'
  BY PublishedStep
<1>4. PublishedInv /\ StagingRest => StagingTypeOK
  BY VersionsAndNone DEF PublishedInv, FileInv, LoopType, ClickType, StagingRest, StagingTypeOK
<1> QED
  BY PublishedInit, <1>1, <1>2, <1>3, <1>4, PTL DEF StagingSpec

-----------------------------------------------------------------------------
\* All of them.

AnyStage == Stages \cup {"unpublished"}

DeskType ==
  [act : {"create"}, v : Build, stage : Stages, pilot : Device \cup {NoDevice}, excuse : BOOLEAN]
  \cup [act : {"update"}, v : Build, stage : Stages, pilot : Device \cup {NoDevice, "same"},
        excuse : BOOLEAN]

Shapes ==
  /\ stage \in [Build -> AnyStage] /\ stageAge \in [Build -> Nat]
  /\ pilot \in [Build -> Device \cup {NoDevice}] /\ active \subseteq Device
  /\ desk \in {Quiet} \cup DeskType
  /\ advance = Quiet
       \/ /\ advance = [act |-> advance.act, v |-> advance.v, saw |-> advance.saw,
                        floor |-> advance.floor, overtaken |-> advance.overtaken]
          /\ advance.act \in {"proofs", "save"} /\ advance.overtaken \in BOOLEAN

\* A version on its way reaches somebody, or the owner knows that it does not.
Covered ==
  \A v \in Build : stage[v] \in {"canary", "partial"} =>
    v \in orphan \/ Reached(v, stage[v], pilot[v], active)

\* So it will once the order under way is saved.
OrderedPilot == IF desk.pilot = "same" THEN pilot[desk.v] ELSE desk.pilot
OrderInv ==
  desk # Quiet /\ ~desk.excuse /\ desk.stage \in {"canary", "partial"} =>
    Reached(desk.v, desk.stage, OrderedPilot, active)

\* What the job saw still holds, unless it was overtaken; and what it is about to save
\* has been proven.
JobInv ==
  advance # Quiet =>
    /\ ~advance.overtaken /\ advance.v \in Build =>
         stage[advance.v] = advance.saw /\ stageAge[advance.v] = advance.floor
    /\ advance.act = "save" => advance.floor >= Soak /\ NextStage(advance.saw) # advance.saw

OfferedInv == Shapes /\ Covered /\ OrderInv /\ JobInv

\* A later stage reaches whoever an earlier one did.
LEMMA StagesWiden ==
  ASSUME NEW v \in Build, NEW p, NEW devices \in SUBSET Device, NEW s \in {"canary", "partial"},
         Reached(v, s, p, devices)
  PROVE  Reached(v, NextStage(s), p, devices)
<1>1. \A d \in Device : FirstStage[v][d] \in 1 .. 3
  BY RolloutAssumption
<1>2. Rank("canary") = 1 /\ Rank("partial") = 2 /\ Rank("all") = 3
  BY DEF Rank
<1>3. NextStage("canary") = "partial" /\ NextStage("partial") = "all"
  BY DEF NextStage
<1>4. \A d \in Device : InStage(s, v, d) => InStage(NextStage(s), v, d)
  BY <1>1, <1>2, <1>3 DEF InStage
<1> QED
  BY <1>4 DEF Reached

LEMMA MoreReached ==
  ASSUME NEW v, NEW s, NEW p, NEW some, NEW more, some \subseteq more, Reached(v, s, p, some)
  PROVE  Reached(v, s, p, more)
BY DEF Reached

\* The pilot that is picked is there, if one is needed.
LEMMA PilotReached ==
  ASSUME NEW v, NEW s \in {"canary", "partial"}, NEW p \in PilotsFor(s, v), active # {}
  PROVE  p \in active \/ (p = NoDevice /\ \E d \in active : InStage(s, v, d))
<1> DEFINE living == {d \in active : silent[d] < 2}
<1>1. CASE \E d \in active : InStage(s, v, d)
  BY <1>1 DEF PilotsFor
<1>2. CASE ~\E d \in active : InStage(s, v, d)
  <2>1. p \in living \/ p \in active
    BY <1>2 DEF PilotsFor
  <2> QED
    BY <2>1
<1> QED
  BY <1>1, <1>2

LEMMA OfferedInit == RolloutInit => OfferedInv
<1> SUFFICES ASSUME RolloutInit PROVE OfferedInv
  OBVIOUS
<1>1. Shapes
  BY DEF RolloutInit, Shapes, AnyStage
<1>2. Covered /\ OrderInv /\ JobInv
  BY DEF RolloutInit, Covered, OrderInv, JobInv
<1> QED
  BY <1>1, <1>2 DEF OfferedInv

\* A new order under way.
LEMMA OrderKeeps ==
  ASSUME OfferedInv, UNCHANGED <<stage, stageAge, pilot, active, advance, orphan>>,
         desk' \in DeskType,
         ~desk'.excuse /\ desk'.stage \in {"canary", "partial"} =>
           Reached(desk'.v, desk'.stage,
                   IF desk'.pilot = "same" THEN pilot[desk'.v] ELSE desk'.pilot, active)
  PROVE  OfferedInv'
<1>1. Shapes' /\ Covered'
  BY DEF OfferedInv, Shapes, Covered, Reached, InStage
<1>2. OrderInv'
  BY DEF OrderInv, OrderedPilot, Reached, InStage
<1>3. JobInv'
  BY DEF OfferedInv, JobInv
<1> QED
  BY <1>1, <1>2, <1>3 DEF OfferedInv

LEMMA PublishKeeps ==
  ASSUME OfferedInv, NEW v \in Build, NEW s \in Stages, Publish(v, s)
  PROVE  OfferedInv'
<1>1. PICK p \in PilotsFor(s, v) :
        desk' = [act |-> "create", v |-> v, stage |-> s, pilot |-> p, excuse |-> active = {}]
  BY DEF Publish
<1>2. p \in Device \cup {NoDevice}
  BY DEF PilotsFor, OfferedInv, Shapes
<1>3. desk' \in DeskType
  BY <1>1, <1>2 DEF DeskType
<1>4. ASSUME active # {}, s \in {"canary", "partial"}
      PROVE  p # "same" /\ Reached(v, s, p, active)
  <2>1. p \in active \/ \E d \in active : InStage(s, v, d)
    BY <1>4, PilotReached
  <2> QED
    BY <1>2, <2>1, RolloutAssumption DEF Reached
<1> QED
  BY <1>1, <1>3, <1>4, OrderKeeps DEF Publish, deviceVars

LEMMA SetStageKeeps ==
  ASSUME OfferedInv, NEW v \in Build, NEW s \in Stages, NEW c \in Device \cup {NoDevice, "same"},
         SetStage(v, s, c)
  PROVE  OfferedInv'
<1> DEFINE kept == IF c = "same" THEN pilot[v] ELSE c
<1>1. PICK p \in IF kept = NoDevice THEN PilotsFor(s, v) ELSE {NoDevice} :
        desk' = [act |-> "update", v |-> v, stage |-> s,
                 pilot |-> IF c # "same" THEN c ELSE IF p # NoDevice THEN p ELSE "same",
                 excuse |-> c # "same" \/ active = {} \/ pilot[v] \in Device \ active]
  BY DEF SetStage
<1>2. p \in Device \cup {NoDevice}
  BY DEF PilotsFor, OfferedInv, Shapes
<1>3. desk' \in DeskType
  BY <1>1, <1>2 DEF DeskType
<1>4. ASSUME c = "same", active # {}, pilot[v] \notin Device \ active, s \in {"canary", "partial"}
      PROVE  Reached(v, s, IF p # NoDevice THEN p ELSE pilot[v], active)
  <2>1. pilot[v] \in active \cup {NoDevice}
    BY <1>4 DEF OfferedInv, Shapes
  <2>2. CASE pilot[v] = NoDevice
    <3>1. p \in PilotsFor(s, v)
      BY <1>1, <1>4, <2>2
    <3>2. p \in active \/ (p = NoDevice /\ \E d \in active : InStage(s, v, d))
      BY <1>4, <3>1, PilotReached
    <3> QED
      BY <2>2, <3>2, RolloutAssumption DEF Reached, OfferedInv, Shapes
  <2>3. CASE pilot[v] \in active /\ pilot[v] # NoDevice
    BY <1>1, <1>4, <2>3 DEF Reached
  <2> QED
    BY <2>1, <2>2, <2>3
<1>5. (IF desk'.pilot = "same" THEN pilot[v] ELSE desk'.pilot)
        = IF c # "same" THEN c ELSE IF p # NoDevice THEN p ELSE pilot[v]
  BY <1>1, <1>2, RolloutAssumption
<1>6. /\ desk'.v = v /\ desk'.stage = s
      /\ ~desk'.excuse => c = "same" /\ active # {} /\ pilot[v] \notin Device \ active
  BY <1>1
<1>7. UNCHANGED <<stage, stageAge, pilot, active, advance, orphan>>
  BY DEF SetStage, deviceVars
<1> HIDE DEF kept
<1>8. ~desk'.excuse /\ desk'.stage \in {"canary", "partial"} =>
        Reached(desk'.v, desk'.stage,
                IF desk'.pilot = "same" THEN pilot[desk'.v] ELSE desk'.pilot, active)
  BY <1>4, <1>5, <1>6
<1> QED
  BY <1>3, <1>7, <1>8, OrderKeeps

LEMMA SaveOrderKeeps == ASSUME OfferedInv, SaveOrder PROVE OfferedInv'
<1> DEFINE v == desk.v
           p == OrderedPilot
<1>1. /\ desk # Quiet /\ desk' = Quiet /\ UNCHANGED active
      /\ stage' = [stage EXCEPT ![v] = desk.stage]
      /\ stageAge' = [stageAge EXCEPT ![v] = 0]
      /\ pilot' = [pilot EXCEPT ![v] = p]
      /\ orphan' = Orphans(v, desk.stage, p, desk.excuse)
      /\ advance' = Overtaken(v)
  BY DEF SaveOrder, OrderedPilot, deviceVars
<1>2. v \in Build /\ desk.stage \in Stages /\ p \in Device \cup {NoDevice} /\ desk.excuse \in BOOLEAN
  <2>1. desk \in DeskType /\ pilot \in [Build -> Device \cup {NoDevice}]
    BY <1>1 DEF OfferedInv, Shapes
  <2> QED
    BY <2>1 DEF DeskType, OrderedPilot
<1>3. /\ advance' = advance \/ (/\ advance' = [advance EXCEPT !.overtaken = TRUE]
                                /\ advance.act \in {"proofs", "save"})
      /\ advance' = advance => advance = Quiet \/ advance.v # v \/ advance.overtaken
  <2>1. advance = Quiet \/ advance.act \in {"proofs", "save"}
    BY DEF OfferedInv, Shapes
  <2>2. CASE advance.act \in {"proofs", "save"} /\ advance.v = v
    <3>1. advance' = [advance EXCEPT !.overtaken = TRUE]
      BY <1>1, <2>2 DEF Overtaken
    <3>2. advance' = advance => advance.overtaken
      BY <2>2, <3>1 DEF OfferedInv, Shapes, Quiet
    <3> QED
      BY <2>2, <3>1, <3>2
  <2>3. CASE ~(advance.act \in {"proofs", "save"} /\ advance.v = v)
    BY <1>1, <2>1, <2>3 DEF Overtaken
  <2> QED
    BY <2>2, <2>3
<1> HIDE DEF v, p
<1>4. Shapes'
  <2>1. /\ stage' \in [Build -> AnyStage] /\ stageAge' \in [Build -> Nat]
        /\ pilot' \in [Build -> Device \cup {NoDevice}] /\ active' \subseteq Device
    BY <1>1, <1>2 DEF OfferedInv, Shapes, AnyStage
  <2>2. CASE advance' = advance
    BY <1>1, <2>1, <2>2 DEF OfferedInv, Shapes
  <2>3. CASE advance' = [advance EXCEPT !.overtaken = TRUE] /\ advance.act \in {"proofs", "save"}
    <3>1. advance = [act |-> advance.act, v |-> advance.v, saw |-> advance.saw,
                     floor |-> advance.floor, overtaken |-> advance.overtaken]
      BY <2>3 DEF OfferedInv, Shapes, Quiet
    <3>2. advance' = [act |-> advance.act, v |-> advance.v, saw |-> advance.saw,
                      floor |-> advance.floor, overtaken |-> TRUE]
      BY <2>3, <3>1
    <3> QED
      BY <1>1, <2>1, <2>3, <3>2 DEF Shapes
  <2> QED
    BY <1>3, <2>2, <2>3
<1>5. Covered'
  <2> SUFFICES ASSUME NEW w \in Build, stage'[w] \in {"canary", "partial"}
               PROVE  w \in orphan' \/ Reached(w, stage'[w], pilot'[w], active')
    BY DEF Covered, Reached, InStage
  <2>1. CASE w = v
    <3>1. stage'[w] = desk.stage /\ pilot'[w] = p
      BY <1>1, <1>2, <2>1 DEF OfferedInv, Shapes
    <3>2. desk.excuse \/ Reached(v, desk.stage, p, active)
      BY <1>1, <2>1, <3>1 DEF OfferedInv, OrderInv, v, p
    <3> QED
      BY <1>1, <2>1, <3>1, <3>2 DEF Orphans
  <2>2. CASE w # v
    <3>1. stage'[w] = stage[w] /\ pilot'[w] = pilot[w]
      BY <1>1, <1>2, <2>2 DEF OfferedInv, Shapes
    <3>2. w \in orphan => w \in orphan'
      BY <1>1, <2>2 DEF Orphans
    <3> QED
      BY <1>1, <3>1, <3>2 DEF OfferedInv, Covered
  <2> QED
    BY <2>1, <2>2
<1>6. OrderInv'
  BY <1>1 DEF OrderInv
<1>7. JobInv'
  <2> SUFFICES ASSUME advance' # Quiet PROVE JobInv'
    BY DEF JobInv
  <2>1. /\ advance # Quiet /\ advance'.act = advance.act /\ advance'.v = advance.v
        /\ advance'.saw = advance.saw /\ advance'.floor = advance.floor
        /\ ~advance'.overtaken => ~advance.overtaken /\ advance' = advance
    BY <1>3 DEF OfferedInv, Shapes, Quiet
  <2>2. ~advance'.overtaken /\ advance.v \in Build
          => stage'[advance.v] = stage[advance.v] /\ stageAge'[advance.v] = stageAge[advance.v]
    BY <1>1, <1>2, <1>3, <2>1 DEF OfferedInv, Shapes
  <2> QED
    BY <2>1, <2>2 DEF OfferedInv, JobInv
<1> QED
  BY <1>4, <1>5, <1>6, <1>7 DEF OfferedInv

LEMMA RevokeKeeps ==
  ASSUME OfferedInv, NEW d \in Device, RevokePc(d)
  PROVE  OfferedInv'
<1>1. /\ active' = active \ {d} /\ UNCHANGED <<stage, stageAge, pilot>>
      /\ orphan' = orphan \cup {v \in Published : ~Reached(v, stage[v], pilot[v], active')}
      /\ desk' = IF desk = Quiet THEN Quiet ELSE [desk EXCEPT !.excuse = TRUE]
      /\ advance' = IF advance.act = "save" THEN [advance EXCEPT !.overtaken = TRUE] ELSE advance
  BY DEF RevokePc
<1>2. desk' \in {Quiet} \cup DeskType /\ (desk' # Quiet => desk'.excuse)
  <2>1. CASE desk = Quiet
    BY <1>1, <2>1
  <2>2. CASE desk \in DeskType /\ desk # Quiet
    BY <1>1, <2>2 DEF DeskType
  <2> QED
    BY <2>1, <2>2 DEF OfferedInv, Shapes
<1>3. Shapes'
  BY <1>1, <1>2 DEF OfferedInv, Shapes, Quiet
<1>4. Covered'
  <2> SUFFICES ASSUME NEW v \in Build, stage[v] \in {"canary", "partial"}
               PROVE  v \in orphan' \/ Reached(v, stage[v], pilot[v], active')
    BY <1>1 DEF Covered, Reached, InStage
  <2>1. v \in Published
    BY DEF Published
  <2> QED
    BY <1>1, <2>1
<1>5. OrderInv'
  BY <1>2 DEF OrderInv
<1>6. JobInv'
  BY <1>1 DEF OfferedInv, Shapes, JobInv, Quiet
<1> QED
  BY <1>3, <1>4, <1>5, <1>6 DEF OfferedInv

LEMMA RestoreKeeps ==
  ASSUME OfferedInv, NEW d \in Device, RestorePc(d)
  PROVE  OfferedInv'
<1>1. active' = active \cup {d} /\ UNCHANGED <<stage, stageAge, pilot, desk, advance, orphan>>
  BY DEF RestorePc
<1>2. \A v, s, p : Reached(v, s, p, active) => Reached(v, s, p, active')
  BY <1>1 DEF Reached
<1>3. Shapes' /\ JobInv'
  BY <1>1 DEF OfferedInv, Shapes, JobInv
<1>4. Covered'
  BY <1>1, <1>2 DEF OfferedInv, Covered, Reached, InStage
<1>5. OrderInv'
  BY <1>1, <1>2 DEF OfferedInv, OrderInv, OrderedPilot, Reached, InStage
<1> QED
  BY <1>3, <1>4, <1>5 DEF OfferedInv

LEMMA JobKeeps == ASSUME OfferedInv, JobLook \/ JobProofs PROVE OfferedInv'
<1>1. UNCHANGED <<stage, stageAge, pilot, active, desk, orphan>>
  BY DEF JobLook, JobProofs, deviceVars
<1>2. Covered' /\ OrderInv'
  BY <1>1 DEF OfferedInv, Covered, OrderInv, OrderedPilot, Reached, InStage
<1>3. CASE JobLook
  <2>1. advance' = [act |-> "proofs", v |-> Current, saw |-> stage[Current],
                    floor |-> stageAge[Current], overtaken |-> FALSE]
    BY <1>3 DEF JobLook
  <2> HIDE DEF Current
  <2>2. JobInv'
    BY <1>1, <2>1 DEF JobInv
  <2>3. Shapes'
    BY <1>1, <2>1 DEF OfferedInv, Shapes
  <2> QED
    BY <1>2, <2>2, <2>3 DEF OfferedInv
<1>4. CASE JobProofs
  <2>1. CASE advance' = Quiet
    BY <1>1, <1>2, <2>1 DEF OfferedInv, Shapes, JobInv
  <2>2. CASE /\ advance' = [advance EXCEPT !.act = "save"] /\ advance # Quiet
             /\ NextStage(advance.saw) # advance.saw
             /\ \E d \in Device : Proves(d, advance.v, advance.floor)
    <3>1. /\ advance'.act = "save" /\ advance'.v = advance.v /\ advance'.saw = advance.saw
          /\ advance'.floor = advance.floor /\ advance'.overtaken = advance.overtaken
          /\ advance' = [act |-> "save", v |-> advance.v, saw |-> advance.saw,
                         floor |-> advance.floor, overtaken |-> advance.overtaken]
      BY <2>2 DEF OfferedInv, Shapes
    <3>2. advance.floor >= Soak
      BY <2>2 DEF Proves
    <3>3. JobInv'
      BY <1>1, <2>2, <3>1, <3>2 DEF OfferedInv, JobInv
    <3>4. Shapes'
      BY <1>1, <2>2, <3>1 DEF OfferedInv, Shapes
    <3> QED
      BY <1>2, <3>3, <3>4 DEF OfferedInv
  <2>3. advance.act = "proofs" /\ advance # Quiet
    BY <1>4 DEF JobProofs, Quiet
  <2> QED
    BY <1>4, <2>1, <2>2, <2>3 DEF JobProofs
<1> QED
  BY <1>3, <1>4

\* The stages there are, and that one more is told from the last.
LEMMA StageOrder ==
  \A s \in AnyStage : NextStage(s) # s => s \in {"canary", "partial"} /\ NextStage(s) \in Stages
BY DEF AnyStage, Stages, NextStage

LEMMA JobSaveKeeps == ASSUME OfferedInv, JobSave PROVE OfferedInv'
<1> DEFINE v == advance.v
           s == NextStage(advance.saw)
<1>1. /\ advance.act = "save" /\ advance # Quiet /\ advance' = Quiet
      /\ UNCHANGED <<pilot, active, desk>>
      /\ stage' = [stage EXCEPT ![v] = s]
      /\ stageAge' = [stageAge EXCEPT ![v] = 0]
      /\ orphan' = Orphans(v, stage'[v], pilot[v], advance.overtaken)
  BY DEF JobSave, deviceVars, Quiet
<1>2. advance.saw # s /\ s \in AnyStage
  BY <1>1 DEF OfferedInv, JobInv, NextStage, AnyStage, Stages
<1>3. v \in Build /\ ~advance.overtaken =>
        stage[v] = advance.saw /\ advance.saw \in {"canary", "partial"}
  <2>1. v \in Build /\ ~advance.overtaken => stage[v] = advance.saw
    BY <1>1 DEF OfferedInv, JobInv
  <2> QED
    BY <1>2, <2>1, StageOrder DEF OfferedInv, Shapes
<1>4. Shapes'
  BY <1>1, <1>2 DEF OfferedInv, Shapes
<1>5. Covered'
  <2> SUFFICES ASSUME NEW w \in Build, stage'[w] \in {"canary", "partial"}
               PROVE  w \in orphan' \/ Reached(w, stage'[w], pilot[w], active)
    BY <1>1 DEF Covered, Reached, InStage
  <2>1. CASE w # v
    <3>1. stage'[w] = stage[w]
      BY <1>1, <2>1 DEF OfferedInv, Shapes
    <3>2. w \in orphan => w \in orphan'
      BY <1>1, <2>1 DEF Orphans
    <3> QED
      BY <3>1, <3>2 DEF OfferedInv, Covered
  <2>2. CASE w = v /\ advance.overtaken
    BY <1>1, <2>2 DEF Orphans
  <2>3. CASE w = v /\ ~advance.overtaken
    <3>1. stage'[w] = s /\ stage[w] = advance.saw /\ advance.saw \in {"canary", "partial"}
      BY <1>1, <1>3, <2>3 DEF OfferedInv, Shapes
    <3>2. w \in orphan \/ Reached(w, advance.saw, pilot[w], active)
      BY <3>1 DEF OfferedInv, Covered
    <3>3. w \in orphan \/ Reached(w, s, pilot[w], active)
      BY <3>1, <3>2, StagesWiden DEF OfferedInv, Shapes
    <3> QED
      BY <1>1, <2>3, <3>1, <3>3 DEF Orphans
  <2> QED
    BY <2>1, <2>2, <2>3
<1>6. OrderInv'
  BY <1>1 DEF OfferedInv, OrderInv, OrderedPilot, Reached, InStage
<1> QED
  BY <1>1, <1>4, <1>5, <1>6 DEF OfferedInv, JobInv

\* The devices and the clock touch none of it, but for the age of a stage no job looks at.
LEMMA WorldKeeps ==
  ASSUME OfferedInv, Devices \/ Hour \/ \E d \in Device : Switch(d)
  PROVE  OfferedInv'
<1>1. UNCHANGED <<stage, pilot, active, desk, advance, orphan>>
  BY DEF Devices, Fetch, Install, Hour, Switch
<1>2. Covered' /\ OrderInv'
  BY <1>1 DEF OfferedInv, Covered, OrderInv, OrderedPilot, Reached, InStage
<1>3. CASE Hour
  <2>1. advance = Quiet
    BY <1>3 DEF Hour
  <2>2. stageAge' \in [Build -> Nat]
    <3>1. stageAge' = [v \in Build |-> IF v \in Published THEN Upto(stageAge[v], Soak) ELSE 0]
      BY <1>3 DEF Hour
    <3>2. \A v \in Build : Upto(stageAge[v], Soak) \in Nat
      BY RolloutAssumption DEF OfferedInv, Shapes, Upto
    <3> QED
      BY <3>1, <3>2
  <2> QED
    BY <1>1, <1>2, <2>1, <2>2 DEF OfferedInv, Shapes, JobInv
<1>4. CASE UNCHANGED stageAge
  BY <1>1, <1>2, <1>4 DEF OfferedInv, Shapes, JobInv
<1> QED
  BY <1>3, <1>4 DEF Devices, Fetch, Install, Switch

LEMMA OfferedStep == OfferedInv /\ [RolloutNext]_rolloutVars => OfferedInv'
<1>1. OfferedInv /\ UNCHANGED rolloutVars => OfferedInv'
  BY DEF rolloutVars, deviceVars, OfferedInv, Shapes, Covered, OrderInv, OrderedPilot, JobInv,
         Reached, InStage
<1> QED
  BY <1>1, PublishKeeps, SetStageKeeps, SaveOrderKeeps, RevokeKeeps, RestoreKeeps, JobKeeps,
     JobSaveKeeps, WorldKeeps DEF RolloutNext, Owner, AdvanceJob

(***************************************************************************)
(* A stage rests on proof of its own, and never on proof nobody can give,  *)
(* whatever the owner orders, revokes and restores while the hourly job    *)
(* runs.                                                                   *)
(***************************************************************************)
THEOREM ProvenRollout == RolloutSpec => RolloutSound
<1>1. OfferedInv => SomeoneOffered
  <2> SUFFICES ASSUME OfferedInv, NEW v \in Published, stage[v] \in {"canary", "partial"}
               PROVE  v \in orphan \/ \E d \in active : IsOffered(v, d)
    BY DEF SomeoneOffered
  <2>1. v \in orphan \/ Reached(v, stage[v], pilot[v], active)
    BY DEF OfferedInv, Covered, Published
  <2> QED
    BY <2>1 DEF Reached, IsOffered
<1>2. OfferedInv /\ [RolloutNext]_rolloutVars =>
        [ \A v \in Build :
            (advance.act = "save" /\ stage'[v] # stage[v] /\ advance' = Quiet)
              => advance.overtaken \/ (stage'[v] = NextStage(stage[v]) /\ stageAge[v] >= Soak)
        ]_rolloutVars
  <2> SUFFICES ASSUME OfferedInv, RolloutNext, NEW v \in Build,
                      advance.act = "save", stage'[v] # stage[v], advance' = Quiet,
                      ~advance.overtaken
               PROVE  stage'[v] = NextStage(stage[v]) /\ stageAge[v] >= Soak
    OBVIOUS
  <2>1. JobSave
    <3>1. advance # Quiet
      BY DEF Quiet
    <3>2. ~SaveOrder /\ \A d \in Device : ~RevokePc(d)
      BY <3>1 DEF SaveOrder, RevokePc, Overtaken, OfferedInv, Shapes, Quiet
    <3>3. ~JobLook /\ ~JobProofs
      BY <3>1 DEF JobLook, JobProofs
    <3> QED
      BY <3>1, <3>2, <3>3
         DEF RolloutNext, Owner, Publish, SetStage, RestorePc, AdvanceJob, Devices, Fetch, Install,
             Hour, Switch
  <2>2. stage' = [stage EXCEPT ![advance.v] = NextStage(advance.saw)]
    BY <2>1 DEF JobSave
  <2>3. v = advance.v /\ stage'[v] = NextStage(advance.saw)
    BY <2>2 DEF OfferedInv, Shapes
  <2>4. stage[v] = advance.saw /\ stageAge[v] = advance.floor /\ advance.floor >= Soak
    BY <2>3 DEF OfferedInv, JobInv, Quiet
  <2> QED
    BY <2>3, <2>4
<1> QED
  BY OfferedInit, OfferedStep, <1>1, <1>2, PTL DEF RolloutSpec, RolloutSound, StagesSoaked

\* The shapes of the builds, the orders and the devices.
LEMMA LatestIsBuild == \A S \in SUBSET Build : Latest(S) \in Build \cup {0}
<1> SUFFICES ASSUME NEW S \in SUBSET Build, S # {} PROVE Latest(S) \in S
  BY DEF Latest
<1> DEFINE top  == Cardinality(Build)
           gaps == {n \in Nat : top - n \in S}
<1>1. top \in Nat /\ S \subseteq 1 .. top
  BY RolloutAssumption
<1> HIDE DEF top
<1>2. \A v \in S : top - v \in gaps
  <2> TAKE v \in S
  <2>1. v \in Int /\ top - v \in Nat /\ top - (top - v) = v
    BY <1>1
  <2> QED
    BY <2>1
<1>3. PICK n \in gaps : \A k \in gaps : n <= k
  <2>1. gaps \in SUBSET Nat /\ gaps # {}
    BY <1>2
  <2> HIDE DEF gaps
  <2> QED
    BY <2>1, LeastOf
<1>4. top - n \in S /\ n \in Nat
  OBVIOUS
<1>5. \A w \in S : w <= top - n
  <2> TAKE w \in S
  <2>1. n <= top - w /\ w \in Int
    BY <1>1, <1>2, <1>3
  <2> QED
    BY <1>1, <1>4, <2>1
<1> QED
  BY <1>4, <1>5 DEF Latest

LEMMA CurrentIsBuild == Current \in Build \cup {0} /\ \A d : Offer(d) \in Build \cup {0}
<1>1. Current \in Build \cup {0}
  <2>1. {v \in Published : stage[v] # "halted"} \in SUBSET Build
    BY DEF Published
  <2> QED
    BY <2>1, LatestIsBuild DEF Current
<1> QED
  BY <1>1 DEF Offer

\* The shapes that the offers do not depend on, and what the job is about.
AgesTyped ==
  /\ stageAge \in [Build -> 0..Soak]
  /\ runs \in [Device -> Build \cup {0}] /\ ready \in [Device -> Build \cup {0}]
  /\ runAge \in [Device -> 0..Soak] /\ silent \in [Device -> 0..2]
  /\ orders \in 0..MaxOrders /\ orphan \subseteq Build
  /\ advance # Quiet => advance.v \in Build

LEMMA SoakIsNat == 0 \in 0..Soak /\ \A n \in 0..Soak : Upto(n, Soak) \in 0..Soak
BY RolloutAssumption DEF Upto

LEMMA OrderCounted == ASSUME AgesTyped, Order PROVE orders' \in 0..MaxOrders
BY RolloutAssumption DEF AgesTyped, Order

LEMMA OrphansAreBuilds ==
  ASSUME AgesTyped, NEW v \in Build, NEW s, NEW p, NEW excuse
  PROVE  Orphans(v, s, p, excuse) \subseteq Build
BY DEF AgesTyped, Orphans

LEMMA OwnerTyped == ASSUME OfferedInv, AgesTyped, Owner PROVE AgesTyped'
<1>1. Order /\ UNCHANGED <<stageAge, runs, runAge, silent, ready>>
  BY DEF Owner, Publish, SetStage, RevokePc, RestorePc, deviceVars
<1>2. orphan' \subseteq Build
  <2>1. Published \subseteq Build
    BY DEF Published
  <2> QED
    BY <2>1 DEF Owner, Publish, SetStage, RevokePc, RestorePc, AgesTyped
<1>3. advance' # Quiet => advance'.v \in Build
  <2>1. advance' = advance \/ (advance # Quiet /\ advance' = [advance EXCEPT !.overtaken = TRUE])
    BY DEF Owner, Publish, SetStage, RevokePc, RestorePc, Quiet
  <2>2. advance # Quiet => [advance EXCEPT !.overtaken = TRUE].v = advance.v
    BY DEF OfferedInv, Shapes
  <2> QED
    BY <2>1, <2>2 DEF AgesTyped
<1> QED
  BY <1>1, <1>2, <1>3, OrderCounted DEF AgesTyped

LEMMA SavesTyped == ASSUME OfferedInv, AgesTyped, SaveOrder \/ AdvanceJob PROVE AgesTyped'
<1>1. UNCHANGED <<runs, runAge, silent, ready, orders>>
  BY DEF SaveOrder, AdvanceJob, JobLook, JobProofs, JobSave, deviceVars
<1>2. stageAge' \in [Build -> 0..Soak]
  BY SoakIsNat DEF SaveOrder, AdvanceJob, JobLook, JobProofs, JobSave, AgesTyped
<1>3. CASE SaveOrder
  <2>1. desk # Quiet /\ desk.v \in Build
    BY <1>3 DEF SaveOrder, OfferedInv, Shapes, DeskType
  <2>2. orphan' \subseteq Build
    BY <1>3, <2>1, OrphansAreBuilds DEF SaveOrder
  <2>3. advance' = advance \/ (advance # Quiet /\ advance' = [advance EXCEPT !.overtaken = TRUE])
    BY <1>3 DEF SaveOrder, Overtaken, Quiet
  <2>4. advance # Quiet => [advance EXCEPT !.overtaken = TRUE].v = advance.v
    BY DEF OfferedInv, Shapes
  <2>5. advance' # Quiet => advance'.v \in Build
    BY <2>3, <2>4 DEF AgesTyped
  <2> QED
    BY <1>1, <1>2, <2>2, <2>5 DEF AgesTyped
<1>4. CASE JobLook
  <2>1. advance'.v = Current /\ Current \in Build /\ UNCHANGED orphan
    BY <1>4, CurrentIsBuild DEF JobLook
  <2> QED
    BY <1>1, <1>2, <2>1 DEF AgesTyped
<1>5. CASE JobProofs
  <2>1. advance # Quiet /\ UNCHANGED orphan
        /\ (advance' = Quiet \/ advance' = [advance EXCEPT !.act = "save"])
    BY <1>5 DEF JobProofs, Quiet
  <2>2. [advance EXCEPT !.act = "save"].v = advance.v
    BY <2>1 DEF OfferedInv, Shapes
  <2> QED
    BY <1>1, <1>2, <2>1, <2>2 DEF AgesTyped
<1>6. CASE JobSave
  <2>1. advance # Quiet /\ advance' = Quiet
    BY <1>6 DEF JobSave, Quiet
  <2>2. advance.v \in Build
    BY <2>1 DEF AgesTyped
  <2>3. orphan' \subseteq Build
    BY <1>6, <2>2, OrphansAreBuilds DEF JobSave
  <2> QED
    BY <1>1, <1>2, <2>1, <2>3 DEF AgesTyped
<1> QED
  BY <1>3, <1>4, <1>5, <1>6 DEF AdvanceJob

LEMMA DevicesTyped ==
  ASSUME OfferedInv, AgesTyped, Devices \/ Hour \/ \E d \in Device : Switch(d) PROVE AgesTyped'
<1>1. UNCHANGED <<advance, orphan>>
  BY DEF Devices, Fetch, Install, Hour, Switch
<1>2. CASE Devices
  <2>1. UNCHANGED <<stageAge, silent, orders>>
    BY <1>2 DEF Devices, Fetch, Install
  <2>2. ready' \in [Device -> Build \cup {0}]
    BY <1>2, CurrentIsBuild DEF Devices, Fetch, Install, AgesTyped
  <2>3. runs' \in [Device -> Build \cup {0}] /\ runAge' \in [Device -> 0..Soak]
    BY <1>2, SoakIsNat DEF Devices, Fetch, Install, AgesTyped
  <2> QED
    BY <1>1, <2>1, <2>2, <2>3 DEF AgesTyped
<1>3. CASE Hour
  <2>1. UNCHANGED <<runs, ready, orders>>
    BY <1>3 DEF Hour
  <2>2. stageAge' \in [Build -> 0..Soak]
    <3>1. \A v \in Build : (IF v \in Published THEN Upto(stageAge[v], Soak) ELSE 0) \in 0..Soak
      BY SoakIsNat DEF AgesTyped
    <3> QED
      BY <1>3, <3>1 DEF Hour
  <2>3. runAge' \in [Device -> 0..Soak]
    <3>1. \A d \in Device : (IF runs[d] = 0 THEN 0 ELSE Upto(runAge[d], Soak)) \in 0..Soak
      BY SoakIsNat DEF AgesTyped
    <3> QED
      BY <1>3, <3>1 DEF Hour
  <2>4. silent' \in [Device -> 0..2]
    BY <1>3 DEF Hour, AgesTyped
  <2> QED
    BY <1>1, <2>1, <2>2, <2>3, <2>4 DEF AgesTyped
<1>4. CASE \E d \in Device : Switch(d)
  <2>1. Order /\ UNCHANGED <<stageAge, runs, runAge, ready>>
    BY <1>4 DEF Switch
  <2>2. silent' \in [Device -> 0..2]
    BY <1>4 DEF Switch, AgesTyped
  <2> QED
    BY <1>1, <2>1, <2>2, OrderCounted DEF AgesTyped
<1> QED
  BY <1>2, <1>3, <1>4

\* The shapes of the versions and the devices; the newest version there is, which devices
\* are offered and the job looks at, is one of them.
THEOREM RolloutTyped == RolloutSpec => []RolloutTypeOK
<1>1. RolloutInit => AgesTyped
  BY SoakIsNat, RolloutAssumption DEF RolloutInit, AgesTyped
<1>2. OfferedInv /\ AgesTyped /\ [RolloutNext]_rolloutVars => AgesTyped'
  <2>1. AgesTyped /\ UNCHANGED rolloutVars => AgesTyped'
    BY DEF rolloutVars, deviceVars, AgesTyped
  <2> QED
    BY <2>1, OwnerTyped, SavesTyped, DevicesTyped DEF RolloutNext
<1>3. OfferedInv /\ AgesTyped => RolloutTypeOK
  BY DEF OfferedInv, Shapes, AnyStage, DeskType, Quiet, AgesTyped, RolloutTypeOK
<1> QED
  BY OfferedInit, OfferedStep, <1>1, <1>2, <1>3, PTL DEF RolloutSpec

-----------------------------------------------------------------------------
\* Side by side.

LEMMA OneActsAtDesk ==
  [DeskNext]_deskVars =>
    /\ [PoolNext]_poolVars /\ [StagesNext]_stageVars /\ [BooksNext]_booksVars
    /\ [PayNext]_payVars /\ [RolloutNext]_rolloutVars /\ [StagingNext]_stagingVars
    /\ [BackupsNext]_backupVars
<1> SUFFICES ASSUME [DeskNext]_deskVars
             PROVE  /\ [PoolNext]_poolVars /\ [StagesNext]_stageVars /\ [BooksNext]_booksVars
                    /\ [PayNext]_payVars /\ [RolloutNext]_rolloutVars /\ [StagingNext]_stagingVars
                    /\ [BackupsNext]_backupVars
  OBVIOUS
<1>1. CASE UNCHANGED deskVars
  BY <1>1 DEF deskVars
<1>2. CASE Only("pool", PoolNext)
  BY <1>2 DEF Only
<1>3. CASE Only("stages", StagesNext)
  BY <1>3 DEF Only
<1>4. CASE Only("books", BooksNext)
  BY <1>4 DEF Only
<1>5. CASE Only("pay", PayNext)
  BY <1>5 DEF Only
<1>6. CASE Only("rollout", RolloutNext)
  BY <1>6 DEF Only
<1>7. CASE Only("staging", StagingNext)
  BY <1>7 DEF Only
<1>8. CASE Only("backups", BackupsNext)
  BY <1>8 DEF Only
<1> QED
  BY <1>1, <1>2, <1>3, <1>4, <1>5, <1>6, <1>7, <1>8 DEF DeskNext

\* What the components do side by side is what each of them does: all that is proved of the
\* pool, the stages, the books, the month, the updates and the backups holds of the desk.
THEOREM DeskSideBySide ==
  DeskSpec => /\ PoolSpec /\ StagesSpec /\ BooksSpec /\ PaySpec /\ RolloutSpec /\ StagingSpec
              /\ BackupsSpec
<1>1. DeskInit => /\ PoolInit /\ StagesInit /\ BooksInit /\ PayInit /\ RolloutInit
                  /\ StagingInit /\ BackupsInit
  BY DEF DeskInit
<1> QED
  BY <1>1, OneActsAtDesk, PTL
  DEF DeskSpec, PoolSpec, StagesSpec, BooksSpec, PaySpec, RolloutSpec, StagingSpec, BackupsSpec

\* The shapes of the rows that requests and jobs share.
THEOREM DeskTyped == DeskSpec => []DeskTypeOK
<1>1. PoolTypeOK /\ StagesTypeOK /\ BooksTypeOK /\ PayTypeOK
        /\ RolloutTypeOK /\ StagingTypeOK /\ BackupsTypeOK => DeskTypeOK
  BY DEF DeskTypeOK
<1> QED
  BY <1>1, DeskSideBySide, PoolTyped, StagesTyped, BooksTyped, MonthTyped, RolloutTyped,
     StagingTyped, NewestKept, PTL
=============================================================================
