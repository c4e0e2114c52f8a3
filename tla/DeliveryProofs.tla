--------------------------- MODULE DeliveryProofs ---------------------------
(***************************************************************************)
(* The outbox implements RecordDelivery, for any number of records, drains *)
(* and mishaps and whatever the bounds of batch, budget and age are: no    *)
(* record ever just disappears. With the machine that makes the records    *)
(* and the server that receives them (IdleStateMachineProofs,              *)
(* IngestProofs), all of it holds of the runs that check them side by side *)
(* (MCDelivery).                                                           *)
(***************************************************************************)
EXTENDS MCDelivery, IdleStateMachineProofs, IngestProofs, FiniteSetTheorems, TLAPS

TaskType ==
  [pc : {"idle", "lease", "send"}, round : 0 .. MaxRounds,
   lease : Lease \cup {None}, batch : SUBSET (1 .. made), reply : Replies, overrun : BOOLEAN]

\* A row that waits, or is gone, is leased by nobody.
FreeInv ==
  \A r \in Row : r \in waiting \cup parked \/ r \notin queue => holder[r] = None

\* What a drain's lease still holds is part of the batch it has read.
LeaseInv ==
  \A d \in drains : task[d].pc = "send" =>
    /\ task[d].lease \in Lease
    /\ \A r \in queue : holder[r] = task[d].lease => r \in task[d].batch

\* The answer "Success" means that the server has the batch.
StoredInv ==
  \A d \in Drain : task[d].reply = "Success" => Readable(task[d].batch) \subseteq server

\* A round has been taken only if one was left.
RoundInv == \A d \in Drain : task[d].pc = "send" => task[d].round < MaxRounds

\* Nothing has vanished.
AllInv == queue \cup server \cup DroppedRows = 1 .. made

OutboxInv == OutboxTypeOK /\ FreeInv /\ LeaseInv /\ StoredInv /\ RoundInv /\ AllInv

LEMMA OutboxBegins == OutboxInit => OutboxInv
<1> SUFFICES ASSUME OutboxInit PROVE OutboxInv
  OBVIOUS
<1> USE BatchAssumption, BoundAssumption DEF OutboxInit
<1>1. holder \in [Row -> Lease \cup {None}]
  OBVIOUS
<1>1a. made \in 0 .. MaxRow /\ current \in 1 .. FullSize /\ faults \in 0 .. MaxFaults
  OBVIOUS
<1>2. Idle \in TaskType
  BY DEF Idle, EmptyHanded, TaskType, Replies, None
<1>3. task \in [Drain -> TaskType]
  BY <1>2
<1>4. OutboxTypeOK
  BY <1>1, <1>1a, <1>3 DEF OutboxTypeOK, TaskType
<1>5. FreeInv /\ LeaseInv /\ StoredInv /\ RoundInv
  BY DEF FreeInv, LeaseInv, StoredInv, RoundInv, Idle, EmptyHanded, Drain
<1>6. AllInv
  BY DEF AllInv, DroppedRows
<1> QED
  BY <1>4, <1>5, <1>6 DEF OutboxInv

-----------------------------------------------------------------------------
\* The environment and the writers.

LEMMA DrainsKnown == OutboxTypeOK => drains \subseteq Drain
BY DEF OutboxTypeOK, Drain

\* Giving up rows adds exactly them to the dropped ones.
LEMMA LogRows ==
  ASSUME NEW D, NEW rows, NEW why
  PROVE  {entry[1] : entry \in D \cup (rows \X {why})} = {entry[1] : entry \in D} \cup rows
<1>1. ASSUME NEW r \in rows PROVE r \in {entry[1] : entry \in rows \X {why}}
  <2>1. <<r, why>> \in rows \X {why} /\ <<r, why>>[1] = r
    OBVIOUS
  <2> QED
    BY <2>1
<1>2. ASSUME NEW entry \in rows \X {why} PROVE entry[1] \in rows
  OBVIOUS
<1> QED
  BY <1>1, <1>2

LEMMA EnqueueInv == ASSUME OutboxInv, Enqueue PROVE OutboxInv'
<1> USE BoundAssumption DEF OutboxInv
<1>1. PICK ok \in BOOLEAN :
        /\ Written(ok)
        /\ queue'   = IF ok THEN queue \cup {made + 1} ELSE queue
        /\ dropped' = IF ok THEN dropped ELSE Log({made + 1}, "disk")
  BY DEF Enqueue
<1>2. faults' \in 0 .. MaxFaults
  BY <1>1 DEF Written, Fault, OutboxTypeOK
<1>3. made' = made + 1 /\ made' \in 0 .. MaxRow /\ 1 .. made \subseteq 1 .. made'
        /\ made + 1 \in 1 .. made'
  BY DEF Enqueue, OutboxTypeOK
<1>4. queue' \subseteq 1 .. made' /\ waiting' \subseteq queue' /\ parked' \subseteq queue'
  BY <1>1, <1>3 DEF Enqueue, OutboxTypeOK
<1>4a. dropped' \subseteq (1 .. made') \X Reasons
  <2>1. dropped \subseteq (1 .. made') \X Reasons
    BY <1>3 DEF OutboxTypeOK
  <2>2. {made + 1} \X {"disk"} \subseteq (1 .. made') \X Reasons
    BY <1>3 DEF Reasons
  <2> QED
    BY <1>1, <2>1, <2>2 DEF Log
<1>5. task' \in [Drain -> TaskType']
  BY <1>3 DEF Enqueue, OutboxTypeOK, TaskType, workerVars
<1>6. old' \subseteq 1 .. made' /\ late' \subseteq SUBSET (1 .. made') /\ server' \subseteq 1 .. made'
  BY <1>3 DEF Enqueue, OutboxTypeOK, serverVars
<1>7. OutboxTypeOK'
  BY <1>2, <1>3, <1>4, <1>4a, <1>5, <1>6 DEF Enqueue, OutboxTypeOK, TaskType, fixedVars, workerVars
<1>8. FreeInv'
  BY <1>1, <1>3 DEF Enqueue, FreeInv, OutboxTypeOK, Row
<1>9. made + 1 \in Row /\ made + 1 \notin queue
  BY <1>3 DEF OutboxTypeOK, Row
<1>10. LeaseInv'
  BY <1>1, <1>9 DEF Enqueue, LeaseInv, FreeInv, workerVars, fixedVars, Lease, None
<1>11. StoredInv' /\ RoundInv'
  BY DEF Enqueue, StoredInv, RoundInv, Readable, workerVars, serverVars, fixedVars
<1>12. DroppedRows' = IF ok THEN DroppedRows ELSE DroppedRows \cup {made + 1}
  BY <1>1, LogRows DEF DroppedRows, Log
<1>13. AllInv'
  BY <1>1, <1>3, <1>12 DEF AllInv, Enqueue, serverVars, OutboxTypeOK
<1> QED
  BY <1>7, <1>8, <1>10, <1>11, <1>13

\* Rows leave the table only for the server's sake or given up.
GivesUp ==
  /\ queue' \subseteq queue /\ UNCHANGED server
  /\ DroppedRows \subseteq DroppedRows'
  /\ DroppedRows' \subseteq DroppedRows \cup (queue \ queue')
  /\ queue \ queue' \subseteq DroppedRows' \cup server

LEMMA GivesUpKeeps == AllInv /\ GivesUp /\ UNCHANGED made => AllInv'
BY DEF AllInv, GivesUp

LEMMA BudgetGivesUp == EnforceBudget => GivesUp
<1> SUFFICES ASSUME EnforceBudget PROVE GivesUp
  OBVIOUS
<1>1. Expired \cup OverBudget \subseteq queue
  BY DEF Expired, OverBudget, Oldest, Free
<1>2. queue' = queue \ (Expired \cup OverBudget) /\ server' = server
  BY DEF EnforceBudget, serverVars
<1>3. DroppedRows' = DroppedRows \cup Expired \cup OverBudget
  <2> DEFINE tooOld == Log(Expired, "age")
  <2>1. {entry[1] : entry \in tooOld} = DroppedRows \cup Expired
    BY LogRows DEF DroppedRows, Log
  <2>2. dropped' = tooOld \cup (OverBudget \X {"budget"})
    BY DEF EnforceBudget, Log
  <2> HIDE DEF tooOld
  <2>3. DroppedRows' = {entry[1] : entry \in tooOld} \cup OverBudget
    BY <2>2, LogRows DEF DroppedRows
  <2> QED
    BY <2>1, <2>3
<1> QED
  BY <1>1, <1>2, <1>3 DEF GivesUp

LEMMA RestartGivesUp == Restart => GivesUp
<1> SUFFICES ASSUME Restart PROVE GivesUp
  OBVIOUS
<1>1. PICK corrupt \in BOOLEAN :
       /\ queue'   = IF corrupt THEN {} ELSE queue
       /\ dropped' = IF corrupt THEN Log(queue, "corrupt") ELSE dropped
  BY DEF Restart
<1>2. DroppedRows' = IF corrupt THEN DroppedRows \cup queue ELSE DroppedRows
  BY <1>1, LogRows DEF DroppedRows, Log
<1> QED
  BY <1>1, <1>2 DEF GivesUp, Restart

LEMMA EnforceBudgetInv == ASSUME OutboxInv, EnforceBudget PROVE OutboxInv'
<1> DEFINE gone == Expired \cup OverBudget
<1> USE DEF OutboxInv, EnforceBudget
<1>1. gone \subseteq Free /\ gone \subseteq 1 .. made
  BY DEF Expired, OverBudget, Oldest, Free, OutboxTypeOK
<1>2. queue' = queue \ gone /\ waiting' = waiting \ gone /\ parked' = parked \ gone
  OBVIOUS
<1>3. dropped' \subseteq (1 .. made) \X Reasons
  BY <1>1 DEF OutboxTypeOK, Reasons
<1>4. OutboxTypeOK'
  BY <1>2, <1>3 DEF OutboxTypeOK, fixedVars, workerVars, serverVars
<1>5. FreeInv'
  BY <1>1, <1>2 DEF FreeInv, Free
<1>6. LeaseInv'
  BY <1>2 DEF LeaseInv, workerVars, fixedVars
<1>7. StoredInv' /\ RoundInv'
  BY DEF StoredInv, RoundInv, Readable, workerVars, serverVars, fixedVars
<1>8. AllInv'
  BY BudgetGivesUp, GivesUpKeeps
<1> QED
  BY <1>4, <1>5, <1>6, <1>7, <1>8

LEMMA LateArrivalInv == ASSUME OutboxInv, LateArrival PROVE OutboxInv'
<1> USE DEF OutboxInv, LateArrival, AgentVars, fixedVars, tableVars
<1>1. server \subseteq server' /\ server' \subseteq 1 .. made
  BY DEF OutboxTypeOK, Readable
<1>2. OutboxTypeOK'
  BY <1>1 DEF OutboxTypeOK
<1>3. FreeInv' /\ LeaseInv' /\ StoredInv' /\ RoundInv'
  BY <1>1 DEF FreeInv, LeaseInv, StoredInv, RoundInv, Held, Readable
<1>4. AllInv'
  BY <1>1 DEF AllInv, DroppedRows
<1> QED
  BY <1>2, <1>3, <1>4

LEMMA TimersInv == ASSUME OutboxInv, ExpireLease \/ GrowOld \/ \E r \in Row : WaitOver(r) PROVE OutboxInv'
<1> USE DEF OutboxInv, fixedVars, workerVars, serverVars, tableVars
<1>1. CASE ExpireLease
  <2>1. PICK l \in {holder[r] : r \in queue} \ ({None} \cup expired) :
          /\ expired' = expired \cup {l}
          /\ task' = [d \in Drain |-> [task[d] EXCEPT !.overrun = @ \/ task[d].lease = l]]
          /\ IF \E d \in drains : task[d].lease = l THEN Fault ELSE UNCHANGED faults
    BY <1>1 DEF ExpireLease
  <2>2. UNCHANGED <<fixedVars, made, old, queue, holder, waiting, parked, current, stopped,
                    serverVars, dropped>>
    BY <1>1 DEF ExpireLease
  <2>3. expired' \subseteq Lease
    BY <2>1, BoundAssumption DEF OutboxTypeOK, Row
  <2>4. faults' \in 0 .. MaxFaults
    BY <2>1, BoundAssumption DEF OutboxTypeOK, Fault
  <2>5. task \in [Drain -> TaskType] /\ drains \subseteq Drain
    BY DrainsKnown DEF OutboxTypeOK, TaskType
  <2>6. ASSUME NEW d \in Drain
        PROVE  /\ task'[d] \in TaskType /\ task'[d].pc = task[d].pc /\ task'[d].lease = task[d].lease
               /\ task'[d].batch = task[d].batch /\ task'[d].reply = task[d].reply
               /\ task'[d].round = task[d].round
    <3>1. task[d] \in TaskType /\ (task[d].overrun \/ task[d].lease = l) \in BOOLEAN
      BY <2>5
    <3>2. task'[d] = [task[d] EXCEPT !.overrun = (task[d].overrun \/ task[d].lease = l)]
      BY <2>1
    <3> QED BY <3>1, <3>2 DEF TaskType
  <2>7. task' \in [Drain -> TaskType']
    BY <2>1, <2>2, <2>6 DEF TaskType
  <2>8. OutboxTypeOK'
    BY <2>2, <2>3, <2>4, <2>7 DEF OutboxTypeOK, TaskType
  <2>9. FreeInv' /\ AllInv'
    BY <2>2 DEF FreeInv, AllInv, DroppedRows
  <2>10. LeaseInv' /\ StoredInv' /\ RoundInv'
    BY <2>2, <2>5, <2>6 DEF LeaseInv, StoredInv, RoundInv, Readable
  <2> QED
    BY <2>8, <2>9, <2>10
<1>2. CASE GrowOld
  <2>1. OutboxTypeOK'
    BY <1>2 DEF GrowOld, OutboxTypeOK, Oldest
  <2> QED
    BY <1>2, <2>1 DEF GrowOld, FreeInv, LeaseInv, StoredInv, RoundInv, AllInv, Held, Readable, DroppedRows
<1>3. CASE \E r \in Row : WaitOver(r)
  <2>1. OutboxTypeOK'
    BY <1>3 DEF WaitOver, OutboxTypeOK
  <2> QED
    BY <1>3, <2>1 DEF WaitOver, FreeInv, LeaseInv, StoredInv, RoundInv, AllInv, Held, Readable, DroppedRows
<1> QED
  BY <1>1, <1>2, <1>3

LEMMA RestartInv == ASSUME OutboxInv, Restart PROVE OutboxInv'
<1> USE DEF OutboxInv, Restart, fixedVars
<1>1. PICK corrupt \in BOOLEAN, reclaimed \in BOOLEAN :
       /\ corrupt => reclaimed
       /\ holder'  = IF reclaimed THEN [r \in Row |-> None] ELSE holder
       /\ expired' = IF reclaimed THEN {} ELSE expired
       /\ queue'   = IF corrupt THEN {} ELSE queue
       /\ waiting' = IF corrupt THEN {} ELSE waiting
       /\ parked'  = IF corrupt THEN {} ELSE parked
       /\ dropped' = IF corrupt THEN Log(queue, "corrupt") ELSE dropped
  OBVIOUS
<1>2. holder' \in [Row -> Lease \cup {None}] /\ dropped' \subseteq (1 .. made) \X Reasons
  BY <1>1 DEF OutboxTypeOK, Log, Reasons
<1>3. Idle \in TaskType
  BY BatchAssumption DEF Idle, EmptyHanded, TaskType, Replies, None
<1>4. task' \in [Drain -> TaskType']
  BY <1>3 DEF TaskType
<1>5. late' \subseteq SUBSET (1 .. made)
  <2>1. ASSUME NEW d \in drains PROVE task[d].batch \subseteq 1 .. made
    BY DrainsKnown DEF OutboxTypeOK
  <2>2. PICK sent \in SUBSET {d \in drains : Asking(d)} :
          late' = late \cup {task[d].batch : d \in sent}
    OBVIOUS
  <2>3. {task[d].batch : d \in sent} \subseteq SUBSET (1 .. made)
    BY <2>1
  <2> QED
    BY <2>2, <2>3 DEF OutboxTypeOK
<1>6. current' \in 1 .. FullSize /\ faults' \in 0 .. MaxFaults
  BY BatchAssumption, BoundAssumption DEF OutboxTypeOK, Fault
<1>7. OutboxTypeOK'
  BY <1>1, <1>2, <1>4, <1>5, <1>6 DEF OutboxTypeOK, TaskType
<1>8. FreeInv'
  BY <1>1 DEF FreeInv
<1>9. LeaseInv' /\ StoredInv' /\ RoundInv'
  BY DrainsKnown DEF LeaseInv, StoredInv, RoundInv, Idle, EmptyHanded
<1>10. AllInv'
  BY RestartGivesUp, GivesUpKeeps
<1> QED
  BY <1>7, <1>8, <1>9, <1>10

-----------------------------------------------------------------------------
\* The drains, up to the answer.

LEMMA WrittenType ==
  ASSUME OutboxInv, NEW ok \in BOOLEAN, Written(ok)
  PROVE  faults' \in 0 .. MaxFaults
BY BoundAssumption DEF OutboxInv, OutboxTypeOK, Written, Fault

LEMMA StartDrainInv == ASSUME OutboxInv, NEW d \in drains, StartDrain(d) PROVE OutboxInv'
<1> USE DEF OutboxInv, StartDrain, fixedVars, serverVars
<1>1. d \in Drain
  BY DrainsKnown
<1>2. PICK ok \in BOOLEAN :
       /\ Written(ok)
       /\ holder'  = IF ok THEN Reclaimed ELSE holder
       /\ expired' = IF ok THEN {} ELSE expired
  OBVIOUS
<1>3. holder' \in [Row -> Lease \cup {None}]
        /\ \A r \in Row : holder'[r] \in {None, holder[r]}
  BY <1>2 DEF Reclaimed, Release, OutboxTypeOK
<1>4. faults' \in 0 .. MaxFaults
  BY <1>2, WrittenType
<1>5. task' \in [Drain -> TaskType] /\ \A e \in Drain : task'[e] = IF e = d THEN [task[d] EXCEPT !.pc = "lease"] ELSE task[e]
  BY <1>1 DEF OutboxTypeOK, TaskType
<1>6. OutboxTypeOK'
  BY <1>2, <1>3, <1>4, <1>5 DEF OutboxTypeOK, TaskType
<1>7. FreeInv'
  BY <1>3 DEF FreeInv
<1>8. \A l \in Lease, r \in queue : holder'[r] = l => holder[r] = l
  BY <1>3, BoundAssumption DEF Lease, None, OutboxTypeOK, Row
<1>9. LeaseInv' /\ StoredInv' /\ RoundInv'
  BY <1>5, <1>8, DrainsKnown DEF LeaseInv, StoredInv, RoundInv, Readable, OutboxTypeOK
<1> QED
  BY <1>6, <1>7, <1>9 DEF AllInv, DroppedRows

\* A fresh lease is one no row and no drain has.
LEMMA FreshLease ==
  ASSUME ~(Lease \subseteq InUse)
  PROVE  NewLease \in Lease /\ NewLease \notin InUse
BY DEF NewLease

LEMMA TakeLeaseInv == ASSUME OutboxInv, NEW d \in drains, TakeLease(d) PROVE OutboxInv'
<1> DEFINE next == Oldest(Leasable, current)
<1> USE DEF OutboxInv, fixedVars, serverVars
<1>1. d \in Drain
  BY DrainsKnown
<1>2. Idle \in TaskType
  BY BatchAssumption DEF Idle, EmptyHanded, TaskType, Replies, None
<1>3. UNCHANGED <<fixedVars, made, old, queue, waiting, parked, expired, current, stopped,
                  serverVars, dropped>>
  BY DEF TakeLease
<1>4. CASE holder' = holder /\ faults' \in 0 .. MaxFaults /\ task' = [task EXCEPT ![d] = Idle]
  <2>1. task' \in [Drain -> TaskType]
    BY <1>1, <1>2, <1>4 DEF OutboxTypeOK, TaskType
  <2>2. OutboxTypeOK'
    BY <1>3, <1>4, <2>1 DEF OutboxTypeOK, TaskType
  <2> QED
    BY <1>1, <1>3, <1>4, <2>2
       DEF FreeInv, LeaseInv, StoredInv, RoundInv, AllInv, Held, Readable, DroppedRows, Idle, EmptyHanded, OutboxTypeOK
<1>5. CASE /\ ~(Lease \subseteq InUse) /\ faults' \in 0 .. MaxFaults /\ task[d].round # MaxRounds
           /\ holder' = [r \in Row |-> IF r \in next THEN NewLease ELSE holder[r]]
           /\ task' = [task EXCEPT ![d] =
                [@ EXCEPT !.pc = "send", !.lease = NewLease, !.batch = next,
                   !.reply = IF Readable(next) = {} THEN "Unreadable" ELSE "none"]]
  <2>1. NewLease \in Lease /\ NewLease \notin InUse
    BY <1>5, FreshLease
  <2>2. next \subseteq Free /\ next \subseteq 1 .. made /\ next \cap (waiting \cup parked) = {}
    BY DEF Oldest, Leasable, Free, OutboxTypeOK
  <2>3. task'[d] \in TaskType /\ task'[d].pc = "send" /\ task'[d].lease = NewLease
          /\ task'[d].batch = next /\ task'[d].reply # "Success"
          /\ task'[d].round = task[d].round /\ \A e \in Drain \ {d} : task'[e] = task[e]
    BY <1>1, <1>5, <2>1, <2>2 DEF OutboxTypeOK, TaskType, Replies
  <2>4. task' \in [Drain -> TaskType]
    BY <1>1, <1>5, <2>3 DEF OutboxTypeOK, TaskType
  <2>5. holder' \in [Row -> Lease \cup {None}]
    BY <1>5, <2>1 DEF OutboxTypeOK
  <2>6. OutboxTypeOK'
    BY <1>3, <1>5, <2>4, <2>5 DEF OutboxTypeOK, TaskType
  <2>7. FreeInv'
    BY <1>3, <1>5, <2>2 DEF FreeInv, Free
  <2>8. 1 .. made \subseteq Row
    BY BoundAssumption DEF OutboxTypeOK, Row
  <2>9. ASSUME NEW q \in queue, holder'[q] = NewLease PROVE q \in next
    BY <1>5, <2>1, <2>8, <2>9 DEF InUse, OutboxTypeOK
  <2>10. ASSUME NEW e \in drains PROVE task[e].lease # NewLease
    BY <2>1 DEF InUse
  <2>11. ASSUME NEW q \in queue, holder'[q] # NewLease PROVE holder'[q] = holder[q]
    BY <1>5, <2>8, <2>11 DEF OutboxTypeOK
  <2>12. LeaseInv'
    <3> SUFFICES ASSUME NEW e \in drains, task'[e].pc = "send"
                 PROVE  /\ task'[e].lease \in Lease
                        /\ \A q \in queue : holder'[q] = task'[e].lease => q \in task'[e].batch
      BY <1>3 DEF LeaseInv
    <3>1. CASE e = d
      BY <2>1, <2>3, <2>9, <3>1
    <3>2. CASE e # d
      <4>1. task'[e] = task[e]
        BY <2>3, <3>2, DrainsKnown
      <4> QED
        BY <2>10, <2>11, <4>1 DEF LeaseInv
    <3> QED
      BY <3>1, <3>2
  <2>13. StoredInv' /\ RoundInv'
    BY <1>3, <1>5, <2>3, BatchAssumption DEF StoredInv, RoundInv, Readable, OutboxTypeOK
  <2> QED
    BY <1>3, <2>6, <2>7, <2>12, <2>13 DEF AllInv, DroppedRows
<1>6. CASE stopped \/ task[d].round = MaxRounds \/ next = {}
  BY <1>4, <1>6 DEF TakeLease, OutboxTypeOK
<1>7. CASE ~(stopped \/ task[d].round = MaxRounds \/ next = {})
  <2>1. PICK ok \in BOOLEAN :
          /\ Written(ok)
          /\ ~(Lease \subseteq InUse)
          /\ holder' = IF ok THEN [r \in Row |-> IF r \in next THEN NewLease ELSE holder[r]]
                       ELSE holder
          /\ task' = [task EXCEPT ![d] =
               IF ok THEN [@ EXCEPT !.pc = "send", !.lease = NewLease, !.batch = next,
                             !.reply = IF Readable(next) = {} THEN "Unreadable" ELSE "none"]
               ELSE Idle]
    BY <1>7 DEF TakeLease
  <2>2. faults' \in 0 .. MaxFaults
    BY <2>1, WrittenType
  <2> QED
    BY <1>4, <1>5, <1>7, <2>1, <2>2
<1> QED
  BY <1>6, <1>7

-----------------------------------------------------------------------------
\* The answer, and what the drain makes of it.

LEMMA AnswerInv ==
  ASSUME OutboxInv, NEW d \in drains, NEW reply \in Replies,
         task' = [task EXCEPT ![d].reply = reply], UNCHANGED AgentVars,
         server \subseteq server', server' \subseteq 1 .. made,
         late' \subseteq SUBSET (1 .. made), faults' \in 0 .. MaxFaults,
         reply = "Success" => Readable(task[d].batch) \subseteq server'
  PROVE  OutboxInv'
<1> USE DEF OutboxInv, AgentVars, fixedVars, tableVars
<1>1. d \in Drain
  BY DrainsKnown
<1>2. task' \in [Drain -> TaskType]
        /\ \A e \in Drain : task'[e] = IF e = d THEN [task[d] EXCEPT !.reply = reply] ELSE task[e]
  BY <1>1 DEF OutboxTypeOK, TaskType
<1>3. OutboxTypeOK'
  BY <1>2 DEF OutboxTypeOK, TaskType
<1>4. ASSUME NEW e \in Drain
      PROVE  /\ task'[e].pc = task[e].pc /\ task'[e].lease = task[e].lease
             /\ task'[e].batch = task[e].batch /\ task'[e].round = task[e].round
             /\ task'[e].reply = IF e = d THEN reply ELSE task[e].reply
  BY <1>2 DEF OutboxTypeOK
<1>5. FreeInv' /\ LeaseInv' /\ RoundInv'
  BY <1>4, DrainsKnown DEF FreeInv, LeaseInv, RoundInv
<1>6. StoredInv'
  BY <1>4 DEF StoredInv, Readable
<1>7. AllInv'
  BY DEF AllInv, DroppedRows
<1> QED
  BY <1>3, <1>5, <1>6, <1>7

LEMMA ServerTurnInv ==
  ASSUME OutboxInv, NEW d \in drains,
         ServerAccepts(d) \/ ServerRefuses(d) \/ ServerRevokes(d) \/ TimesOut(d)
  PROVE  OutboxInv'
<1>1. task[d].batch \subseteq 1 .. made
  BY DrainsKnown DEF OutboxInv, OutboxTypeOK
<1>2. UNCHANGED AgentVars
  BY DEF ServerAccepts, ServerRefuses, ServerRevokes, TimesOut
<1>3. server \subseteq server' /\ server' \subseteq 1 .. made
  BY <1>1 DEF ServerAccepts, ServerRefuses, ServerRevokes, TimesOut, serverVars, OutboxInv, OutboxTypeOK, Readable
<1>4. late' \subseteq SUBSET (1 .. made)
  <2>1. late' = late \/ late' = late \cup {task[d].batch}
    BY DEF ServerAccepts, ServerRefuses, ServerRevokes, TimesOut, serverVars
  <2>2. late \subseteq SUBSET (1 .. made)
    BY DEF OutboxInv, OutboxTypeOK
  <2> QED
    BY <1>1, <2>1, <2>2
<1>5. faults' \in 0 .. MaxFaults
  BY BoundAssumption DEF ServerAccepts, ServerRefuses, ServerRevokes, TimesOut, Fault, OutboxInv, OutboxTypeOK
<1>6. PICK reply \in Replies :
        /\ task' = [task EXCEPT ![d].reply = reply]
        /\ reply = "Success" => Readable(task[d].batch) \subseteq server'
  BY DEF ServerAccepts, ServerRefuses, ServerRevokes, TimesOut, Answer, Replies
<1> QED
  BY <1>2, <1>3, <1>4, <1>5, <1>6, AnswerInv

\* What an outcome may do to the table: free rows of a lease, or give them up.
QueueStep ==
  /\ GivesUp
  /\ holder' \in [Row -> Lease \cup {None}] /\ expired' \subseteq Lease
  /\ waiting' \subseteq queue' /\ parked' \subseteq queue'
  /\ dropped' \subseteq (1 .. made) \X Reasons
  /\ faults' \in 0 .. MaxFaults
  /\ FreeInv'
  /\ \A l \in Lease, r \in queue' : holder'[r] = l => holder[r] = l

LEMMA Released ==
  ASSUME OutboxTypeOK, NEW l \in Lease
  PROVE  /\ Release({l}) \in [Row -> Lease \cup {None}]
         /\ \A r \in Row : Release({l})[r] = IF holder[r] = l THEN None ELSE holder[r]
         /\ l # None /\ queue \subseteq Row
BY BoundAssumption DEF Release, OutboxTypeOK, Lease, None, Row

LEMMA CompleteStep ==
  ASSUME OutboxInv, NEW l \in Lease, NEW ok \in BOOLEAN, NEW why \in Reasons \cup {"sent"},
         Complete(l, ok, why), UNCHANGED server, UNCHANGED fixedVars,
         why = "sent" => \A r \in queue : holder[r] = l /\ nature[r] # "torn" => r \in server
  PROVE  QueueStep
<1> USE DEF OutboxInv
<1>1. faults' \in 0 .. MaxFaults
  BY WrittenType DEF Complete
<1>2. CASE ~ok
  <2>1. UNCHANGED <<queue, holder, waiting, parked, expired, dropped>>
    BY <1>2 DEF Complete
  <2> QED
    BY <1>1, <2>1 DEF QueueStep, GivesUp, DroppedRows, FreeInv, OutboxTypeOK
<1>3. CASE ok
  <2> DEFINE gone == IF why = "sent" THEN Held(l) \ Readable(queue) ELSE Held(l)
             reason == IF why = "sent" THEN "unreadable" ELSE why
  <2>1. /\ queue' = queue \ Held(l) /\ holder' = Release({l}) /\ expired' = expired \ {l}
        /\ dropped' = dropped \cup (gone \X {reason}) /\ UNCHANGED <<waiting, parked>>
    BY <1>3 DEF Complete, Log
  <2>2. gone \subseteq Held(l) /\ Held(l) \subseteq queue /\ Held(l) \ gone \subseteq server
    BY DEF Held, Readable
  <2>3. DroppedRows' = DroppedRows \cup gone
    <3> HIDE DEF gone, reason
    <3> QED
      BY <2>1, LogRows DEF DroppedRows
  <2>4. GivesUp
    <3> HIDE DEF gone, reason
    <3> QED
      BY <2>1, <2>2, <2>3 DEF GivesUp
  <2>5. waiting' \subseteq queue' /\ parked' \subseteq queue'
    BY <2>1, Released DEF FreeInv, Held, OutboxTypeOK
  <2>6. reason \in Reasons
    BY DEF Reasons
  <2>7. dropped' \subseteq (1 .. made) \X Reasons
    <3> HIDE DEF gone, reason
    <3> QED
      BY <2>1, <2>2, <2>6 DEF OutboxTypeOK
  <2>8. FreeInv'
    BY <2>1, Released DEF FreeInv, Held
  <2> QED
    BY <1>1, <2>1, <2>4, <2>5, <2>7, <2>8, Released DEF QueueStep, OutboxTypeOK
<1> QED
  BY <1>2, <1>3

LEMMA RetryStep ==
  ASSUME OutboxInv, NEW l \in Lease, NEW ok \in BOOLEAN, NEW later \in BOOLEAN,
         NEW inAYear \in BOOLEAN, Retry(l, ok, later, inAYear), UNCHANGED server
  PROVE  QueueStep
<1> USE DEF OutboxInv
<1>1. faults' \in 0 .. MaxFaults
  BY WrittenType DEF Retry
<1>2. GivesUp
  BY DEF GivesUp, DroppedRows, Retry
<1>3. /\ holder' \in [Row -> Lease \cup {None}]
      /\ \A r \in Row : holder'[r] \in {None, holder[r]}
      /\ ok => \A r \in Held(l) : holder'[r] = None
  BY Released DEF OutboxTypeOK, Held, Retry
<1>4. /\ waiting' \subseteq (IF ok THEN waiting \cup Held(l) ELSE waiting)
      /\ parked' \subseteq (IF ok THEN parked \cup Held(l) ELSE parked)
      /\ expired' \subseteq expired /\ queue' = queue /\ dropped' = dropped
  BY DEF Retry
<1>5. FreeInv'
  BY <1>3, <1>4 DEF FreeInv
<1>6. waiting' \subseteq queue' /\ parked' \subseteq queue' /\ expired' \subseteq Lease
  BY <1>4 DEF OutboxTypeOK, Held
<1>7. ASSUME NEW m \in Lease, NEW r \in queue', holder'[r] = m PROVE holder[r] = m
  <2>1. r \in Row /\ m # None
    BY Released, <1>4
  <2> QED
    BY <1>3, <1>7, <2>1
<1> QED
  BY <1>1, <1>2, <1>3, <1>4, <1>5, <1>6, <1>7 DEF QueueStep, OutboxTypeOK

LEMMA EndRoundInv ==
  ASSUME OutboxInv, NEW d \in drains, task[d].pc = "send", EndRound(d), QueueStep,
         UNCHANGED OutcomeVars, current' \in 1 .. FullSize, stopped' \in BOOLEAN
  PROVE  OutboxInv'
<1> USE DEF OutboxInv, OutcomeVars, fixedVars, serverVars, QueueStep
<1>1. d \in Drain
  BY DrainsKnown
<1> DEFINE retry == EmptyHanded("lease", task[d].round + 1)
<1>2. PICK following \in {Idle, retry} : task' = [task EXCEPT ![d] = following]
  BY DEF EndRound
<1>3. following \in TaskType /\ following.pc # "send" /\ following.reply = "none"
  <2>1. task[d].round + 1 \in 0 .. MaxRounds /\ 0 \in 0 .. MaxRounds
    BY <1>1, BatchAssumption DEF RoundInv, OutboxTypeOK
  <2>2. \A place \in {"idle", "lease"}, n \in 0 .. MaxRounds :
          LET empty == EmptyHanded(place, n)
          IN  empty \in TaskType /\ empty.pc # "send" /\ empty.reply = "none"
    BY DEF EmptyHanded, TaskType, Replies, None
  <2> QED
    BY <2>1, <2>2 DEF Idle
<1> HIDE DEF retry
<1>4. task' \in [Drain -> TaskType] /\ \A e \in Drain : task'[e] = IF e = d THEN following ELSE task[e]
  BY <1>1, <1>2, <1>3 DEF OutboxTypeOK, TaskType
<1>5. OutboxTypeOK'
  BY <1>4 DEF OutboxTypeOK, TaskType, GivesUp
<1>6. LeaseInv'
  BY <1>3, <1>4, DrainsKnown DEF LeaseInv, GivesUp
<1>7. StoredInv' /\ RoundInv'
  BY <1>3, <1>4 DEF StoredInv, RoundInv, Readable
<1>8. AllInv'
  BY GivesUpKeeps
<1> QED
  BY <1>5, <1>6, <1>7, <1>8

Apply(d) ==
  ApplySuccess(d) \/ ApplyTransient(d) \/ ApplyPermanent(d) \/ ApplyUnreadable(d) \/ ApplyRevoked(d)

LEMMA OutcomeStep ==
  ASSUME OutboxInv, NEW d \in drains, Apply(d)
  PROVE  /\ task[d].pc = "send" /\ EndRound(d) /\ UNCHANGED OutcomeVars
         /\ QueueStep
         /\ current' \in 1 .. FullSize /\ stopped' \in BOOLEAN
<1> DEFINE l == task[d].lease
<1>1. task[d].pc = "send" /\ EndRound(d) /\ UNCHANGED OutcomeVars
  BY DEF Apply, ApplySuccess, ApplyTransient, ApplyPermanent, ApplyUnreadable, ApplyRevoked,
         Answered
<1>2. UNCHANGED server /\ UNCHANGED fixedVars
  BY <1>1 DEF OutcomeVars, serverVars
<1>3. l \in Lease
  BY <1>1 DEF OutboxInv, LeaseInv
<1>4. current' \in 1 .. FullSize
  <2>1. current \in 1 .. FullSize /\ FullSize \in 1 .. FullSize
    BY BatchAssumption DEF OutboxInv, OutboxTypeOK
  <2>2. ~(current <= 1) => current \div 2 \in 1 .. FullSize
    BY <2>1, BatchAssumption
  <2> QED
    BY <2>1, <2>2
       DEF Apply, ApplySuccess, ApplyTransient, ApplyPermanent, ApplyUnreadable, ApplyRevoked,
           IsIsolated
<1>5. stopped' \in BOOLEAN
  BY DEF Apply, ApplySuccess, ApplyTransient, ApplyPermanent, ApplyUnreadable, ApplyRevoked,
         OutboxInv, OutboxTypeOK
<1>6. ASSUME task[d].reply = "Success", NEW ok \in BOOLEAN, Complete(l, ok, "sent")
      PROVE  QueueStep
  <2>1. \A r \in queue : holder[r] = l /\ nature[r] # "torn" => r \in server
    BY <1>1, <1>6, DrainsKnown DEF OutboxInv, LeaseInv, StoredInv, Readable
  <2> HIDE DEF l
  <2> QED
    BY <1>2, <1>3, <1>6, <2>1, CompleteStep
<1>7. ASSUME NEW ok \in BOOLEAN, NEW why \in Reasons, Complete(l, ok, why) PROVE QueueStep
  <2>1. "sent" \notin Reasons
    BY DEF Reasons
  <2> HIDE DEF l
  <2> QED
    BY <1>2, <1>3, <1>7, <2>1, CompleteStep
<1>8. ASSUME NEW ok \in BOOLEAN, NEW later \in BOOLEAN, NEW inAYear \in BOOLEAN,
             Retry(l, ok, later, inAYear)
      PROVE  QueueStep
  <2> HIDE DEF l
  <2> QED
    BY <1>2, <1>3, <1>8, RetryStep
<1>9. QueueStep
  <2>1. {"age", "rejected", "unreadable"} \subseteq Reasons
    BY DEF Reasons
  <2>2. CASE ApplySuccess(d)
    BY <1>6, <2>2 DEF ApplySuccess, Answered
  <2>3. CASE ApplyTransient(d)
    BY <1>7, <1>8, <2>1, <2>3 DEF ApplyTransient
  <2>4. CASE ApplyPermanent(d)
    BY <1>7, <1>8, <2>1, <2>4 DEF ApplyPermanent
  <2>5. CASE ApplyUnreadable(d)
    BY <1>7, <2>1, <2>5 DEF ApplyUnreadable
  <2>6. CASE ApplyRevoked(d)
    BY <1>8, <2>6 DEF ApplyRevoked
  <2> QED
    BY <2>2, <2>3, <2>4, <2>5, <2>6 DEF Apply
<1> QED
  BY <1>1, <1>4, <1>5, <1>9

LEMMA OutboxStep == OutboxInv /\ [OutboxNext]_vars => OutboxInv'
<1> SUFFICES ASSUME OutboxInv, [OutboxNext]_vars PROVE OutboxInv'
  OBVIOUS
<1>1. CASE UNCHANGED vars
  BY <1>1
     DEF vars, fixedVars, tableVars, workerVars, serverVars, OutboxInv, OutboxTypeOK, FreeInv, LeaseInv,
         StoredInv, RoundInv, AllInv, Readable, DroppedRows
<1>2. CASE Enqueue
  BY <1>2, EnqueueInv
<1>3. CASE EnforceBudget
  BY <1>3, EnforceBudgetInv
<1>4. CASE LateArrival
  BY <1>4, LateArrivalInv
<1>5. CASE ExpireLease \/ GrowOld \/ \E r \in Row : WaitOver(r)
  BY <1>5, TimersInv
<1>6. CASE Restart
  BY <1>6, RestartInv
<1>7. ASSUME NEW d \in drains, StartDrain(d) PROVE OutboxInv'
  BY <1>7, StartDrainInv
<1>8. ASSUME NEW d \in drains, TakeLease(d) PROVE OutboxInv'
  BY <1>8, TakeLeaseInv
<1>9. ASSUME NEW d \in drains, Apply(d) PROVE OutboxInv'
  BY <1>9, OutcomeStep, EndRoundInv
<1>10. ASSUME NEW d \in drains,
              ServerAccepts(d) \/ ServerRefuses(d) \/ ServerRevokes(d) \/ TimesOut(d)
       PROVE  OutboxInv'
  BY <1>10, ServerTurnInv
<1> QED
  BY <1>1, <1>2, <1>3, <1>4, <1>5, <1>6, <1>7, <1>8, <1>9, <1>10 DEF OutboxNext, DrainStep, Apply

(***************************************************************************)
(* The table, its leases, the drains and the server keep their types: a    *)
(* row that waits or is parked is in the table, and nothing names a record *)
(* that was never queued.                                                  *)
(***************************************************************************)
THEOREM OutboxTyped == OutboxSpec => []OutboxTypeOK
<1>1. OutboxInv => OutboxTypeOK
  BY DEF OutboxInv
<1> QED
  BY OutboxBegins, OutboxStep, <1>1, PTL DEF OutboxSpec

-----------------------------------------------------------------------------
\* Who sends a row.

\* A batch on its way is in the table, under a lease of its own, unless that ran out in its
\* drain's hands; and whatever has run out is still held by a row.
SenderInv ==
  /\ \A d \in drains : StillLeases(d) =>
       /\ task[d].lease \notin expired
       /\ \A r \in task[d].batch : r \in queue /\ holder[r] = task[d].lease
  /\ \A d, e \in drains :
       d # e /\ task[d].pc = "send" /\ task[e].pc = "send" => task[d].lease # task[e].lease
  /\ expired \subseteq {holder[r] : r \in queue}

\* The rows that the lease l does not hold stay as they are.
OthersKept(l) ==
  \/ UNCHANGED <<queue, holder, expired>>
  \/ /\ expired' = expired \ {l}
     /\ \A r \in queue : holder[r] # l => r \in queue' /\ holder'[r] = holder[r]

LEMMA OutcomeKeepsOthers ==
  ASSUME OutboxInv, NEW d \in drains, Apply(d)
  PROVE  OthersKept(task[d].lease)
<1> DEFINE l == task[d].lease
<1>1. l \in Lease
  BY OutcomeStep DEF OutboxInv, LeaseInv
<1>2. ASSUME NEW ok \in BOOLEAN, NEW why, Complete(l, ok, why) PROVE OthersKept(l)
  <2> HIDE DEF l
  <2>1. CASE ok
    <3>1. queue' = queue \ Held(l) /\ holder' = Release({l}) /\ expired' = expired \ {l}
      BY <1>2, <2>1 DEF Complete
    <3> QED
      BY <1>1, <3>1, Released DEF OthersKept, Held, OutboxInv
  <2>2. CASE ~ok
    BY <1>2, <2>2 DEF Complete, OthersKept
  <2> QED
    BY <2>1, <2>2
<1>3. ASSUME NEW ok \in BOOLEAN, NEW later, NEW inAYear, Retry(l, ok, later, inAYear) PROVE OthersKept(l)
  <2> HIDE DEF l
  <2>1. CASE ok
    <3>1. queue' = queue /\ holder' = Release({l}) /\ expired' = expired \ {l}
      BY <1>3, <2>1 DEF Retry
    <3> QED
      BY <1>1, <3>1, Released DEF OthersKept, OutboxInv
  <2>2. CASE ~ok
    BY <1>3, <2>2 DEF Retry, OthersKept
  <2> QED
    BY <2>1, <2>2
<1> QED
  <2>1. CASE ApplySuccess(d)
    BY <1>2, <2>1 DEF ApplySuccess
  <2>2. CASE ApplyTransient(d)
    BY <1>2, <1>3, <2>2 DEF ApplyTransient
  <2>3. CASE ApplyPermanent(d)
    BY <1>2, <1>3, <2>3 DEF ApplyPermanent
  <2>4. CASE ApplyUnreadable(d)
    BY <1>2, <2>4 DEF ApplyUnreadable
  <2>5. CASE ApplyRevoked(d)
    BY <1>3, <2>5 DEF ApplyRevoked
  <2> QED
    BY <2>1, <2>2, <2>3, <2>4, <2>5 DEF Apply

\* At the end of a round the drain has nothing in hand, and the others what they had.
LEMMA EndOfRound ==
  ASSUME OutboxInv, NEW d \in drains, EndRound(d)
  PROVE  /\ task'[d].pc # "send" /\ task'[d].reply = "none"
         /\ \A e \in Drain : e # d => task'[e] = task[e]
BY DrainsKnown DEF EndRound, Idle, EmptyHanded, OutboxInv, OutboxTypeOK

LEMMA OutcomeSender ==
  ASSUME OutboxInv, SenderInv, NEW d \in drains, Apply(d) PROVE SenderInv'
<1>1. OthersKept(task[d].lease)
  BY OutcomeKeepsOthers
<1>2. task[d].pc = "send" /\ drains' = drains
  BY OutcomeStep DEF OutcomeVars, fixedVars
<1>3. /\ task'[d].pc # "send" /\ \A e \in drains : e # d => task'[e] = task[e]
  BY OutcomeStep, EndOfRound, DrainsKnown DEF OutboxInv
<1>4. expired' \subseteq {holder'[r] : r \in queue'}
  BY <1>1 DEF SenderInv, OthersKept
<1>5. ASSUME NEW e \in drains, StillLeases(e)'
      PROVE  /\ task'[e].lease \notin expired'
             /\ \A r \in task'[e].batch : r \in queue' /\ holder'[r] = task'[e].lease
  <2>1. e # d /\ task'[e] = task[e] /\ task[e].pc = "send" /\ StillLeases(e)
    BY <1>3, <1>5 DEF StillLeases
  <2>2. /\ task[e].lease # task[d].lease /\ task[e].lease \notin expired
        /\ \A r \in task[e].batch : r \in queue /\ holder[r] = task[e].lease
    BY <1>2, <2>1 DEF SenderInv
  <2> QED
    BY <1>1, <2>1, <2>2 DEF OthersKept
<1> QED
  BY <1>2, <1>3, <1>4, <1>5 DEF SenderInv

LEMMA TakeLeaseSender ==
  ASSUME OutboxInv, SenderInv, NEW d \in drains, TakeLease(d) PROVE SenderInv'
<1> DEFINE next == Oldest(Leasable, current)
<1>1. d \in Drain /\ task \in [Drain -> TaskType] /\ drains \subseteq Drain
  BY DrainsKnown DEF OutboxInv, OutboxTypeOK, TaskType
<1>2. UNCHANGED <<drains, queue, expired>> /\ queue \subseteq Row
  <2>1. UNCHANGED <<drains, queue, expired>>
    BY DEF TakeLease, fixedVars
  <2>2. queue \subseteq Row
    BY BoundAssumption DEF OutboxInv, OutboxTypeOK, Row
  <2> QED
    BY <2>1, <2>2
<1>3. CASE holder' = holder /\ task' = [task EXCEPT ![d] = Idle]
  <2>1. \A e \in drains : task'[e] = IF e = d THEN Idle ELSE task[e]
    BY <1>1, <1>3
  <2> QED
    BY <1>2, <1>3, <2>1 DEF SenderInv, StillLeases, Idle, EmptyHanded
<1>4. CASE /\ ~(Lease \subseteq InUse)
           /\ holder' = [r \in Row |-> IF r \in next THEN NewLease ELSE holder[r]]
           /\ task' = [task EXCEPT ![d] =
                [@ EXCEPT !.pc = "send", !.lease = NewLease, !.batch = next,
                   !.reply = IF Readable(next) = {} THEN "Unreadable" ELSE "none"]]
  <2>1. NewLease \in Lease /\ NewLease \notin InUse
    BY <1>4, FreshLease
  <2>2. next \subseteq queue /\ \A r \in next : holder[r] = None
    BY DEF Oldest, Leasable, Free
  <2>3. /\ task'[d].lease = NewLease /\ task'[d].batch = next
        /\ \A e \in drains : e # d => task'[e] = task[e]
    BY <1>1, <1>4 DEF TaskType
  <2> HIDE DEF next
  <2>4. \A r \in queue : holder'[r] = IF r \in next THEN NewLease ELSE holder[r]
    BY <1>2, <1>4
  <2>5. expired \subseteq Lease /\ expired \subseteq {holder[r] : r \in queue}
    BY <1>4 DEF SenderInv, OutboxInv, OutboxTypeOK
  <2>6. expired \subseteq {holder'[r] : r \in queue}
    <3> SUFFICES ASSUME NEW l \in expired PROVE \E r \in queue : holder'[r] = l
      OBVIOUS
    <3>1. PICK r \in queue : holder[r] = l
      BY <2>5
    <3>2. r \notin next
      BY <2>2, <2>5, <3>1, BoundAssumption DEF Lease, None
    <3> QED
      BY <2>4, <3>1, <3>2
  <2>7. NewLease \notin expired /\ \A e \in drains : task[e].lease # NewLease
    BY <2>1, <2>5 DEF InUse
  <2>8. ASSUME NEW e \in drains, StillLeases(e)'
        PROVE  /\ task'[e].lease \notin expired
               /\ \A r \in task'[e].batch : r \in queue /\ holder'[r] = task'[e].lease
    <3>1. CASE e = d
      BY <2>2, <2>3, <2>4, <2>7, <3>1
    <3>2. CASE e # d
      <4>1. task'[e] = task[e] /\ StillLeases(e) /\ task[e].lease \in Lease
        BY <2>3, <2>8, <3>2 DEF StillLeases, OutboxInv, LeaseInv
      <4>2. /\ task[e].lease \notin expired
            /\ \A r \in task[e].batch : r \in queue /\ holder[r] = task[e].lease
        BY <4>1 DEF SenderInv
      <4>3. \A r \in task[e].batch : r \notin next
        BY <2>2, <4>1, <4>2, BoundAssumption DEF Lease, None
      <4> QED
        BY <2>4, <4>1, <4>2, <4>3
    <3> QED
      BY <3>1, <3>2
  <2>9. ASSUME NEW a \in drains, NEW b \in drains, a # b, task'[a].pc = "send", task'[b].pc = "send"
        PROVE  task'[a].lease # task'[b].lease
    BY <2>3, <2>7, <2>9 DEF SenderInv
  <2> QED
    BY <1>2, <2>6, <2>8, <2>9 DEF SenderInv
<1>5. CASE stopped \/ task[d].round = MaxRounds \/ next = {}
  BY <1>3, <1>5 DEF TakeLease
<1>6. CASE ~(stopped \/ task[d].round = MaxRounds \/ next = {})
  <2>1. PICK ok \in BOOLEAN :
          /\ Written(ok)
          /\ ~(Lease \subseteq InUse)
          /\ holder' = IF ok THEN [r \in Row |-> IF r \in next THEN NewLease ELSE holder[r]]
                       ELSE holder
          /\ task' = [task EXCEPT ![d] =
               IF ok THEN [@ EXCEPT !.pc = "send", !.lease = NewLease, !.batch = next,
                             !.reply = IF Readable(next) = {} THEN "Unreadable" ELSE "none"]
               ELSE Idle]
    BY <1>6 DEF TakeLease
  <2>2. CASE ok
    BY <1>4, <2>1, <2>2
  <2>3. CASE ~ok
    BY <1>3, <2>1, <2>3
  <2> QED
    BY <2>2, <2>3
<1> QED
  BY <1>5, <1>6

LEMMA SenderStep == OutboxInv /\ SenderInv /\ [OutboxNext]_vars => SenderInv'
<1> SUFFICES ASSUME OutboxInv, SenderInv, [OutboxNext]_vars PROVE SenderInv'
  OBVIOUS
<1> USE DEF fixedVars, tableVars, workerVars, serverVars
<1>0. drains \subseteq Drain /\ task \in [Drain -> TaskType]
  BY DrainsKnown DEF OutboxInv, OutboxTypeOK, TaskType
<1>1. CASE UNCHANGED <<drains, queue, holder, expired, task>>
  BY <1>1 DEF SenderInv, StillLeases
<1>2. CASE UNCHANGED vars
  BY <1>1, <1>2 DEF vars
<1>3. CASE Enqueue
  <2>1. UNCHANGED <<drains, holder, expired, task>> /\ queue \subseteq queue'
    BY <1>3 DEF Enqueue
  <2> QED
    BY <2>1 DEF SenderInv, StillLeases
<1>4. CASE EnforceBudget
  <2>1. UNCHANGED <<drains, holder, expired, task>>
    BY <1>4 DEF EnforceBudget
  <2>2. \A r \in queue : r \notin queue' => holder[r] = None
    BY <1>4 DEF EnforceBudget, Expired, OverBudget, Oldest, Free
  <2>3. queue' \subseteq queue /\ expired \subseteq Lease /\ None \notin Lease
    BY <1>4, BoundAssumption DEF EnforceBudget, OutboxInv, OutboxTypeOK, Lease, None
  <2>4. \A e \in drains : task[e].pc = "send" => task[e].lease \in Lease
    BY DEF OutboxInv, LeaseInv
  <2> QED
    BY <2>1, <2>2, <2>3, <2>4 DEF SenderInv, StillLeases
<1>5. CASE ExpireLease
  <2>1. PICK l \in {holder[r] : r \in queue} \ ({None} \cup expired) :
          /\ expired' = expired \cup {l}
          /\ task' = [d \in Drain |-> [task[d] EXCEPT !.overrun = @ \/ task[d].lease = l]]
    BY <1>5 DEF ExpireLease
  <2>2. UNCHANGED <<drains, queue, holder>>
    BY <1>5 DEF ExpireLease
  <2>3. ASSUME NEW d \in drains
        PROVE  /\ task'[d].pc = task[d].pc /\ task'[d].lease = task[d].lease
               /\ task'[d].batch = task[d].batch
               /\ task'[d].overrun = (task[d].overrun \/ task[d].lease = l)
    <3>1. task[d] \in TaskType /\ task'[d] = [task[d] EXCEPT !.overrun = (task[d].overrun \/ task[d].lease = l)]
      BY <1>0, <2>1
    <3> QED BY <3>1 DEF TaskType
  <2>4. ASSUME NEW d \in drains, StillLeases(d)' PROVE StillLeases(d) /\ task[d].lease # l
    BY <2>3, <2>4 DEF StillLeases
  <2> QED
    BY <2>1, <2>2, <2>3, <2>4 DEF SenderInv
<1>6. CASE LateArrival \/ GrowOld \/ \E r \in Row : WaitOver(r)
  BY <1>1, <1>6 DEF LateArrival, GrowOld, WaitOver, AgentVars
<1>7. CASE Restart
  <2>1. drains' = drains /\ \A d \in drains : task'[d].pc # "send"
    BY <1>0, <1>7 DEF Restart, Idle, EmptyHanded
  <2>2. expired' \subseteq {holder'[r] : r \in queue'}
    BY <1>7 DEF Restart, SenderInv
  <2> QED
    BY <2>1, <2>2 DEF SenderInv, StillLeases
<1>8. ASSUME NEW d \in drains, StartDrain(d) PROVE SenderInv'
  <2>1. \/ holder' = Reclaimed /\ expired' = {}
        \/ UNCHANGED <<holder, expired>>
    BY <1>8 DEF StartDrain
  <2>2. UNCHANGED <<drains, queue>> /\ queue \subseteq Row
    BY <1>8, BoundAssumption DEF StartDrain, OutboxInv, OutboxTypeOK, Row
  <2>3. \A r \in queue : holder[r] \notin expired => holder'[r] = holder[r]
    BY <2>1, <2>2 DEF Reclaimed, Release
  <2>4. task'[d].pc # "send" /\ \A e \in drains : e # d => task'[e] = task[e]
    BY <1>0, <1>8 DEF StartDrain, TaskType
  <2>5. expired' \subseteq {holder'[r] : r \in queue'} /\ expired' \subseteq expired
    BY <2>1, <2>2 DEF SenderInv
  <2> QED
    BY <2>2, <2>3, <2>4, <2>5 DEF SenderInv, StillLeases
<1>9. ASSUME NEW d \in drains, TakeLease(d) PROVE SenderInv'
  BY <1>9, TakeLeaseSender
<1>10. ASSUME NEW d \in drains, Apply(d) PROVE SenderInv'
  BY <1>10, OutcomeSender
<1>11. ASSUME NEW d \in drains,
              ServerAccepts(d) \/ ServerRefuses(d) \/ ServerRevokes(d) \/ TimesOut(d)
       PROVE  SenderInv'
  <2>1. UNCHANGED <<drains, queue, holder, expired>>
    BY <1>11 DEF ServerAccepts, ServerRefuses, ServerRevokes, TimesOut, AgentVars
  <2>2. PICK reply : task' = [task EXCEPT ![d].reply = reply]
    BY <1>11 DEF ServerAccepts, ServerRefuses, ServerRevokes, TimesOut, Answer
  <2>3. \A e \in drains : /\ task'[e].pc = task[e].pc /\ task'[e].lease = task[e].lease
                          /\ task'[e].batch = task[e].batch /\ task'[e].overrun = task[e].overrun
    BY <1>0, <2>2 DEF TaskType
  <2> QED
    BY <2>1, <2>3 DEF SenderInv, StillLeases
<1> QED
  BY <1>2, <1>3, <1>4, <1>5, <1>6, <1>7, <1>8, <1>9, <1>10, <1>11
     DEF OutboxNext, DrainStep, Apply

(***************************************************************************)
(* LeaseAsync's promise for any number of overlapping drains, through      *)
(* crashes, failed writes and other drains' overrun leases: while a        *)
(* drain's own lease has not run out, its rows are its own.                *)
(***************************************************************************)
THEOREM OneSender == OutboxSpec => []SingleSender
<1>1. OutboxInit => SenderInv
  BY DrainsKnown, OutboxBegins DEF OutboxInit, SenderInv, StillLeases, Idle, EmptyHanded, OutboxInv
<1>2. OutboxInv /\ SenderInv => SingleSender
  BY DEF SenderInv, SingleSender, StillLeases
<1> QED
  BY OutboxBegins, OutboxStep, SenderStep, <1>1, <1>2, PTL DEF OutboxSpec

-----------------------------------------------------------------------------
\* What a single drain gives up as rejected.

RejectedRefused == \A entry \in dropped : entry[2] = "rejected" => nature[entry[1]] = "refused"

\* A batch read at the size one has one row at most, and a permanent refusal is about
\* a record of the batch.
BatchInv ==
  \A d \in drains : task[d].pc = "send" =>
    /\ drains = {d} /\ current = 1 => \A r, q \in task[d].batch : r = q
    /\ task[d].reply = "Permanent" => Refused(task[d].batch)

LEMMA OldestOne ==
  ASSUME NEW n \in Nat, NEW rows \in SUBSET (1 .. n), NEW r \in Oldest(rows, 1),
         NEW q \in Oldest(rows, 1)
  PROVE  r = q
<1>1. ASSUME NEW a \in rows, NEW b \in rows, a < b PROVE b \notin Oldest(rows, 1)
  <2> DEFINE below == {c \in rows : c < b}
  <2>1. IsFiniteSet(below) /\ a \in below
    <3>1. IsFiniteSet(1 .. n)
      BY FS_Interval
    <3> QED
      BY <1>1, <3>1, FS_Subset
  <2>2. Cardinality(below) \in Nat /\ Cardinality(below) # 0
    BY <2>1, FS_CardinalityType, FS_EmptySet
  <2> QED
    BY <2>2 DEF Oldest
<1>2. r \in rows /\ q \in rows /\ r \in Nat /\ q \in Nat
  BY DEF Oldest
<1> QED
  BY <1>1, <1>2

LEMMA BatchStep == OutboxInv /\ BatchInv /\ [OutboxNext]_vars => BatchInv'
<1> SUFFICES ASSUME OutboxInv, BatchInv, [OutboxNext]_vars PROVE BatchInv'
  OBVIOUS
<1> USE DEF fixedVars, tableVars, workerVars, serverVars
<1>0. drains \subseteq Drain /\ task \in [Drain -> TaskType]
  BY DrainsKnown DEF OutboxInv, OutboxTypeOK, TaskType
<1>1. CASE UNCHANGED <<nature, drains, current, task>>
  BY <1>1 DEF BatchInv, Refused
<1>2. CASE \/ UNCHANGED vars \/ Enqueue \/ EnforceBudget
           \/ LateArrival \/ GrowOld \/ \E r \in Row : WaitOver(r)
  BY <1>1, <1>2 DEF vars, Enqueue, EnforceBudget, LateArrival, GrowOld, WaitOver, AgentVars
<1>8. CASE ExpireLease
  <2>1. UNCHANGED <<nature, drains, current>>
    BY <1>8 DEF ExpireLease
  <2>2. PICK l : task' = [d \in Drain |-> [task[d] EXCEPT !.overrun = @ \/ task[d].lease = l]]
    BY <1>8 DEF ExpireLease
  <2>3. ASSUME NEW d \in drains
        PROVE  task'[d].pc = task[d].pc /\ task'[d].batch = task[d].batch /\ task'[d].reply = task[d].reply
    <3>1. task[d] \in TaskType
          /\ task'[d] = [task[d] EXCEPT !.overrun = (task[d].overrun \/ task[d].lease = l)]
      BY <1>0, <2>2
    <3> QED BY <3>1 DEF TaskType
  <2> QED
    BY <2>1, <2>3 DEF BatchInv, Refused
<1>3. CASE Restart
  BY <1>0, <1>3 DEF Restart, BatchInv, Idle, EmptyHanded
<1>4. ASSUME NEW d \in drains, StartDrain(d) PROVE BatchInv'
  <2>1. task'[d].pc # "send" /\ \A e \in drains : e # d => task'[e] = task[e]
    BY <1>0, <1>4 DEF StartDrain, TaskType
  <2>2. UNCHANGED <<nature, drains, current>>
    BY <1>4 DEF StartDrain
  <2> QED
    BY <2>1, <2>2 DEF BatchInv, Refused
<1>5. ASSUME NEW d \in drains, TakeLease(d) PROVE BatchInv'
  <2>1. UNCHANGED <<nature, drains, current>>
    BY <1>5 DEF TakeLease
  <2>2. \A e \in drains : e # d => task'[e] = task[e]
    BY <1>0, <1>5 DEF TakeLease
  <2>3. task'[d].pc = "send" => /\ task'[d].batch = Oldest(Leasable, current)
                                /\ task'[d].reply # "Permanent"
    <3> DEFINE b == Oldest(Leasable, current)
    <3>1. \/ task' = [task EXCEPT ![d] = Idle]
          \/ task' = [task EXCEPT ![d] =
                [@ EXCEPT !.pc = "send", !.lease = NewLease, !.batch = b,
                   !.reply = IF Readable(b) = {} THEN "Unreadable" ELSE "none"]]
      BY <1>5 DEF TakeLease
    <3>2. d \in Drain
      BY <1>0
    <3> HIDE DEF b
    <3>3. ASSUME NEW reply,
                 task' = [task EXCEPT ![d] = [@ EXCEPT !.pc = "send", !.lease = NewLease,
                                              !.batch = b, !.reply = reply]]
          PROVE  task'[d].batch = b /\ task'[d].reply = reply
      BY <1>0, <3>2, <3>3 DEF TaskType
    <3>4. CASE task' = [task EXCEPT ![d] = Idle]
      BY <1>0, <3>2, <3>4 DEF Idle, EmptyHanded
    <3> QED
      BY <3>1, <3>3, <3>4 DEF b
  <2>4. Leasable \subseteq 1 .. made /\ made \in Nat
    <3>1. queue \subseteq 1 .. made /\ made \in 0 .. MaxRow
      BY DEF OutboxInv, OutboxTypeOK
    <3>2. Leasable \subseteq queue
      BY DEF Leasable, Free
    <3> QED
      BY <3>1, <3>2, BoundAssumption
  <2>5. current = 1 => \A r, q \in Oldest(Leasable, current) : r = q
    BY <2>4, OldestOne
  <2> QED
    BY <2>1, <2>2, <2>3, <2>5 DEF BatchInv, Refused
<1>6. ASSUME NEW d \in drains, Apply(d) PROVE BatchInv'
  <2>1. /\ task'[d].pc # "send" /\ UNCHANGED <<nature, drains>>
        /\ \A e \in drains : e # d => task'[e] = task[e]
    BY <1>0, <1>6, OutcomeStep, EndOfRound DEF OutcomeVars
  <2> QED
    BY <2>1 DEF BatchInv, Refused
<1>7. ASSUME NEW d \in drains,
             ServerAccepts(d) \/ ServerRefuses(d) \/ ServerRevokes(d) \/ TimesOut(d)
      PROVE  BatchInv'
  <2>1. UNCHANGED <<nature, drains, current>>
    BY <1>7 DEF ServerAccepts, ServerRefuses, ServerRevokes, TimesOut, AgentVars
  <2>2. PICK reply : /\ task' = [task EXCEPT ![d].reply = reply]
                     /\ reply = "Permanent" => Refused(task[d].batch)
    BY <1>7 DEF ServerAccepts, ServerRefuses, ServerRevokes, TimesOut, Answer
  <2>3. \A e \in drains : /\ task'[e].pc = task[e].pc /\ task'[e].batch = task[e].batch
                          /\ task'[e].reply = IF e = d THEN reply ELSE task[e].reply
    BY <1>0, <2>2 DEF TaskType
  <2> QED
    BY <2>1, <2>2, <2>3 DEF BatchInv, Refused
<1> QED
  BY <1>2, <1>8, <1>3, <1>4, <1>5, <1>6, <1>7 DEF OutboxNext, DrainStep, Apply

\* One new reason for some rows adds no other.
LEMMA LoggedReason ==
  ASSUME RejectedRefused, NEW rows, NEW why, dropped' = dropped \cup (rows \X {why}),
         UNCHANGED nature, why = "rejected" => \A r \in rows : nature[r] = "refused"
  PROVE  RejectedRefused'
<1> SUFFICES ASSUME NEW entry \in dropped', entry[2] = "rejected"
             PROVE  nature[entry[1]] = "refused"
  BY DEF RejectedRefused
<1>1. CASE entry \in dropped
  BY <1>1 DEF RejectedRefused
<1>2. CASE entry \in rows \X {why}
  BY <1>2
<1> QED
  BY <1>1, <1>2

LEMMA RejectedStep ==
  ASSUME OutboxInv, BatchInv, NEW one, drains = {one}, RejectedRefused, [OutboxNext]_vars
  PROVE  RejectedRefused'
<1> USE DEF fixedVars, tableVars, workerVars, serverVars
<1>0. UNCHANGED nature
  BY DEF OutboxNext, DrainStep, vars, Enqueue, EnforceBudget, LateArrival, ExpireLease, GrowOld,
         Restart, WaitOver, StartDrain, TakeLease, ApplySuccess, ApplyTransient, ApplyPermanent,
         ApplyUnreadable, ApplyRevoked, OutcomeVars, ServerAccepts, ServerRefuses, ServerRevokes,
         TimesOut, AgentVars
<1>1. CASE UNCHANGED dropped
  BY <1>0, <1>1 DEF RejectedRefused
<1>2. CASE \/ UNCHANGED vars \/ ExpireLease \/ LateArrival \/ GrowOld \/ \E r \in Row : WaitOver(r)
           \/ \E d \in drains : \/ StartDrain(d) \/ TakeLease(d) \/ ServerAccepts(d)
                                \/ ServerRefuses(d) \/ ServerRevokes(d) \/ TimesOut(d)
  BY <1>1, <1>2
     DEF vars, ExpireLease, LateArrival, GrowOld, WaitOver, StartDrain, TakeLease, ServerAccepts,
         ServerRefuses, ServerRevokes, TimesOut, AgentVars
<1>3. CASE Enqueue
  BY <1>0, <1>1, <1>3, LoggedReason DEF Enqueue, Log
<1>4. CASE EnforceBudget
  BY <1>0, <1>4 DEF EnforceBudget, RejectedRefused
<1>5. CASE Restart
  BY <1>0, <1>1, <1>5, LoggedReason DEF Restart, Log
<1>6. ASSUME NEW d \in drains, Apply(d) PROVE RejectedRefused'
  <2> DEFINE l == task[d].lease
  <2>1. task[d].pc = "send"
    BY <1>6, OutcomeStep
  <2>2. Held(l) \subseteq task[d].batch
    BY <2>1 DEF OutboxInv, LeaseInv, Held
  <2>3. ASSUME NEW ok \in BOOLEAN, NEW why \in {"sent", "age", "unreadable"}, Complete(l, ok, why)
        PROVE  RejectedRefused'
    <3> HIDE DEF l
    <3> QED
      BY <1>0, <1>1, <2>3, LoggedReason DEF Complete, Log
  <2>4. ASSUME NEW ok \in BOOLEAN, Complete(l, ok, "rejected"),
               \A r \in Held(l) : nature[r] = "refused"
        PROVE  RejectedRefused'
    <3> HIDE DEF l
    <3> QED
      BY <1>0, <1>1, <2>4, LoggedReason DEF Complete, Log
  <2>5. CASE ApplyPermanent(d)
    <3>1. task[d].reply = "Permanent"
      BY <2>5 DEF ApplyPermanent, Answered
    <3>2. PICK r \in task[d].batch : nature[r] = "refused"
      BY <2>1, <3>1 DEF BatchInv, Refused
    <3>3. IsIsolated => current = 1
      BY BatchAssumption DEF IsIsolated, OutboxInv, OutboxTypeOK
    <3>4. IsIsolated => \A q \in Held(l) : nature[q] = "refused"
      BY <2>1, <2>2, <3>2, <3>3 DEF BatchInv
    <3>5. PICK ok \in BOOLEAN : IF IsIsolated THEN Complete(l, ok, "rejected")
                                ELSE Retry(l, ok, FALSE, FALSE)
      BY <2>5 DEF ApplyPermanent
    <3> QED
      BY <1>1, <2>4, <3>4, <3>5 DEF Retry
  <2>6. CASE ApplySuccess(d)
    BY <2>3, <2>6 DEF ApplySuccess
  <2>7. CASE ApplyTransient(d)
    BY <1>1, <2>3, <2>7 DEF ApplyTransient, Retry
  <2>8. CASE ApplyUnreadable(d)
    BY <2>3, <2>8 DEF ApplyUnreadable
  <2>9. CASE ApplyRevoked(d)
    BY <1>1, <2>9 DEF ApplyRevoked, Retry
  <2> QED
    BY <1>6, <2>5, <2>6, <2>7, <2>8, <2>9 DEF Apply
<1> QED
  BY <1>2, <1>3, <1>4, <1>5, <1>6 DEF OutboxNext, DrainStep, Apply

\* One drain is one drain.
LEMMA OneDrain ==
  ASSUME OutboxInv, Cardinality(drains) = 1
  PROVE  \E one : drains = {one}
BY DrainAssumption, FS_Singleton DEF OutboxInv, OutboxTypeOK

(***************************************************************************)
(* BatchNarrowing's promise, whatever the size of the full next and       *)
(* however many records are refused: a drain that runs alone rejects no    *)
(* record that the server did not refuse.                                  *)
(***************************************************************************)
THEOREM RefusedAlone == OutboxSpec => []OnlyRefusedRejected
<1> DEFINE Inv == BatchInv /\ (Cardinality(drains) = 1 => RejectedRefused)
<1>1. OutboxInit => Inv
  BY DrainsKnown, OutboxBegins DEF OutboxInit, BatchInv, RejectedRefused, Idle, EmptyHanded, OutboxInv
<1>2. OutboxInv /\ Inv /\ [OutboxNext]_vars => Inv'
  <2> SUFFICES ASSUME OutboxInv, Inv, [OutboxNext]_vars PROVE Inv'
    OBVIOUS
  <2>1. UNCHANGED drains
    BY DEF OutboxNext, DrainStep, vars, Enqueue, EnforceBudget, LateArrival, ExpireLease, GrowOld,
           Restart, WaitOver, StartDrain, TakeLease, ApplySuccess, ApplyTransient, ApplyPermanent,
           ApplyUnreadable, ApplyRevoked, OutcomeVars, ServerAccepts, ServerRefuses,
           ServerRevokes, TimesOut, AgentVars, fixedVars
  <2>2. Cardinality(drains) = 1 => RejectedRefused'
    BY OneDrain, RejectedStep
  <2> QED
    BY <2>1, <2>2, BatchStep
<1>3. Inv => OnlyRefusedRejected
  BY DEF OnlyRefusedRejected, RejectedRefused
<1> QED
  BY OutboxBegins, OutboxStep, <1>1, <1>2, <1>3, PTL DEF OutboxSpec

-----------------------------------------------------------------------------
\* The outbox implements RecordDelivery.

LEMMA RowsKnown == OutboxInv => queue \subseteq Row /\ 1 .. made \subseteq Row
BY BoundAssumption DEF OutboxInv, OutboxTypeOK, Row

LEMMA GivesUpDrops == ASSUME OutboxInv, GivesUp PROVE [Delivery!Next]_(Delivery!deliveryVars)
<1> DEFINE S == (queue \ queue') \ server
<1>1. Delivery!Drop(S)
  BY DEF GivesUp, Delivery!Drop
<1>2. S \in SUBSET Row
  BY RowsKnown
<1> QED
  BY <1>1, <1>2 DEF Delivery!Next

LEMMA StoresRows ==
  ASSUME OutboxInv, UNCHANGED <<queue, dropped>>, server \subseteq server', server' \subseteq 1 .. made
  PROVE  [Delivery!Next]_(Delivery!deliveryVars)
<1> DEFINE S == server' \ server
<1>1. S \subseteq Row /\ server' = server \cup S /\ DroppedRows' = DroppedRows
  BY RowsKnown DEF DroppedRows
<1>2. S \subseteq (queue \ server) \cup (DroppedRows \ server)
  BY DEF OutboxInv, AllInv
<1>3. Delivery!Store(S)
  BY <1>1, <1>2 DEF Delivery!Store
<1> QED
  BY <1>1, <1>3 DEF Delivery!Next

LEMMA EnqueueMakes == ASSUME OutboxInv, Enqueue PROVE [Delivery!Next]_(Delivery!deliveryVars)
<1>1. PICK ok \in BOOLEAN :
        /\ queue'   = IF ok THEN queue \cup {made + 1} ELSE queue
        /\ dropped' = IF ok THEN dropped ELSE Log({made + 1}, "disk")
  BY DEF Enqueue
<1>2. made + 1 \in Row /\ made + 1 \notin queue \cup server \cup DroppedRows /\ server' = server
  BY BoundAssumption DEF OutboxInv, AllInv, OutboxTypeOK, Row, Enqueue, serverVars
<1>3. DroppedRows' = IF ok THEN DroppedRows ELSE DroppedRows \cup {made + 1}
  BY <1>1, LogRows DEF DroppedRows, Log
<1>4. Delivery!Make(made + 1)
  BY <1>1, <1>2, <1>3 DEF Delivery!Make
<1> QED
  BY <1>2, <1>4 DEF Delivery!Next

LEMMA NextDelivers == OutboxInv /\ [OutboxNext]_vars => [Delivery!Next]_(Delivery!deliveryVars)
<1> SUFFICES ASSUME OutboxInv, [OutboxNext]_vars PROVE [Delivery!Next]_(Delivery!deliveryVars)
  OBVIOUS
<1> USE DEF fixedVars, tableVars, workerVars, serverVars
<1>1. CASE UNCHANGED <<queue, server, dropped>>
  BY <1>1 DEF Delivery!deliveryVars, DroppedRows
<1>2. CASE UNCHANGED vars
  BY <1>1, <1>2 DEF vars
<1>3. CASE Enqueue
  BY <1>3, EnqueueMakes
<1>4. CASE EnforceBudget
  BY <1>4, BudgetGivesUp, GivesUpDrops
<1>5. CASE Restart
  BY <1>5, RestartGivesUp, GivesUpDrops
<1>6. CASE ExpireLease \/ GrowOld \/ \E r \in Row : WaitOver(r)
  BY <1>1, <1>6 DEF ExpireLease, GrowOld, WaitOver
<1>7. CASE LateArrival
  <2>1. server \subseteq server' /\ server' \subseteq 1 .. made
    BY <1>7, LateArrivalInv DEF LateArrival, AgentVars, OutboxInv, OutboxTypeOK
  <2>2. UNCHANGED <<queue, dropped>>
    BY <1>7 DEF LateArrival, AgentVars
  <2> QED
    BY <2>1, <2>2, StoresRows
<1>8. ASSUME NEW d \in drains, StartDrain(d) \/ TakeLease(d)
      PROVE  [Delivery!Next]_(Delivery!deliveryVars)
  BY <1>1, <1>8 DEF StartDrain, TakeLease
<1>9. ASSUME NEW d \in drains, Apply(d) PROVE [Delivery!Next]_(Delivery!deliveryVars)
  BY <1>9, OutcomeStep, GivesUpDrops DEF QueueStep
<1>10. ASSUME NEW d \in drains,
              ServerAccepts(d) \/ ServerRefuses(d) \/ ServerRevokes(d) \/ TimesOut(d)
       PROVE  [Delivery!Next]_(Delivery!deliveryVars)
  <2>1. task[d].batch \subseteq 1 .. made
    BY DrainsKnown DEF OutboxInv, OutboxTypeOK
  <2>2. server \subseteq server' /\ server' \subseteq 1 .. made
    BY <1>10, <2>1
       DEF ServerAccepts, ServerRefuses, ServerRevokes, TimesOut, OutboxInv, OutboxTypeOK, Readable
  <2>3. UNCHANGED <<queue, dropped>>
    BY <1>10 DEF ServerAccepts, ServerRefuses, ServerRevokes, TimesOut, AgentVars
  <2> QED
    BY <2>2, <2>3, StoresRows
<1> QED
  BY <1>2, <1>3, <1>4, <1>5, <1>6, <1>7, <1>8, <1>9, <1>10 DEF OutboxNext, DrainStep, Apply

(***************************************************************************)
(* IOutboxStore's promise, with any number of records, overlapping drains  *)
(* and mishaps: every record queued is waiting, or with the server, or was *)
(* given up in one of the places that say so, and the server loses none.   *)
(***************************************************************************)
THEOREM ImplementsDelivery == OutboxSpec => NothingVanishes
<1>1. OutboxInit => Delivery!Init
  BY DEF OutboxInit, Delivery!Init, DroppedRows
<1> QED
  BY OutboxBegins, OutboxStep, NextDelivers, <1>1, PTL DEF OutboxSpec, NothingVanishes, Delivery!Spec

-----------------------------------------------------------------------------
\* Side by side.

LEMMA OneDelivers ==
  [DeliveryNext]_deliveryVars =>
    /\ [Next]_machineVars /\ [OutboxNext]_vars /\ [RollupNext]_rollupVars
    /\ [ShotsNext]_shotVars /\ [SessionsNext]_sessionVars
<1> SUFFICES ASSUME [DeliveryNext]_deliveryVars
             PROVE  /\ [Next]_machineVars /\ [OutboxNext]_vars /\ [RollupNext]_rollupVars
                    /\ [ShotsNext]_shotVars /\ [SessionsNext]_sessionVars
  OBVIOUS
<1>1. CASE UNCHANGED deliveryVars
  BY <1>1 DEF deliveryVars
<1>2. CASE Only("machine", Next)
  BY <1>2 DEF Only
<1>3. CASE Only("outbox", OutboxNext)
  BY <1>3 DEF Only
<1>4. CASE Only("rollup", RollupNext)
  BY <1>4 DEF Only
<1>5. CASE Only("shots", ShotsNext)
  BY <1>5 DEF Only
<1>6. CASE Only("sessions", SessionsNext)
  BY <1>6 DEF Only
<1> QED
  BY <1>1, <1>2, <1>3, <1>4, <1>5, <1>6 DEF DeliveryNext

\* What the components do side by side is what each of them does: all that is proved of the
\* machine, the outbox, the rollup, the pictures and the sessions holds of the whole way.
THEOREM DeliverySideBySide ==
  DeliverySpec => Spec /\ OutboxSpec /\ RollupSpec /\ ShotsSpec /\ SessionsSpec
<1>1. DeliveryInit => Init /\ OutboxInit /\ RollupInit /\ ShotsInit /\ SessionsInit
  BY DEF DeliveryInit
<1> QED
  BY <1>1, OneDelivers, PTL DEF DeliverySpec, Spec, OutboxSpec, RollupSpec, ShotsSpec, SessionsSpec

\* The shapes of everything between a PC's clock and the summaries.
THEOREM DeliveryTyped == DeliverySpec => []DeliveryTypeOK
<1>1. TypeOK /\ OutboxTypeOK /\ RollupTypeOK /\ ShotsTypeOK /\ SessionsTypeOK => DeliveryTypeOK
  BY DEF DeliveryTypeOK
<1> QED
  BY <1>1, DeliverySideBySide, TypeCorrect, OutboxTyped, RollupTyped, ShotsArrive, SessionsTyped, PTL
=============================================================================
