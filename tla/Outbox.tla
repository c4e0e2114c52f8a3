------------------------------- MODULE Outbox -------------------------------
(***************************************************************************)
(* The agent's offline queue and the worker that empties it: the outbox    *)
(* table (oXeio.Agent/Storage/SqliteOutboxStore), the drain cycles of      *)
(* SyncWorker, the batch narrowing they share, and the ingest server as    *)
(* the worker sees it. Every store method is one transaction, or one       *)
(* statement, under the write gate, so a method is one step; what two      *)
(* drains do between their steps is left open.                             *)
(*                                                                         *)
(* One kind of record is modelled, since each kind has its own rows,       *)
(* batches and narrowing; a row weighs one unit of the disk budget. The    *)
(* rows are numbered in the order in which they are queued.                *)
(***************************************************************************)
EXTENDS Integers, FiniteSets

CONSTANTS
  MaxRow,      \* bound: how many records the agent ever queues
  DrainSets,   \* which drains may overlap: the sync loop, "Sync now", the last drain
  FullSize,    \* the full batch (SyncLimits.MaxBatchSize)
  MaxRounds,   \* SyncWorker.MaxBatchesPerKindPerCycle
  Cap, Target, \* OutboxBudget: above Cap rows the oldest go until Target are left
  MaxOld,      \* bound: how many records pass the age limit
  MaxFaults    \* bound: how many mishaps there are: crashes, failed writes, overrun
               \* leases, requests that arrive late, revocations

ASSUME DrainAssumption  == \A ds \in DrainSets : IsFiniteSet(ds)
ASSUME BatchAssumption  == FullSize \in Nat \ {0} /\ MaxRounds \in Nat \ {0}
ASSUME BudgetAssumption == Cap \in Nat /\ Target \in 0 .. Cap
ASSUME BoundAssumption  ==
  MaxRow \in Nat /\ MaxOld \in Nat /\ MaxFaults \in Nat

Row     == 1 .. MaxRow
Drain   == UNION DrainSets
None    == 0
Lease   == 1 .. (MaxRow + Cardinality(Drain))   \* enough for a fresh one always to exist
Natures == {"good", "refused", "torn"}
Reasons == {"disk", "corrupt", "age", "rejected", "unreadable", "budget"}
Replies == {"none", "Success", "Transient", "Permanent", "Unreadable", "Revoked"}

VARIABLES
  nature,    \* what the server makes of each record; a torn one cannot be decoded
  drains,    \* the drains of this run
  made,      \* how many records have been queued
  old,       \* the records past the age limit of RetryPolicy and OutboxBudget
  queue,     \* the rows of the outbox table
  holder,    \* lease_id of each row
  waiting,   \* the rows whose not_before_ms lies ahead
  parked,    \* the rows retried in a year, after a revocation
  expired,   \* the leases past lease_expires_ms
  current,   \* BatchNarrowing: how many rows to try next, shared by the drains
  stopped,   \* SyncWorker.Revoked
  task,      \* each drain: where it is, its lease and the batch it read; history:
             \* overrun, that the lease ran out in its hands
  late,      \* requests given up by the agent that may still arrive
  server,    \* the records the server has stored, by client_uuid
  dropped,   \* history: which records the agent has given up, and why
  faults

tableVars  == <<queue, holder, waiting, parked, expired>>
workerVars == <<current, stopped, task>>
serverVars == <<late, server>>
fixedVars  == <<nature, drains>>
vars == <<fixedVars, made, old, tableVars, workerVars, serverVars, dropped, faults>>

-----------------------------------------------------------------------------

\* A drain with no batch in hand, n rounds into its cycle.
EmptyHanded(place, n) ==
  [pc |-> place, round |-> n, lease |-> None, batch |-> {}, reply |-> "none", overrun |-> FALSE]
Idle == EmptyHanded("idle", 0)

\* A write either succeeds or fails, which the store notes and swallows.
Fault == faults < MaxFaults /\ faults' = faults + 1
Written(ok) == IF ok THEN UNCHANGED faults ELSE Fault

Log(rows, why)  == dropped \cup (rows \X {why})
Readable(batch) == {r \in batch : nature[r] # "torn"}
Refused(batch)  == \E r \in batch : nature[r] = "refused"

\* The n oldest rows of a set.
Oldest(rows, n) == {r \in rows : Cardinality({q \in rows : q < r}) < n}

Free      == {r \in queue : holder[r] = None}
LeasableAny == queue \ (waiting \cup parked)  \* mutant: lease_id IS NULL forgotten
Leasable  == Free \ (waiting \cup parked)
Held(l)   == {r \in queue : holder[r] = l}
InUse     == {holder[r] : r \in queue} \cup {task[d].lease : d \in drains}
OneLease  == 1                                 \* mutant: one lease id for all
NewLease  == CHOOSE l \in Lease : l \notin InUse

\* The holders once these leases are given back.
Release(leases) == [r \in Row |-> IF holder[r] \in leases THEN None ELSE holder[r]]

-----------------------------------------------------------------------------
\* The store's writers.

\* EnqueueAsync; a row that cannot be written is given up.
Enqueue ==
  /\ made < MaxRow
  /\ made' = made + 1
  /\ \E ok \in BOOLEAN :
       /\ Written(ok)
       /\ queue'   = IF ok THEN queue \cup {made + 1} ELSE queue
       /\ dropped' = IF ok THEN dropped ELSE Log({made + 1}, "disk")
  /\ UNCHANGED <<fixedVars, old, holder, waiting, parked, expired, workerVars, serverVars>>

\* EnforceBudgetAsync: rows past the age limit, then the oldest down to Target;
\* a leased row is never evicted. (Its survey and its deletes are one step.)
Expired    == Free \cap old
OverBudget ==
  LET left == queue \ Expired IN
  IF Cardinality(left) <= Cap THEN {}
  ELSE Oldest(Free \ Expired, Cardinality(left) - Target)

EnforceBudget ==
  /\ Expired \cup OverBudget # {}
  /\ queue'   = queue \ (Expired \cup OverBudget)
  /\ waiting' = waiting \ (Expired \cup OverBudget)
  /\ parked'  = parked \ (Expired \cup OverBudget)
  /\ dropped' = dropped \cup (Expired \X {"age"}) \cup (OverBudget \X {"budget"})
  /\ UNCHANGED <<fixedVars, made, old, holder, expired, workerVars, serverVars, faults>>

\* AckAsync and AbandonAsync: the rows the lease still holds are deleted.
Complete(l, ok, why) ==
  /\ Written(ok)
  /\ queue'  = IF ok THEN queue \ Held(l) ELSE queue
  /\ holder' = IF ok THEN Release({l}) ELSE holder
  /\ dropped' = IF ~ok THEN dropped
                ELSE IF why = "sent" THEN Log(Held(l) \ Readable(queue), "unreadable")
                ELSE Log(Held(l), why)
  /\ expired' = IF ok THEN expired \ {l} ELSE expired
  /\ UNCHANGED <<waiting, parked>>

\* RetryAsync: the lease's rows are free again, at once, later or in a year.
Retry(l, ok, later, inAYear) ==
  /\ Written(ok)
  /\ holder'  = IF ok THEN Release({l}) ELSE holder
  /\ waiting' = IF ok /\ later THEN waiting \cup Held(l) ELSE waiting
  /\ parked'  = IF ok /\ inAYear THEN parked \cup Held(l) ELSE parked
  /\ expired' = IF ok THEN expired \ {l} ELSE expired
  /\ UNCHANGED <<queue, dropped>>

-----------------------------------------------------------------------------
\* A drain of SyncWorker.

\* The holders after ReclaimExpiredLeasesAsync; the mutant never calls it.
Unreclaimed == holder
Reclaimed   == Release(expired)

\* The start of DrainOnceAsync.
StartDrain(d) ==
  /\ task[d].pc = "idle" /\ ~stopped
  /\ \E ok \in BOOLEAN :
       /\ Written(ok)
       /\ holder'  = IF ok THEN Reclaimed ELSE holder
       /\ expired' = IF ok THEN {} ELSE expired
  /\ task' = [task EXCEPT ![d].pc = "lease"]
  /\ UNCHANGED <<fixedVars, made, old, queue, waiting, parked, current, stopped,
                 serverVars, dropped>>

\* One round of DrainKindAsync up to the request: the lease and its snapshot.
TakeLease(d) ==
  LET batch == Oldest(Leasable, current) IN
  /\ task[d].pc = "lease"
  /\ IF stopped \/ task[d].round = MaxRounds \/ batch = {}
     THEN /\ task' = [task EXCEPT ![d] = Idle]
          /\ UNCHANGED <<holder, faults>>
     ELSE \E ok \in BOOLEAN :
            /\ Written(ok)
            /\ ~(Lease \subseteq InUse)
            /\ holder' = IF ok THEN [r \in Row |-> IF r \in batch THEN NewLease ELSE holder[r]]
                         ELSE holder
            /\ task' = [task EXCEPT ![d] =
                 IF ok THEN [@ EXCEPT !.pc = "send", !.lease = NewLease, !.batch = batch,
                               !.reply = IF Readable(batch) = {} THEN "Unreadable" ELSE "none"]
                 ELSE Idle]
  /\ UNCHANGED <<fixedVars, made, old, queue, waiting, parked, expired, current, stopped,
                 serverVars, dropped>>

\* The request of drain d is on its way.
Asking(d) == task[d].pc = "send" /\ task[d].reply = "none"
Answer(d, replies) == \E reply \in replies : task' = [task EXCEPT ![d].reply = reply]
AgentVars == <<fixedVars, made, old, tableVars, current, stopped, dropped>>

\* The server takes or refuses the whole batch; its answer may be lost.
ServerAccepts(d) ==
  /\ Asking(d) /\ ~Refused(task[d].batch)
  /\ server' = server \cup Readable(task[d].batch)
  /\ Answer(d, {"Success", "Transient"})
  /\ UNCHANGED <<AgentVars, late, faults>>

ServerRefuses(d) ==
  /\ Asking(d) /\ Refused(task[d].batch)
  /\ Answer(d, {"Permanent", "Transient"})
  /\ UNCHANGED <<AgentVars, serverVars, faults>>

ServerRevokes(d) ==
  /\ Asking(d) /\ Fault
  /\ Answer(d, {"Revoked"})
  /\ UNCHANGED <<AgentVars, serverVars>>

\* No answer in time: the request never got there, or (a mishap) it still will.
TimesOut(d) ==
  /\ Asking(d)
  /\ Answer(d, {"Transient"})
  /\ \/ UNCHANGED <<late, faults>>
     \/ Fault /\ late' = late \cup {task[d].batch}
  /\ UNCHANGED <<AgentVars, server>>

LateArrival ==
  /\ \E batch \in late :
       /\ late' = late \ {batch}
       /\ server' = IF Refused(batch) THEN server ELSE server \cup Readable(batch)
  /\ UNCHANGED <<AgentVars, task, faults>>

\* The end of a round: another one follows after a permanent refusal or a full
\* batch, the size being the one the narrowing has reached by then.
EndRound(d) ==
  LET more == \/ task[d].reply \in {"Permanent", "Unreadable"}
              \/ Cardinality(task[d].batch) >= current'
  IN task' = [task EXCEPT ![d] =
       IF more THEN EmptyHanded("lease", task[d].round + 1) ELSE Idle]

\* ApplyOutcomeAsync.
Answered(d, reply) == task[d].pc = "send" /\ task[d].reply = reply
OutcomeVars == <<fixedVars, made, old, serverVars>>

ApplySuccess(d) ==
  /\ Answered(d, "Success")
  /\ \E ok \in BOOLEAN : Complete(task[d].lease, ok, "sent")
  /\ current' = FullSize
  /\ EndRound(d)
  /\ UNCHANGED <<OutcomeVars, stopped>>

\* RetryLaterAsync judges the whole lease by the age of its first row.
PastAge(d) == \E r \in task[d].batch \cap old : \A q \in task[d].batch : r <= q

ApplyTransient(d) ==
  /\ Answered(d, "Transient")
  /\ \E ok \in BOOLEAN :
       IF PastAge(d) THEN Complete(task[d].lease, ok, "age")
       ELSE Retry(task[d].lease, ok, TRUE, FALSE)
  /\ UNCHANGED current
  /\ EndRound(d)
  /\ UNCHANGED <<OutcomeVars, stopped>>

\* Mutants: the whole refused batch is dropped; a batch of one is halved again.
NeverNarrows == TRUE
HalvesOne    == current < 1
IsIsolated   == current <= 1

ApplyPermanent(d) ==
  /\ Answered(d, "Permanent")
  /\ \E ok \in BOOLEAN :
       IF IsIsolated THEN Complete(task[d].lease, ok, "rejected")
       ELSE Retry(task[d].lease, ok, FALSE, FALSE)
  /\ current' = IF IsIsolated THEN FullSize ELSE current \div 2
  /\ EndRound(d)
  /\ UNCHANGED <<OutcomeVars, stopped>>

ApplyUnreadable(d) ==
  /\ Answered(d, "Unreadable")
  /\ \E ok \in BOOLEAN : Complete(task[d].lease, ok, "unreadable")
  /\ current' = FullSize
  /\ EndRound(d)
  /\ UNCHANGED <<OutcomeVars, stopped>>

ApplyRevoked(d) ==
  /\ Answered(d, "Revoked")
  /\ stopped' = TRUE
  /\ \E ok \in BOOLEAN : Retry(task[d].lease, ok, FALSE, TRUE)
  /\ UNCHANGED current
  /\ EndRound(d)
  /\ UNCHANGED OutcomeVars

-----------------------------------------------------------------------------
\* Time passing, and the agent dying.

WaitOver(r) ==
  /\ r \in waiting
  /\ waiting' = waiting \ {r}
  /\ UNCHANGED <<fixedVars, made, old, queue, holder, parked, expired, workerVars, serverVars,
                 dropped, faults>>

\* Five minutes pass. While its drain lives a lease runs out only if the PC
\* slept through the request, which counts as a fault.
ExpireLease ==
  /\ \E l \in {holder[r] : r \in queue} \ ({None} \cup expired) :
       /\ expired' = expired \cup {l}
       /\ task' = [d \in Drain |-> [task[d] EXCEPT !.overrun = @ \/ task[d].lease = l]]
       /\ IF \E d \in drains : task[d].lease = l THEN Fault ELSE UNCHANGED faults
  /\ UNCHANGED <<fixedVars, made, old, queue, holder, waiting, parked, current, stopped,
                 serverVars, dropped>>

GrowOld ==
  /\ Cardinality(old) < MaxOld
  /\ old' = Oldest(1 .. made, Cardinality(old) + 1) /\ old' # old
  /\ UNCHANGED <<fixedVars, made, tableVars, workerVars, serverVars, dropped, faults>>

\* The agent dies and starts again: Open reclaims every lease, or fails to, and
\* moves a database that does not pass the check aside with all its rows.
Restart ==
  /\ Fault
  /\ \E corrupt, reclaimed \in BOOLEAN :
       /\ corrupt => reclaimed
       /\ holder'  = IF reclaimed THEN [r \in Row |-> None] ELSE holder
       /\ expired' = IF reclaimed THEN {} ELSE expired
       /\ queue'   = IF corrupt THEN {} ELSE queue
       /\ waiting' = IF corrupt THEN {} ELSE waiting
       /\ parked'  = IF corrupt THEN {} ELSE parked
       /\ dropped' = IF corrupt THEN Log(queue, "corrupt") ELSE dropped
  /\ current' = FullSize /\ stopped' = FALSE
  /\ task' = [d \in Drain |-> Idle]
  /\ \E sent \in SUBSET {d \in drains : Asking(d)} :
       late' = late \cup {task[d].batch : d \in sent}
  /\ UNCHANGED <<fixedVars, made, old, server>>

-----------------------------------------------------------------------------

OutboxInit ==
  /\ nature \in [Row -> Natures]
  /\ drains \in DrainSets
  /\ made = 0 /\ old = {}
  /\ queue = {} /\ holder = [r \in Row |-> None]
  /\ waiting = {} /\ parked = {} /\ expired = {}
  /\ current = FullSize /\ stopped = FALSE
  /\ task = [d \in Drain |-> Idle]
  /\ late = {} /\ server = {} /\ dropped = {} /\ faults = 0

DrainStep(d) ==
  \/ StartDrain(d) \/ TakeLease(d)
  \/ ApplySuccess(d) \/ ApplyTransient(d) \/ ApplyPermanent(d)
  \/ ApplyUnreadable(d) \/ ApplyRevoked(d)

OutboxNext ==
  \/ Enqueue \/ EnforceBudget \/ LateArrival \/ ExpireLease \/ GrowOld \/ Restart
  \/ \E r \in Row : WaitOver(r)
  \/ \E d \in drains :
       DrainStep(d) \/ ServerAccepts(d) \/ ServerRefuses(d) \/ ServerRevokes(d) \/ TimesOut(d)

OutboxSpec == OutboxInit /\ [][OutboxNext]_vars

(***************************************************************************)
(* The loops of the agent keep running and its timers keep firing. Of the  *)
(* network and the server only this is assumed: whoever keeps asking gets  *)
(* some answer (at worst a timeout), and not a lost one for ever.          *)
(***************************************************************************)
Heard(d)   == task'[d].reply \in {"Success", "Permanent"}
Fairness ==
  /\ \A d \in Drain :
       /\ WF_vars(d \in drains /\ DrainStep(d))
       /\ WF_vars(d \in drains /\ TimesOut(d))
       /\ SF_vars(d \in drains /\ (ServerAccepts(d) \/ ServerRefuses(d)) /\ Heard(d))
  /\ \A r \in Row : WF_vars(WaitOver(r))
  /\ WF_vars(ExpireLease)

LiveSpec == OutboxSpec /\ Fairness

-----------------------------------------------------------------------------

OutboxTypeOK ==
  /\ nature \in [Row -> Natures] /\ drains \in DrainSets
  /\ made \in 0 .. MaxRow /\ old \subseteq 1 .. made
  /\ queue \subseteq 1 .. made /\ holder \in [Row -> Lease \cup {None}]
  /\ waiting \subseteq queue /\ parked \subseteq queue /\ expired \subseteq Lease
  /\ current \in 1 .. FullSize /\ stopped \in BOOLEAN
  /\ task \in [Drain -> [pc : {"idle", "lease", "send"}, round : 0 .. MaxRounds,
                         lease : Lease \cup {None}, batch : SUBSET (1 .. made), reply : Replies,
                         overrun : BOOLEAN]]
  /\ late \subseteq SUBSET (1 .. made) /\ server \subseteq 1 .. made
  /\ dropped \subseteq (1 .. made) \X Reasons
  /\ faults \in 0 .. MaxFaults

(***************************************************************************)
(* IOutboxStore: no step loses a record, the worst case is that it is sent *)
(* twice. A record leaves the table only when the server has it or in one  *)
(* of the places that give records up, through every crash, failed write,  *)
(* overrun lease, lost answer and late request.                            *)
(***************************************************************************)
DroppedRows == {entry[1] : entry \in dropped}
Delivery == INSTANCE RecordDelivery WITH
  Record <- Row, pending <- queue \ server, stored <- server,
  dropped <- DroppedRows \ server
NothingVanishes == Delivery!Spec

(***************************************************************************)
(* LeaseAsync: a drain whose lease did not run out in its hands keeps its  *)
(* rows until it hears of them, whatever fails, dies or wakes up late      *)
(* beside it: nobody completes, frees or leases them; and two such drains  *)
(* never have the same row on its way to the server. A drain that slept    *)
(* past its lease has lost its rows, and may still be sending them.        *)
(***************************************************************************)
StillLeases(d) == task[d].pc = "send" /\ ~task[d].overrun
SingleSender ==
  \A d \in drains : StillLeases(d) =>
    /\ \A r \in task[d].batch : r \in queue /\ holder[r] = task[d].lease
    /\ \A e \in drains \ {d} : StillLeases(e) => task[d].batch \cap task[e].batch = {}

(***************************************************************************)
(* BatchNarrowing: one refused record never costs the good ones of its     *)
(* batch; only a record refused alone is dropped as rejected. This is said *)
(* of one drain at a time: the drains share the narrowing, and a second    *)
(* one judges its own batch by the size the first one has reached.         *)
(***************************************************************************)
OnlyRefusedRejected ==
  Cardinality(drains) = 1 =>
    \A entry \in dropped : entry[2] = "rejected" => nature[entry[1]] = "refused"

(***************************************************************************)
(* No row is stuck: a refused or torn one at the head of the queue, a      *)
(* lease nobody will complete, or an answer that keeps getting lost does   *)
(* not keep a row in the table for ever, unless the device was revoked.    *)
(***************************************************************************)
EveryRowLeaves ==
  \A r \in Row : r \in queue ~> r \notin queue \/ stopped \/ r \in parked
=============================================================================
