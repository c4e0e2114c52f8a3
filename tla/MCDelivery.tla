----------------------------- MODULE MCDelivery -----------------------------
(***************************************************************************)
(* The way of a PC's records to the summaries: the IdleStateMachine that   *)
(* makes segments, the Outbox that stores and sends them, WorkSessions and *)
(* SummaryRollup that receive them, and Screenshots for the pictures.      *)
(* They share no state, so one run checks them side by side: focus, chosen *)
(* in the initial state, says which takes steps.                           *)
(***************************************************************************)
EXTENDS MCIdleStateMachine, MCOutbox, MCSummaryRollup, MCScreenshots, MCWorkSessions

VARIABLE focus
deliveryVars == <<machineVars, vars, rollupVars, shotVars, sessionVars, focus>>

\* One initial state of the machine, the outbox and the files is enough for the others.
DeliveryInit ==
  /\ focus \in {"machine", "outbox", "rollup", "shots", "sessions"}
  /\ Init /\ OutboxInit /\ RollupInit /\ ShotsInit /\ SessionsInit
  /\ focus # "machine" => state = "Active"
  /\ focus # "outbox" => drains = {syncLoop} /\ \A r \in Row : nature[r] = "good"
  /\ focus # "shots" => family = OneSlot

\* Everything but the component in focus stands still.
Only(component, A) ==
  /\ focus = component /\ A /\ UNCHANGED focus
  /\ component # "machine"  => UNCHANGED machineVars
  /\ component # "outbox"   => UNCHANGED vars
  /\ component # "rollup"   => UNCHANGED rollupVars
  /\ component # "shots"    => UNCHANGED shotVars
  /\ component # "sessions" => UNCHANGED sessionVars

DeliveryNext == \/ Only("machine", Next)
                \/ Only("outbox", OutboxNext)
                \/ Only("rollup", RollupNext)
                \/ Only("shots", ShotsNext)
                \/ Only("sessions", SessionsNext)

DeliveryTypeOK == TypeOK /\ OutboxTypeOK /\ RollupTypeOK /\ ShotsTypeOK /\ SessionsTypeOK

DeliverySpec == DeliveryInit /\ [][DeliveryNext]_deliveryVars
=============================================================================
