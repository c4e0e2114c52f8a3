------------------------------- MODULE Rollout -------------------------------
(***************************************************************************)
(* The staged rollout of agent versions: publishing, the stages canary,    *)
(* partial, all and halted, the pilot device, the offer each device gets,  *)
(* and the hourly job that moves a version on once a device has proven it. *)
(* The owner's requests and the job read in one statement and write in a   *)
(* later one.  A hash decides in which stage a device's turn comes; the    *)
(* constant FirstStage stands for it.                                      *)
(*                                                                         *)
(* Time is counted in hours; ages are kept up to the largest one told      *)
(* apart.                                                                  *)
(***************************************************************************)
EXTENDS Naturals, FiniteSets

CONSTANTS Device,
          NoDevice,
          Build,       \* version numbers, 1..n in the order of their release
          FirstStage,    \* [Build -> [Device -> 1..3]]: by rolloutBucket, the first stage that reaches it
          Soak,          \* ROLLOUT_SOAK_HOURS
          MaxOrders      \* bound: what the owner and the world do

ASSUME RolloutAssumption ==
  /\ NoDevice \notin Device /\ "same" \notin Device \cup {NoDevice}
  /\ Cardinality(Build) \in Nat /\ Build = 1..Cardinality(Build)
  /\ FirstStage \in [Build -> [Device -> 1..3]]
  /\ Soak \in Nat \ {0} /\ MaxOrders \in Nat

VARIABLES stage,     \* agent_versions.rollout_stage, "unpublished" before
          stageAge,  \* hours since stage_changed_at
          pilot,     \* pilot_device_id
          active,    \* devices.status = active
          runs,      \* devices.agent_version, 0 for one older than all of these
          runAge,    \* hours since agent_version_since
          silent,    \* hours since last_seen_at: 0 beating, 1 within ROLLOUT_FRESH_MINUTES, 2 beyond
          ready,     \* the version whose installer the device has downloaded, 0 for none
          desk,      \* the owner's request in flight
          advance,   \* the job's run in flight
          orders,    \* orders given so far
          orphan     \* history: a version whose only offered devices have been taken away

deviceVars == <<active, runs, runAge, silent, ready>>
rolloutVars == <<stage, stageAge, pilot, deviceVars, desk, advance, orders, orphan>>

Quiet == [act |-> "none"]
Rank(s) == CASE s = "canary" -> 1 [] s = "partial" -> 2 [] s = "all" -> 3 [] OTHER -> 0
\* Mutant: runs off the end of the list.
StageAfter(s) == CASE s = "canary" -> "partial" [] s = "partial" -> "all" [] OTHER -> "none"

NextStage(s) == CASE s = "canary" -> "partial" [] s = "partial" -> "all" [] OTHER -> s

Published == {v \in Build : stage[v] # "unpublished"}
Latest(S) == IF S = {} THEN 0 ELSE CHOOSE v \in S : \A w \in S : w <= v
\* The newest version that is not halted: what offerFor and the job look at.
Current == Latest({v \in Published : stage[v] # "halted"})

\* isOfferedTo: the brake first, then the pilot, then the bucket.
InStage(s, v, d) == Rank(s) >= FirstStage[v][d]
IsOffered(v, d) == stage[v] # "halted" /\ (pilot[v] = d \/ InStage(stage[v], v, d))

\* offerFor.
Offer(d) == IF Current > runs[d] /\ IsOffered(Current, d) THEN Current ELSE 0

\* Mutant: a stage that reaches nobody gets no pilot.
NoPilots(s, v) == {NoDevice}

\* pilotNeededFor: nobody's turn comes in this stage, so one device is picked,
\* a living one if there is one.  Which one the hash decides.
PilotsFor(s, v) ==
  LET living == {d \in active : silent[d] < 2}
  IN  IF s \notin {"canary", "partial"} \/ (\E d \in active : InStage(s, v, d)) \/ active = {}
      THEN {NoDevice} ELSE IF living # {} THEN living ELSE active

(***************************************************************************)
(* The owner.                                                              *)
(***************************************************************************)
Order == orders < MaxOrders /\ orders' = orders + 1

\* publish: newer than the latest release, halted or not.
Publish(v, s) ==
  /\ desk = Quiet /\ Order
  /\ v = Latest(Published) + 1
  /\ \E p \in PilotsFor(s, v) :
       desk' = [act |-> "create", v |-> v, stage |-> s, pilot |-> p, excuse |-> active = {}]
  /\ UNCHANGED <<stage, stageAge, pilot, deviceVars, advance, orphan>>

\* setStage: a pilot of the owner's choice, none, or as it was; one is picked
\* when none is left.
SetStage(v, s, choice) ==
  /\ desk = Quiet /\ Order
  /\ v \in Published
  /\ LET kept == IF choice = "same" THEN pilot[v] ELSE choice
     IN  \E p \in IF kept = NoDevice THEN PilotsFor(s, v) ELSE {NoDevice} :
           desk' = [act |-> "update", v |-> v, stage |-> s,
                    pilot |-> IF choice # "same" THEN choice
                              ELSE IF p # NoDevice THEN p ELSE "same",
                    excuse |-> choice # "same" \/ active = {} \/ pilot[v] \in Device \ active]
  /\ UNCHANGED <<stage, stageAge, pilot, deviceVars, advance, orphan>>

\* Nobody is offered v any more: its rollout waits for the owner.
Reached(v, s, p, devices) == \E d \in devices : p = d \/ InStage(s, v, d)

Orphans(v, s, p, excuse) == IF Reached(v, s, p, active) THEN orphan \ {v}
                            ELSE IF excuse THEN orphan \cup {v} ELSE orphan

\* A write to a version the job is about to write, too.
Overtaken(v) == IF advance.act \in {"proofs", "save"} /\ advance.v = v
                THEN [advance EXCEPT !.overtaken = TRUE] ELSE advance

SaveOrder ==
  /\ desk # Quiet
  /\ LET v == desk.v
         p == IF desk.pilot = "same" THEN pilot[v] ELSE desk.pilot
     IN  /\ stage' = [stage EXCEPT ![v] = desk.stage]
         /\ stageAge' = [stageAge EXCEPT ![v] = 0]
         /\ pilot' = [pilot EXCEPT ![v] = p]
         /\ orphan' = Orphans(v, desk.stage, p, desk.excuse)
         /\ advance' = Overtaken(v)
  /\ desk' = Quiet
  /\ UNCHANGED <<deviceVars, orders>>

RevokePc(d) ==
  /\ Order /\ d \in active
  /\ active' = active \ {d}
  /\ orphan' = orphan \cup {v \in Published : ~Reached(v, stage[v], pilot[v], active')}
  /\ advance' = IF advance.act = "save" THEN [advance EXCEPT !.overtaken = TRUE] ELSE advance
  /\ desk' = IF desk = Quiet THEN Quiet ELSE [desk EXCEPT !.excuse = TRUE]
  /\ UNCHANGED <<stage, stageAge, pilot, runs, runAge, silent, ready>>

RestorePc(d) ==
  /\ Order /\ d \notin active
  /\ active' = active \cup {d}
  /\ UNCHANGED <<stage, stageAge, pilot, runs, runAge, silent, ready, desk, advance, orphan>>

(***************************************************************************)
(* The hourly job: one run at a time.                                      *)
(***************************************************************************)
JobLook ==
  /\ advance = Quiet /\ Current # 0
  /\ advance' = [act |-> "proofs", v |-> Current, saw |-> stage[Current],
                 floor |-> stageAge[Current], overtaken |-> FALSE]
  /\ UNCHANGED <<stage, stageAge, pilot, deviceVars, desk, orders, orphan>>

\* Mutant: the soak runs from the installation alone.
ProvesByRun(d, v, floor) == d \in active /\ runs[d] = v /\ silent[d] < 2 /\ runAge[d] >= Soak

\* Mutant: only devices of the stage prove it, the pilot does not.
ProvesInStage(d, v, floor) == /\ d \in active /\ runs[d] = v /\ silent[d] < 2
                              /\ runAge[d] >= Soak /\ floor >= Soak /\ InStage(stage[v], v, d)

\* isProvenBy: the soak runs from the later of the two dates.
Proves(d, v, floor) == /\ d \in active /\ runs[d] = v /\ silent[d] < 2
                       /\ runAge[d] >= Soak /\ floor >= Soak

JobProofs ==
  /\ advance.act = "proofs"
  /\ LET k == advance
     IN  advance' = IF NextStage(k.saw) # k.saw /\ (\E d \in Device : Proves(d, k.v, k.floor))
                    THEN [k EXCEPT !.act = "save"] ELSE Quiet
  /\ UNCHANGED <<stage, stageAge, pilot, deviceVars, desk, orders, orphan>>

\* The update asks for nothing but the version.
JobSave ==
  /\ advance.act = "save"
  /\ stage' = [stage EXCEPT ![advance.v] = NextStage(advance.saw)]
  /\ stageAge' = [stageAge EXCEPT ![advance.v] = 0]
  /\ orphan' = Orphans(advance.v, stage'[advance.v], pilot[advance.v], advance.overtaken)
  /\ advance' = Quiet
  /\ UNCHANGED <<pilot, deviceVars, desk, orders>>

(***************************************************************************)
(* The devices.                                                            *)
(***************************************************************************)
\* The agent asks and downloads (module UpdateStaging has the details).
Fetch(d) ==
  /\ d \in active /\ silent[d] = 0 /\ Offer(d) \notin {0, ready[d]}
  /\ ready' = [ready EXCEPT ![d] = Offer(d)]
  /\ UNCHANGED <<stage, stageAge, pilot, active, runs, runAge, silent, desk, advance, orders, orphan>>

\* A person installs what is there, and the next heartbeat says so.
Install(d) ==
  /\ d \in active /\ silent[d] = 0 /\ ready[d] > runs[d]
  /\ runs' = [runs EXCEPT ![d] = ready[d]]
  /\ runAge' = [runAge EXCEPT ![d] = 0]
  /\ UNCHANGED <<stage, stageAge, pilot, active, silent, ready, desk, advance, orders, orphan>>

\* The PC goes off, or the agent dies of the new version; or it comes back.
Switch(d) ==
  /\ Order
  /\ silent' = [silent EXCEPT ![d] = IF @ = 0 THEN 1 ELSE 0]
  /\ UNCHANGED <<stage, stageAge, pilot, active, runs, runAge, ready, desk, advance, orphan>>

Upto(n, max) == IF n < max THEN n + 1 ELSE max

Hour ==
  /\ desk = Quiet /\ advance = Quiet
  /\ stageAge' = [v \in Build |-> IF v \in Published THEN Upto(stageAge[v], Soak) ELSE 0]
  /\ runAge' = [d \in Device |-> IF runs[d] = 0 THEN 0 ELSE Upto(runAge[d], Soak)]
  /\ silent' = [d \in Device |-> IF silent[d] = 0 THEN 0 ELSE 2]
  /\ UNCHANGED <<stage, pilot, active, runs, ready, desk, advance, orders, orphan>>

(***************************************************************************)
(* Specification.                                                          *)
(***************************************************************************)
RolloutInit ==
  /\ stage = [v \in Build |-> "unpublished"] /\ stageAge = [v \in Build |-> 0]
  /\ pilot = [v \in Build |-> NoDevice]
  /\ active = Device /\ runs = [d \in Device |-> 0] /\ runAge = [d \in Device |-> 0]
  /\ silent = [d \in Device |-> 0] /\ ready = [d \in Device |-> 0]
  /\ desk = Quiet /\ advance = Quiet /\ orders = 0 /\ orphan = {}

Stages == {"canary", "partial", "all", "halted"}

Owner ==
  \/ \E v \in Build, s \in Stages : Publish(v, s)
  \/ \E v \in Build, s \in Stages, c \in Device \cup {NoDevice, "same"} : SetStage(v, s, c)
  \/ \E d \in Device : RevokePc(d) \/ RestorePc(d)

AdvanceJob == JobLook \/ JobProofs \/ JobSave
Devices == \E d \in Device : Fetch(d) \/ Install(d)

RolloutNext == Owner \/ SaveOrder \/ AdvanceJob \/ Devices \/ Hour \/ \E d \in Device : Switch(d)

\* The job runs every hour and the agents check every six; that somebody
\* installs what is ready is the office's part.
RolloutFairness == /\ WF_rolloutVars(SaveOrder) /\ WF_rolloutVars(JobProofs \/ JobSave)
                   /\ SF_rolloutVars(JobLook) /\ SF_rolloutVars(Hour)
                   /\ WF_rolloutVars(Devices)

RolloutSpec == RolloutInit /\ [][RolloutNext]_rolloutVars
LiveRolloutSpec == RolloutSpec /\ RolloutFairness

(***************************************************************************)
(* Properties.                                                             *)
(***************************************************************************)
\* The shapes.
RolloutTypeOK ==
  /\ stage \in [Build -> Stages \cup {"unpublished"}] /\ stageAge \in [Build -> 0..Soak]
  /\ pilot \in [Build -> Device \cup {NoDevice}] /\ active \subseteq Device
  /\ runs \in [Device -> Build \cup {0}] /\ ready \in [Device -> Build \cup {0}]
  /\ runAge \in [Device -> 0..Soak] /\ silent \in [Device -> 0..2]
  /\ desk.act \in {"none", "create", "update"} /\ advance.act \in {"none", "proofs", "save"}
  /\ orders \in 0..MaxOrders /\ orphan \subseteq Build

\* The job moves a version one stage on, and only out of a stage it has stayed
\* in for the soak time: no stage is passed on the proof of the one before
\* (rollout.ts:251-262) - unless the owner moved the version while the job ran.
StagesSoaked ==
  [][ \A v \in Build :
        (advance.act = "save" /\ stage'[v] # stage[v] /\ advance' = Quiet)
          => advance.overtaken \/ (stage'[v] = NextStage(stage[v]) /\ stageAge[v] >= Soak) ]_rolloutVars

\* A version on its way always has a device that is offered it, so that there
\* can be a proof at all (rollout.ts:78-105) - unless the owner has taken the
\* last such device away since, or moved the version to a stage nobody is in
\* while its pilot was a device taken away earlier: setStage picks a pilot only
\* where there is none (agent-versions.service.ts:279-286).
SomeoneOffered ==
  \A v \in Published : stage[v] \in {"canary", "partial"} /\ active # {}
     => v \in orphan \/ \E d \in active : IsOffered(v, d)

\* A stage rests on proof of its own, and never on proof nobody can give.
RolloutSound == []SomeoneOffered /\ StagesSoaked

\* A version nobody touches any more reaches everybody, if one active device
\* that is offered it beats (rollout-advance.job.ts:43-45).
Underway == /\ orders = MaxOrders /\ desk = Quiet /\ advance = Quiet /\ Current # 0
            /\ \E d \in active : /\ silent[d] = 0 /\ runs[d] <= Current /\ ready[d] <= Current
                                 /\ IsOffered(Current, d)
ReachesAll == Underway ~> (Current # 0 /\ stage[Current] = "all")
=============================================================================
