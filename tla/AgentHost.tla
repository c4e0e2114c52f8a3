----------------------------- MODULE AgentHost -----------------------------
(***************************************************************************)
(* The three threads of the agent that share one idle state machine        *)
(* (oXeio.Agent/AgentHost): the tracker thread, the message pump that gets *)
(* the power and session notifications, and the thread that disposes of    *)
(* the host. The tracker reads the clock at the top of an iteration and    *)
(* uses that value several lock acquisitions later, while the pump reads   *)
(* the clock inside the lock: that gap is what this module is about.       *)
(*                                                                         *)
(* The employee is signed in throughout (SignIn models the gate). A sleep  *)
(* is one step of the environment; the machine's clock runs through it.    *)
(***************************************************************************)
EXTENDS Integers

CONSTANTS
  MaxTime,       \* bound: the clock stops here
  MaxEvents,     \* bound: how often the user, Windows or the office does something
  Cadence,       \* the tracker reads the clock at least this often
  GapTolerance,  \* SleepGapDetector: a longer silence of the tracker is a sleep
  MaxSegment, DayLength,
  Sites          \* the installations considered, see site

ASSUME TimeAssumption ==
  MaxTime \in Nat /\ MaxEvents \in Nat /\ Cadence \in Nat \ {0} /\ GapTolerance \in Nat
ASSUME SegmentAssumption == MaxSegment \in Nat \ {0} /\ DayLength \in Nat \ {0}
ASSUME SiteAssumption ==
  Sites \subseteq [notified : BOOLEAN, thresholds : SUBSET (Nat \ {0})]

VARIABLES
  site,       \* this PC: does Windows notify it of power changes (the result of
              \* registering is ignored), which idle thresholds may the office set
  state, openedAt, emitted,    \* the machine, see IdleStateMachine
  threshold,  \* the idle threshold of the current machine
  now,        \* the monotonic clock
  lastInput,  \* when the keyboard or mouse was last used
  locked,     \* _sessionSuspended
  pending,    \* _pendingConfig: a new threshold, or None
  pc,         \* the tracker: at the top of its loop or before one of its locks
  tNow, tSince,       \* its sample: the clock and the time since the last input
  primed, lastMono,   \* the sleep gap detector
  pump,       \* "reset" between the lock and _sleep.Reset() in OnPower
  announced,  \* history: OnPower has handled a suspend message this very instant
  resumeDue,  \* Windows has yet to deliver the resume notification
  host,       \* "running", "cancelled" (_stopping set), "closed" (CloseAll done)
  slept,      \* history: the PC's sleeps, was the detector primed, were they announced
  stretch,    \* history: since when the open state lasts, splits left out
  events      \* how many events of the environment there have been

machineVars  == <<state, openedAt, emitted>>
trackerVars  == <<pc, tNow, tSince>>
detectorVars == <<primed, lastMono>>
pumpVars     == <<pump, resumeDue, announced>>
clockVars    == <<site, now, lastInput, slept>>
envVars      == <<clockVars, events>>
vars == <<machineVars, trackerVars, detectorVars, pumpVars, envVars,
          threshold, locked, pending, host, stretch>>

None == 0

Machine == INSTANCE IdleStateMachine WITH
  Instant <- 0 .. MaxTime, QuietTime <- 0 .. MaxTime, StartedAt <- 0,
  Thresholds <- UNION {s.thresholds : s \in Sites}

\* Something outside the agent happens.
Event == events < MaxEvents /\ events' = events + 1

\* _machineGate is held across the two calls a detected sleep makes.
GateFree == pc # "woken"

-----------------------------------------------------------------------------
\* The environment: time, input, sleep, and the messages Windows posts.

\* The tracker sleeps between iterations, but never longer than Cadence.
TimePasses ==
  /\ now < MaxTime /\ host # "closed"
  /\ host = "running" => now - tNow < Cadence
  /\ now' = now + 1
  /\ announced' = FALSE
  /\ UNCHANGED <<machineVars, trackerVars, detectorVars, pump, resumeDue,
                 site, lastInput, slept, events, threshold, locked, pending, host>>

UserInput ==
  /\ Event /\ host = "running"
  /\ lastInput' = now
  /\ UNCHANGED <<machineVars, trackerVars, detectorVars, pumpVars,
                 site, now, slept, threshold, locked, pending, host>>

Sleep ==
  /\ Event /\ host # "closed"
  /\ \E until \in (now + GapTolerance + 1) .. MaxTime :
       /\ slept' = slept \cup {[from |-> now, to |-> until,
                                 armed |-> primed, announced |-> announced]}
       /\ now' = until
       /\ announced' = FALSE
       /\ resumeDue' \in {FALSE, site.notified}
       /\ UNCHANGED <<machineVars, trackerVars, detectorVars, site, lastInput,
                      pump, threshold, locked, pending, host>>

\* ReloadConfig, on the heartbeat thread, leaves the new configuration for the
\* tracker; its threshold may be the current one, another setting having changed.
ReloadConfig ==
  /\ Event /\ host = "running"
  /\ pending' \in site.thresholds
  /\ UNCHANGED <<machineVars, trackerVars, detectorVars, pumpVars, clockVars,
                 threshold, locked, host>>

-----------------------------------------------------------------------------
\* The message pump. It stops before the host is disposed of.

OnSessionChange ==
  /\ Event /\ host = "running" /\ pump = "ready"
  /\ locked' = ~locked
  /\ UNCHANGED <<machineVars, trackerVars, detectorVars, pumpVars, clockVars,
                 threshold, pending, host>>

\* PBT_APMSUSPEND, or the display going off.
OnPowerSuspend ==
  /\ Event /\ host = "running" /\ pump = "ready" /\ site.notified /\ GateFree
  /\ Machine!OnSuspend(now)
  /\ pump' = "reset"
  /\ announced' = TRUE
  /\ UNCHANGED <<trackerVars, detectorVars, clockVars, resumeDue,
                 threshold, locked, pending, host>>

\* The second resume message is ignored only if it comes within five seconds.
OnPowerResume ==
  /\ host = "running" /\ pump = "ready" /\ resumeDue /\ GateFree
  /\ Machine!OnResume(now)
  /\ pump' = "reset"
  /\ resumeDue' \in BOOLEAN
  /\ Event
  /\ UNCHANGED <<trackerVars, detectorVars, clockVars, announced,
                 threshold, locked, pending, host>>

ResetDetector ==
  /\ pump = "reset"
  /\ primed' = FALSE
  /\ pump' = "ready"
  /\ UNCHANGED <<machineVars, trackerVars, envVars, lastMono, resumeDue, announced,
                 threshold, locked, pending, host>>

-----------------------------------------------------------------------------
\* The tracker thread, TrackLoop.

ReadSample ==
  /\ host = "running" /\ pc = "top"
  /\ tNow' = now
  /\ tSince' = now - lastInput
  /\ pc' = "config"
  /\ UNCHANGED <<machineVars, detectorVars, pumpVars, envVars,
                 threshold, locked, pending, host>>

\* The pending configurations that leave the machine alone, and a mutant that
\* forgets the one that keeps the threshold (ConfigChange.IdleThreshold).
NothingPending == {None}
NoNewThreshold == {None, threshold}

\* ApplyIdleThreshold closes the old machine and opens a new one at tNow.
ApplyConfig ==
  /\ pc = "config"
  /\ IF pending \in NoNewThreshold
     THEN UNCHANGED <<machineVars, threshold>>
     ELSE /\ emitted' = emitted \cup Machine!EmitSegment(state, openedAt, tNow)
          /\ openedAt' = tNow
          /\ threshold' = pending
          /\ UNCHANGED state
  /\ pending' = None
  /\ pc' = "observe"
  /\ UNCHANGED <<detectorVars, pumpVars, envVars, tNow, tSince, locked, host>>

\* Where a detected sleep began; the mutant takes the tick that notices it.
NoticedAt   == tNow
SuspendedAt == lastMono

\* SleepGapDetector.Observe; a gap closes the segment where the PC was last awake.
Observe ==
  LET gap == primed /\ tNow - lastMono > GapTolerance IN
  /\ pc = "observe"
  /\ IF gap THEN Machine!OnSuspend(SuspendedAt) ELSE UNCHANGED machineVars
  /\ pc' = IF gap THEN "woken" ELSE "tick"
  /\ primed' = TRUE
  /\ lastMono' = tNow
  /\ UNCHANGED <<pumpVars, envVars, tNow, tSince, threshold, locked, pending, host>>

\* The second call under the same lock.
ObserveWake ==
  /\ pc = "woken"
  /\ Machine!OnResume(tNow)
  /\ pc' = "tick"
  /\ UNCHANGED <<detectorVars, pumpVars, envVars, tNow, tSince,
                 threshold, locked, pending, host>>

\* frozen is whether the screen has not changed for long (ScreenActivity).
TrackTick ==
  /\ pc = "tick"
  /\ \E frozen \in BOOLEAN :
       /\ Machine!Tick(threshold, tNow, tSince, locked, frozen)
       /\ IF frozen THEN Event ELSE UNCHANGED events
  /\ pc' = "top"
  /\ UNCHANGED <<detectorVars, pumpVars, clockVars, tNow, tSince,
                 threshold, locked, pending, host>>

-----------------------------------------------------------------------------
\* DisposeAsync: the tracker sees the token only at the top of its loop.

CancelHost ==
  /\ host = "running" /\ pump = "ready"
  /\ host' = "cancelled"
  /\ UNCHANGED <<machineVars, trackerVars, detectorVars, pumpVars, envVars,
                 threshold, locked, pending>>

\* The last segment.
LastSegments == Machine!CloseAll(now)

CloseHost ==
  /\ host = "cancelled" /\ GateFree
  /\ LastSegments
  /\ host' = "closed"
  /\ UNCHANGED <<trackerVars, detectorVars, pumpVars, envVars,
                 threshold, locked, pending>>

-----------------------------------------------------------------------------

Init ==
  /\ site \in Sites
  /\ threshold \in site.thresholds
  /\ Machine!Init
  /\ now = 0 /\ lastInput = 0 /\ slept = {} /\ events = 0 /\ stretch = 0
  /\ locked = (state = "Locked")
  /\ pending = None
  /\ pc = "top" /\ tNow = 0 /\ tSince = 0
  /\ primed = FALSE /\ lastMono = 0
  /\ pump = "ready" /\ resumeDue = FALSE /\ announced = FALSE
  /\ host = "running"

Next ==
  /\ \/ TimePasses \/ UserInput \/ Sleep \/ ReloadConfig
     \/ OnSessionChange \/ OnPowerSuspend \/ OnPowerResume \/ ResetDetector
     \/ ReadSample \/ ApplyConfig \/ Observe \/ ObserveWake \/ TrackTick
     \/ CancelHost \/ CloseHost
  /\ stretch' = IF state' = state THEN stretch ELSE openedAt'

Spec == Init /\ [][Next]_vars

-----------------------------------------------------------------------------

(***************************************************************************)
(* As long as the office leaves the threshold alone, the three threads are *)
(* callers of one idle state machine: every step of theirs is one locked   *)
(* method call on it or does not touch it, so everything proved of         *)
(* IdleStateMachine holds of what the agent records.                       *)
(***************************************************************************)
UsesOneMachine == Machine!Spec

\* The sites UsesOneMachine is about.
Calm == \A s \in Sites : \A a, b \in s.thresholds : a = b

(***************************************************************************)
(* G160, of the agent: no instant is recorded as work twice, whatever the  *)
(* threads do; closing one machine and opening the next under one lock is  *)
(* meant to keep "two rows of the same time" from ApplyIdleThreshold.      *)
(***************************************************************************)
PaidOnce ==
  \A s, t \in emitted : s.state = "Active" /\ t.state = "Active" /\ s # t => Machine!Apart(s, t)

(***************************************************************************)
(* G3: a sleep whose suspend message OnPower has handled is never recorded *)
(* as work; closing the segment there is what OnSuspend is for.            *)
(***************************************************************************)
Awake(s, z) == s.to <= z.from \/ z.to <= s.from
AnnouncedSleepIsNotWork ==
  \A s \in emitted, z \in slept : s.state = "Active" /\ z.announced => Awake(s, z)

(***************************************************************************)
(* The same where Windows sends no notification at all (a battery running  *)
(* out): once primed, the gap detector is enough, as long as neither a new *)
(* threshold nor the closing of the host comes before its next look.       *)
(***************************************************************************)
DetectorAlone ==
  ~site.notified /\ site.thresholds = {threshold} /\ host = "running"
DetectorSuffices ==
  DetectorAlone =>
    \A s \in emitted, z \in slept : s.state = "Active" /\ z.armed => Awake(s, z)

(***************************************************************************)
(* A crash loses what the open segment holds. After each iteration of the  *)
(* tracker that is less than MaxSegment and the threshold together.        *)
(***************************************************************************)
CrashLossBounded == pc = "top" => tNow - openedAt < MaxSegment + threshold

(***************************************************************************)
(* B04: when the tracker finds the user idle, nothing of this stretch of   *)
(* work that a split has already sent off reaches further than one cadence *)
(* past the last input; a split at midnight keeps no such margin. (Under   *)
(* the conditions of DetectorSuffices. An earlier stretch may reach        *)
(* further: a lock, a frozen screen or a sleep ends it where it comes.)    *)
(***************************************************************************)
FoundIdle ==
  pc = "tick" /\ pc' = "top" /\ state = "Active" /\ state' = "Idle"
  /\ tSince >= threshold
RetroAdjusted ==
  [][FoundIdle /\ DetectorAlone /\ (\A z \in slept : z.armed) =>
       \A s \in emitted' : s.state = "Active" /\ s.from >= stretch =>
          s.to <= tNow - tSince + Cadence \/ Machine!IsMidnight(s.to)]_vars

\* Both: what the two splits are for (IdleStateMachine.cs:124-166), never leaving
\* much to lose and never settling what may still turn out to be idle time.
CutsAreSafe == []CrashLossBounded /\ RetroAdjusted

=============================================================================
