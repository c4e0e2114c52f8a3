-------------------------- MODULE AgentHostProofs ---------------------------
(***************************************************************************)
(* For every installation and every bound: while the office leaves the     *)
(* threshold alone, the agent's three threads implement one idle state     *)
(* machine, so what IdleStateMachineProofs proves of the machine is true   *)
(* of what the agent records; where Windows says nothing, the tracker's    *)
(* clock is enough to notice a sleep; and the splits leave little to lose  *)
(* and settle nothing too early. Of those who look after the agent: the    *)
(* watchdog spares one that beats, for any processes and any policy; and   *)
(* the alerts tell of a silent PC once, and truly.                         *)
(***************************************************************************)
EXTENDS AgentHost, MCWatch, FiniteSetTheorems, WellFoundedInduction, TLAPS

MachineProofs == INSTANCE IdleStateMachineProofs WITH
  Instant <- 0 .. MaxTime, QuietTime <- 0 .. MaxTime, StartedAt <- 0,
  Thresholds <- UNION {s.thresholds : s \in Sites}

\* The host's own variables: whatever it passes to the machine is an argument
\* the machine accepts, and what it keeps of the configuration is of this site.
ClockInv ==
  /\ now \in 0 .. MaxTime /\ lastInput \in 0 .. now
  /\ tNow \in 0 .. now /\ tSince \in 0 .. MaxTime /\ lastMono \in 0 .. tNow
  /\ locked \in BOOLEAN
SiteInv ==
  /\ site \in Sites
  /\ threshold \in site.thresholds
  /\ pending \in site.thresholds \cup {None}
HostInv == ClockInv /\ SiteInv

LEMMA InitHost == Init => HostInv
BY TimeAssumption DEF Init, HostInv, ClockInv, SiteInv, Machine!Init

\* The clock and the sample: only TimePasses, Sleep, UserInput, ReadSample,
\* OnSessionChange and Observe touch them.
LEMMA ClockStep == ClockInv /\ [Next]_vars => ClockInv'
<1> SUFFICES ASSUME ClockInv, [Next]_vars PROVE ClockInv'
  OBVIOUS
<1> USE TimeAssumption DEF ClockInv
<1>1. CASE TimePasses
  BY <1>1 DEF TimePasses, trackerVars, detectorVars
<1>2. CASE UserInput
  BY <1>2 DEF UserInput, trackerVars, detectorVars
<1>3. CASE Sleep
  BY <1>3 DEF Sleep, trackerVars, detectorVars
<1>4. CASE ReloadConfig
  BY <1>4 DEF ReloadConfig, trackerVars, detectorVars, clockVars
<1>5. CASE OnSessionChange
  BY <1>5 DEF OnSessionChange, trackerVars, detectorVars, clockVars
<1>6. CASE OnPowerSuspend \/ OnPowerResume
  BY <1>6 DEF OnPowerSuspend, OnPowerResume, trackerVars, detectorVars, clockVars
<1>7. CASE ResetDetector
  BY <1>7 DEF ResetDetector, trackerVars, envVars, clockVars
<1>8. CASE ReadSample
  BY <1>8 DEF ReadSample, detectorVars, envVars, clockVars
<1>9. CASE ApplyConfig
  BY <1>9 DEF ApplyConfig, detectorVars, envVars, clockVars
<1>10. CASE Observe
  BY <1>10 DEF Observe, envVars, clockVars
<1>11. CASE ObserveWake
  BY <1>11 DEF ObserveWake, detectorVars, envVars, clockVars
<1>12. CASE TrackTick
  BY <1>12 DEF TrackTick, detectorVars, clockVars
<1>13. CASE CancelHost \/ CloseHost
  BY <1>13 DEF CancelHost, CloseHost, trackerVars, detectorVars, envVars, clockVars
<1>14. CASE UNCHANGED vars
  BY <1>14 DEF vars, trackerVars, detectorVars, envVars, clockVars
<1>15. QED
  BY <1>1, <1>2, <1>3, <1>4, <1>5, <1>6, <1>7, <1>8, <1>9, <1>10, <1>11, <1>12,
     <1>13, <1>14 DEF Next

\* The configuration: only ReloadConfig and ApplyConfig touch it.
LEMMA SiteStep == SiteInv /\ [Next]_vars => SiteInv'
<1> SUFFICES ASSUME SiteInv, [Next]_vars PROVE SiteInv'
  OBVIOUS
<1> USE DEF SiteInv
<1>1. CASE ReloadConfig
  BY <1>1 DEF ReloadConfig, clockVars
<1>2. CASE ApplyConfig
  BY <1>2 DEF ApplyConfig, NoNewThreshold, envVars, clockVars
<1>3. CASE TimePasses \/ UserInput \/ Sleep
  BY <1>3 DEF TimePasses, UserInput, Sleep
<1>4. CASE OnSessionChange \/ OnPowerSuspend \/ OnPowerResume \/ ResetDetector
  BY <1>4 DEF OnSessionChange, OnPowerSuspend, OnPowerResume, ResetDetector,
              envVars, clockVars
<1>5. CASE ReadSample \/ Observe \/ ObserveWake \/ TrackTick
  BY <1>5 DEF ReadSample, Observe, ObserveWake, TrackTick, envVars, clockVars
<1>6. CASE CancelHost \/ CloseHost
  BY <1>6 DEF CancelHost, CloseHost, envVars, clockVars
<1>7. CASE UNCHANGED vars
  BY <1>7 DEF vars, envVars, clockVars
<1>8. QED
  BY <1>1, <1>2, <1>3, <1>4, <1>5, <1>6, <1>7 DEF Next

LEMMA HostInvHolds == Spec => []HostInv
<1>1. HostInv /\ [Next]_vars => HostInv'
  BY ClockStep, SiteStep DEF HostInv
<1>2. QED
  BY <1>1, InitHost, PTL DEF Spec

\* Every step is a call of one of the machine's methods or leaves it alone.
LEMMA StepIsCall ==
  ASSUME Calm, HostInv, [Next]_vars
  PROVE  [Machine!Next]_machineVars
<1> DEFINE Instants == 0 .. MaxTime
<1>1. now \in Instants /\ tNow \in Instants /\ lastMono \in Instants
      /\ tSince \in Instants /\ locked \in BOOLEAN
  BY TimeAssumption DEF HostInv, ClockInv
<1>2. threshold \in UNION {s.thresholds : s \in Sites}
  BY DEF HostInv, SiteInv
<1>3. CASE OnPowerSuspend
  BY <1>1, <1>3 DEF OnPowerSuspend, Machine!Next
<1>4. CASE OnPowerResume
  BY <1>1, <1>4 DEF OnPowerResume, Machine!Next
<1>5. CASE ApplyConfig
  <2>1. pending \in NoNewThreshold
    BY DEF NoNewThreshold, HostInv, SiteInv, Calm
  <2>2. QED
    BY <1>5, <2>1 DEF ApplyConfig
<1>6. CASE Observe
  BY <1>1, <1>6 DEF Observe, SuspendedAt, Machine!Next
<1>7. CASE ObserveWake
  BY <1>1, <1>7 DEF ObserveWake, Machine!Next
<1>8. CASE TrackTick
  BY <1>1, <1>2, <1>8 DEF TrackTick, Machine!Next
<1>9. CASE CloseHost
  BY <1>1, <1>9 DEF CloseHost, LastSegments, Machine!Next
<1>10. CASE TimePasses \/ UserInput \/ Sleep \/ ReloadConfig \/ OnSessionChange
  BY <1>10 DEF TimePasses, UserInput, Sleep, ReloadConfig, OnSessionChange
<1>11. CASE ResetDetector \/ ReadSample \/ CancelHost
  BY <1>11 DEF ResetDetector, ReadSample, CancelHost
<1>12. CASE UNCHANGED vars
  BY <1>12 DEF vars
<1>13. QED
  BY <1>3, <1>4, <1>5, <1>6, <1>7, <1>8, <1>9, <1>10, <1>11, <1>12 DEF Next

\* The agent implements the machine: whatever the threads interleave, what it
\* records is what one machine called by one caller at a time would record.
THEOREM ImplementsMachine == Calm => (Spec => UsesOneMachine)
<1> SUFFICES ASSUME Calm PROVE Spec => UsesOneMachine
  OBVIOUS
<1>1. Init => Machine!Init
  BY DEF Init
<1>2. HostInv /\ [Next]_vars => [Machine!Next]_machineVars
  BY StepIsCall
<1>3. QED
  BY <1>1, <1>2, HostInvHolds, PTL DEF Spec, UsesOneMachine, Machine!Spec, Machine!machineVars, machineVars

\* Machine and MachineProofs are the same machine, method by method.
LEMMA SameNext == Machine!Next => MachineProofs!Next
<1> USE DEF Machine!EmitSegment, MachineProofs!EmitSegment, Machine!Pieces, MachineProofs!Pieces,
            Machine!Points, MachineProofs!Points, Machine!Adjacent, MachineProofs!Adjacent,
            Machine!Midnights, MachineProofs!Midnights,
            Machine!IsMidnight, MachineProofs!IsMidnight, Machine!Later, MachineProofs!Later
<1>1. ASSUME NEW next, NEW at, Machine!EmitAndReopen(next, at)
      PROVE  MachineProofs!EmitAndReopen(next, at)
  BY <1>1, Zenon DEF Machine!EmitAndReopen, MachineProofs!EmitAndReopen
<1>2. ASSUME NEW at, Machine!OnSuspend(at) PROVE MachineProofs!OnSuspend(at)
  BY <1>1, <1>2, Zenon DEF Machine!OnSuspend, MachineProofs!OnSuspend, Machine!machineVars,
                    MachineProofs!machineVars
<1>3. ASSUME NEW at, Machine!OnResume(at) PROVE MachineProofs!OnResume(at)
  BY <1>1, <1>3, Zenon DEF Machine!OnResume, MachineProofs!OnResume
<1>4. ASSUME NEW at, Machine!CloseAll(at) PROVE MachineProofs!CloseAll(at)
  BY <1>4, Zenon DEF Machine!CloseAll, MachineProofs!CloseAll
<1>5. ASSUME NEW thr, NEW t, NEW since, NEW lock, NEW frozen,
             Machine!Tick(thr, t, since, lock, frozen)
      PROVE  MachineProofs!Tick(thr, t, since, lock, frozen)
  BY <1>5, Zenon DEF Machine!Tick, MachineProofs!Tick, Machine!Wanted, MachineProofs!Wanted,
              Machine!ChangeAt, MachineProofs!ChangeAt, Machine!Greatest, MachineProofs!Greatest,
              Machine!MidnightCuts, MachineProofs!MidnightCuts,
              Machine!LongCuts, MachineProofs!LongCuts
<1>6. QED
  BY <1>2, <1>3, <1>4, <1>5 DEF Machine!Next, MachineProofs!Next

\* The machine's theorem, carried over to the host: no instant is paid twice.
THEOREM NothingPaidTwice == Calm => (Spec => []PaidOnce)
<1> SUFFICES ASSUME Calm PROVE Spec => []PaidOnce
  OBVIOUS
<1>1. 0 .. MaxTime \subseteq Int /\ 0 \in Int /\ 0 .. MaxTime \subseteq Nat
  OBVIOUS
<1>2. UNION {s.thresholds : s \in Sites} \subseteq Nat \ {0}
  BY SiteAssumption
<1>3. MachineProofs!Spec => []MachineProofs!NoOverlap
  BY <1>1, <1>2, SegmentAssumption, MachineProofs!Disjoint
<1>4. MachineProofs!NoOverlap => PaidOnce
  BY DEF MachineProofs!NoOverlap, MachineProofs!Apart, PaidOnce, Machine!Apart
<1>5. MachineProofs!Init /\ [][MachineProofs!Next]_machineVars => []MachineProofs!NoOverlap
  BY <1>3 DEF MachineProofs!Spec, MachineProofs!machineVars, machineVars
<1>6. Init => MachineProofs!Init
  BY DEF Init, Machine!Init, MachineProofs!Init
<1>7. HostInv /\ [Next]_vars => [MachineProofs!Next]_machineVars
  BY StepIsCall, SameNext
<1>8. QED
  BY <1>4, <1>5, <1>6, <1>7, HostInvHolds, PTL DEF Spec

-----------------------------------------------------------------------------
(***************************************************************************)
(* Where the tracker's clock is all there is: what a sleep leaves, and     *)
(* what the splits send off.                                               *)
(***************************************************************************)
\* A PC where the tracker's clock is all there is to notice a sleep: what was returned
\* is over, and no pump meddles.
AloneTypes ==
  /\ pump = "ready" /\ resumeDue = FALSE
  /\ openedAt <= tNow
  /\ \A s \in emitted : s.from \in Int /\ s.to \in Int /\ s.from < s.to /\ s.to <= openedAt
  /\ \A z \in slept : z.from \in Int /\ z.to \in Int /\ z.to - z.from > GapTolerance /\ z.to <= now

\* Where the detector stands: its last look was the last sample, but while the next one
\* is on its way.
LookInv ==
  /\ primed \in BOOLEAN
  /\ pc \in {"woken", "tick"} => primed
  /\ primed /\ pc \in {"top", "tick", "woken"} => lastMono = tNow
  /\ primed /\ pc \in {"config", "observe"} => openedAt <= lastMono
  /\ pc = "woken" => state # "Active"

\* A sleep is still to come for the sample, is left behind, or is between the last look
\* and this one.
Noticed(z) ==
  \/ z.from >= tNow
  \/ z.to <= openedAt
  \/ pc \in {"config", "observe"} /\ lastMono <= z.from /\ z.to <= tNow
  \/ pc = "woken" /\ z.to <= tNow
AloneInv ==
  /\ AloneTypes /\ LookInv
  /\ \A z \in slept : z.armed => primed /\ Noticed(z)
  /\ \A s \in emitted, z \in slept : s.state = "Active" /\ z.armed => Awake(s, z)
SleepInv == DetectorAlone => AloneInv

\* The tracker's clock is not further behind than the cadence, but for a sleep.
OnTime == now - tNow <= Cadence \/ \E z \in slept : z.from >= tNow

\* Whose work goes on was there a threshold ago, or is about to be found out.
Young ==
  /\ pc = "top" => tNow - lastInput < threshold
  /\ pc \in {"config", "observe"} =>
       tSince < threshold + Cadence \/ (primed /\ tNow - lastMono > GapTolerance)
  /\ pc = "tick" => tSince < threshold + Cadence

\* The last input the tracker knows of.
KnownInput == IF pc = "top" THEN lastInput ELSE tNow - tSince

\* What the splits of this stretch of work have sent off is older than that.
Sent ==
  \A s \in emitted : s.state = "Active" /\ s.from >= stretch =>
    s.to <= KnownInput \/ Machine!IsMidnight(s.to)

WorkInv ==
  /\ OnTime
  /\ pc # "top" => tNow - tSince <= lastInput
  /\ state = "Active" => Young /\ Sent
AllArmed == \A z \in slept : z.armed
RetroInv == DetectorAlone /\ AllArmed => WorkInv

LEMMA HostConstants ==
  /\ MaxTime \in Nat /\ Cadence \in Nat /\ Cadence >= 1 /\ GapTolerance \in Nat
  /\ MaxSegment \in Nat /\ MaxSegment >= 1 /\ DayLength \in Nat /\ DayLength >= 1
BY TimeAssumption, SegmentAssumption

LEMMA ThresholdIs == ASSUME HostInv PROVE threshold \in Nat /\ threshold >= 1
BY SiteAssumption DEF HostInv, SiteInv

LEMMA ClockIs ==
  ASSUME HostInv
  PROVE  /\ now \in Nat /\ lastInput \in Nat /\ lastInput <= now /\ tNow \in Nat /\ tNow <= now
         /\ tSince \in Nat /\ lastMono \in Nat /\ lastMono <= tNow /\ now <= MaxTime
BY TimeAssumption DEF HostInv, ClockInv

(***************************************************************************)
(* What a call of the machine returns: pieces of the open segment, and the *)
(* next one opens where the last of them ends, or later.                   *)
(***************************************************************************)
Grown ==
  /\ openedAt' \in Int /\ openedAt <= openedAt'
  /\ \A s \in emitted' \ emitted : /\ s.state = state /\ s.from \in Int /\ s.to \in Int
                                   /\ openedAt <= s.from /\ s.from < s.to /\ s.to <= openedAt'

LEMMA PiecesAre ==
  ASSUME NEW s, NEW a \in Int, NEW b \in Int, a <= b, NEW cuts \in SUBSET Int
  PROVE  \A p \in Machine!Pieces(s, a, b, cuts) :
           /\ p.state = s /\ p.from \in Int /\ p.to \in Int
           /\ a <= p.from /\ p.from < p.to /\ p.to <= b
           /\ p.to = b \/ p.to \in cuts
<1>1. \A x \in Machine!Points(a, b, cuts) : x \in Int /\ a <= x /\ x <= b /\ (x = a \/ x = b \/ x \in cuts)
  BY DEF Machine!Points
<1>2. \A p \in Machine!Pieces(s, a, b, cuts) :
        /\ p.state = s /\ p.from \in Machine!Points(a, b, cuts) /\ p.to \in Machine!Points(a, b, cuts)
        /\ p.from < p.to
  BY DEF Machine!Pieces, Machine!Adjacent
<1> QED BY <1>1, <1>2

LEMMA EmitIs ==
  ASSUME NEW s, NEW a \in Int, NEW b \in Int
  PROVE  \A p \in Machine!EmitSegment(s, a, b) :
           /\ p.state = s /\ p.from \in Int /\ p.to \in Int
           /\ a <= p.from /\ p.from < p.to /\ p.to <= b
           /\ p.to = b \/ Machine!IsMidnight(p.to)
<1>1. CASE b <= a
  BY <1>1 DEF Machine!EmitSegment
<1>2. CASE ~(b <= a)
  <2>1. Machine!EmitSegment(s, a, b) = Machine!Pieces(s, a, b, Machine!Midnights(a, b))
    BY <1>2 DEF Machine!EmitSegment
  <2>2. /\ Machine!Midnights(a, b) \in SUBSET Int
        /\ \A t \in Machine!Midnights(a, b) : Machine!IsMidnight(t)
    BY DEF Machine!Midnights
  <2> QED BY <1>2, <2>1, <2>2, PiecesAre
<1> QED BY <1>1, <1>2

LEMMA ReopenIs ==
  ASSUME openedAt \in Int, NEW next, NEW at \in Int, Machine!EmitAndReopen(next, at)
  PROVE  Grown /\ state' = next /\ openedAt' = Machine!Later(at, openedAt)
<1> DEFINE end == Machine!Later(at, openedAt)
<1>1. end \in Int /\ openedAt <= end
  BY DEF Machine!Later
<1>2. /\ emitted' = emitted \cup Machine!EmitSegment(state, openedAt, end)
      /\ state' = next /\ openedAt' = end
  BY DEF Machine!EmitAndReopen
<1> HIDE DEF end
<1>3. \A p \in Machine!EmitSegment(state, openedAt, end) :
        /\ p.state = state /\ p.from \in Int /\ p.to \in Int
        /\ openedAt <= p.from /\ p.from < p.to /\ p.to <= end
  BY <1>1, EmitIs
<1>4. Grown
  BY <1>1, <1>2, <1>3 DEF Grown
<1> QED BY <1>2, <1>4 DEF end

\* Between the last multiple of d and a bound there is less than d.
LEMMA StepOver ==
  ASSUME NEW a \in Int, NEW d \in Nat, d > 0, a % d = 0
  PROVE  (a + d) % d = 0
<1> DEFINE q == a \div d
<1>1. q \in Int /\ a = d * q + (a % d)
  BY SMTT(60)
<1>2. d * (q + 1) = d * q + d
  BY <1>1
<1> HIDE DEF q
<1>3. d * q \in Int /\ q + 1 \in Int
  BY <1>1
<1>4. a + d = d * (q + 1)
  BY <1>1, <1>2, <1>3
<1>5. (d * (q + 1)) % d = 0
  BY <1>3, SMTT(60)
<1> QED BY <1>4, <1>5

\* The cuts of a tick: the last is at a midnight, or a threshold ago, and leaves less open
\* than a segment's greatest length and the threshold.
LEMMA CutsAre ==
  ASSUME openedAt \in Int, NEW thr \in Nat, thr >= 1, NEW t \in Int,
         NEW m \in Machine!Greatest(Machine!MidnightCuts(t)),
         NEW b \in Machine!Greatest(Machine!LongCuts(m, t, thr))
  PROVE  /\ m \in Int /\ openedAt <= m /\ (m = openedAt \/ m <= t)
         /\ b \in Int /\ m <= b /\ (b = m \/ b <= t - thr)
         /\ t - b < MaxSegment + thr
         /\ Machine!MidnightCuts(t) \cup Machine!LongCuts(m, t, thr) \in SUBSET Int
         /\ \A x \in Machine!MidnightCuts(t) \cup Machine!LongCuts(m, t, thr) :
              x > openedAt => Machine!IsMidnight(x) \/ x <= t - thr
<1> USE HostConstants
<1>1. Machine!MidnightCuts(t) = {openedAt} \cup Machine!Midnights(openedAt, t)
  BY DEF Machine!MidnightCuts
<1>2. \A x \in Machine!Midnights(openedAt, t) : x \in openedAt .. t /\ Machine!IsMidnight(x)
  BY DEF Machine!Midnights
<1>3. m \in Int /\ openedAt <= m /\ (m = openedAt \/ (m <= t /\ Machine!IsMidnight(m)))
  BY <1>1, <1>2 DEF Machine!Greatest
<1>4. /\ Machine!LongCuts(m, t, thr) = {m} \cup {x \in m .. (t - thr) : (x - m) % MaxSegment = 0}
      /\ b \in Machine!LongCuts(m, t, thr) /\ \A y \in Machine!LongCuts(m, t, thr) : y <= b
  BY DEF Machine!Greatest, Machine!LongCuts
<1>5. b \in Int /\ m <= b /\ (b = m \/ (b <= t - thr /\ (b - m) % MaxSegment = 0))
  BY <1>3, <1>4
<1>6. t - b < MaxSegment + thr
  <2> SUFFICES ASSUME ~(t - b < MaxSegment + thr) PROVE FALSE
    OBVIOUS
  <2>1. b + MaxSegment <= t - thr
    BY <1>5
  <2>2. (b - m) % MaxSegment = 0
    <3>1. CASE b = m
      <4>1. 0 % MaxSegment = 0
        BY SMTT(60)
      <4>2. b - m = 0
        BY <3>1, <1>3
      <4> QED BY <4>1, <4>2
    <3> QED BY <1>5, <3>1
  <2>3. ((b - m) + MaxSegment) % MaxSegment = 0
    BY <1>3, <1>5, <2>2, StepOver
  <2>4. (b + MaxSegment) - m = (b - m) + MaxSegment
    BY <1>3, <1>5
  <2>5. b + MaxSegment \in Machine!LongCuts(m, t, thr)
    <3>1. b + MaxSegment \in m .. (t - thr)
      BY <1>3, <1>5, <2>1
    <3>2. ((b + MaxSegment) - m) % MaxSegment = 0
      BY <2>3, <2>4
    <3> QED BY <1>4, <3>1, <3>2
  <2> QED BY <1>4, <1>5, <2>5
<1>7. Machine!MidnightCuts(t) \cup Machine!LongCuts(m, t, thr) \in SUBSET Int
  BY <1>1, <1>2, <1>3, <1>4
<1>8. ASSUME NEW x \in Machine!MidnightCuts(t) \cup Machine!LongCuts(m, t, thr), x > openedAt
      PROVE  Machine!IsMidnight(x) \/ x <= t - thr
  BY <1>1, <1>2, <1>3, <1>4, <1>8
<1> QED BY <1>3, <1>5, <1>6, <1>7, <1>8

\* One tick.
LEMMA TickIs ==
  ASSUME openedAt \in Int, NEW thr \in Nat, thr >= 1, NEW t \in Int, NEW since \in Nat,
         NEW lock \in BOOLEAN, NEW frozen \in BOOLEAN, Machine!Tick(thr, t, since, lock, frozen)
  PROVE  /\ Grown
         /\ openedAt' = openedAt \/ openedAt' <= t
         /\ t - openedAt' < MaxSegment + thr
         /\ state' = Machine!Wanted(thr, since, lock, frozen)
         /\ \A s \in emitted' \ emitted :
              \/ Machine!IsMidnight(s.to) \/ s.to <= t - thr
              \/ state' # state /\ s.to = Machine!ChangeAt(thr, t, since, state')
<1> USE HostConstants
<1> DEFINE next == Machine!Wanted(thr, since, lock, frozen)
           at   == Machine!ChangeAt(thr, t, since, next)
<1>1. state' = next
  BY DEF Machine!Tick
<1>2. PICK m \in Machine!Greatest(Machine!MidnightCuts(t)) :
        \E b \in Machine!Greatest(Machine!LongCuts(m, t, thr)) :
          LET cuts == Machine!MidnightCuts(t) \cup Machine!LongCuts(m, t, thr)
              end  == IF next = state THEN b ELSE Machine!Later(at, b)
          IN /\ openedAt' = end
             /\ emitted' = emitted \cup Machine!Pieces(state, openedAt, b, cuts)
                                   \cup Machine!EmitSegment(state, b, end)
  BY DEF Machine!Tick
<1>3. PICK b \in Machine!Greatest(Machine!LongCuts(m, t, thr)) :
          LET cuts == Machine!MidnightCuts(t) \cup Machine!LongCuts(m, t, thr)
              end  == IF next = state THEN b ELSE Machine!Later(at, b)
          IN /\ openedAt' = end
             /\ emitted' = emitted \cup Machine!Pieces(state, openedAt, b, cuts)
                                   \cup Machine!EmitSegment(state, b, end)
  BY <1>2
<1> DEFINE cuts == Machine!MidnightCuts(t) \cup Machine!LongCuts(m, t, thr)
           end  == IF next = state THEN b ELSE Machine!Later(at, b)
<1>4. /\ openedAt' = end
      /\ emitted' = emitted \cup Machine!Pieces(state, openedAt, b, cuts)
                            \cup Machine!EmitSegment(state, b, end)
  BY <1>3
<1>5. /\ m \in Int /\ openedAt <= m /\ (m = openedAt \/ m <= t)
      /\ b \in Int /\ m <= b /\ (b = m \/ b <= t - thr)
      /\ t - b < MaxSegment + thr
      /\ cuts \in SUBSET Int
      /\ \A x \in cuts : x > openedAt => Machine!IsMidnight(x) \/ x <= t - thr
  BY CutsAre
<1>6. b \in cuts
  BY DEF Machine!Greatest
<1>7. at \in Int /\ at <= t
  BY DEF Machine!ChangeAt
<1>8. /\ end \in Int /\ b <= end /\ (end = b \/ (next # state /\ end = at))
  BY <1>5, <1>7 DEF Machine!Later
<1> HIDE DEF cuts, end, at, next
<1>9. \A p \in Machine!Pieces(state, openedAt, b, cuts) :
        /\ p.state = state /\ p.from \in Int /\ p.to \in Int
        /\ openedAt <= p.from /\ p.from < p.to /\ p.to <= b
        /\ p.to \in cuts
  <2>1. openedAt <= b
    BY <1>5
  <2> QED BY <1>5, <1>6, <2>1, PiecesAre
<1>10. \A p \in Machine!EmitSegment(state, b, end) :
        /\ p.state = state /\ p.from \in Int /\ p.to \in Int
        /\ b <= p.from /\ p.from < p.to /\ p.to <= end
        /\ p.to = end \/ Machine!IsMidnight(p.to)
  BY <1>5, <1>8, EmitIs
<1>11. Grown
  <2>1. openedAt <= end
    BY <1>5, <1>8
  <2>2. \A p \in Machine!Pieces(state, openedAt, b, cuts) : p.to <= end
    BY <1>5, <1>8, <1>9
  <2>3. \A p \in Machine!EmitSegment(state, b, end) : openedAt <= p.from
    BY <1>5, <1>10
  <2> QED BY <1>4, <1>8, <1>9, <1>10, <2>1, <2>2, <2>3 DEF Grown
<1>12. openedAt' = openedAt \/ openedAt' <= t
  BY <1>4, <1>5, <1>7, <1>8
<1>13. t - openedAt' < MaxSegment + thr
  BY <1>4, <1>5, <1>8
<1>14. \A s \in emitted' \ emitted :
         \/ Machine!IsMidnight(s.to) \/ s.to <= t - thr
         \/ state' # state /\ s.to = at
  <2> TAKE s \in emitted' \ emitted
  <2>1. CASE s \in Machine!Pieces(state, openedAt, b, cuts)
    <3>1. s.to \in cuts /\ s.to > openedAt
      BY <1>9, <2>1
    <3> QED BY <1>5, <3>1
  <2>2. CASE s \in Machine!EmitSegment(state, b, end)
    <3>1. end # b
      BY <1>10, <2>2, <1>5, <1>8
    <3> QED BY <1>1, <1>8, <1>10, <2>2, <3>1
  <2> QED BY <1>4, <2>1, <2>2
<1> QED BY <1>1, <1>11, <1>12, <1>13, <1>14 DEF at, next

(***************************************************************************)
(* What a crash loses.                                                     *)
(***************************************************************************)
CrashInv == openedAt \in Int /\ CrashLossBounded

LEMMA CrashStep == HostInv /\ CrashInv /\ [Next]_vars => CrashInv'
<1> SUFFICES ASSUME HostInv, CrashInv, [Next]_vars PROVE CrashInv'
  OBVIOUS
<1> USE HostConstants
<1>1. /\ openedAt \in Int /\ (pc = "top" => tNow - openedAt < MaxSegment + threshold)
      /\ now \in Int /\ tNow \in Int /\ lastMono \in Int /\ tSince \in Nat /\ locked \in BOOLEAN
      /\ threshold \in Nat /\ threshold >= 1
  BY ClockIs, ThresholdIs DEF CrashInv, CrashLossBounded, HostInv, ClockInv
<1>2. ASSUME openedAt' \in Int, openedAt <= openedAt', UNCHANGED <<pc, tNow, threshold>> PROVE CrashInv'
  <2>1. PICK k \in Int : openedAt' = k
    BY <1>2
  <2>2. openedAt <= k
    BY <1>2, <2>1
  <2>3. pc = "top" => tNow - k < MaxSegment + threshold
    BY <1>1, <2>2
  <2> QED BY <1>2, <2>1, <2>3 DEF CrashInv, CrashLossBounded
<1>3. ASSUME openedAt' \in Int, pc' # "top" PROVE CrashInv'
  BY <1>3 DEF CrashInv, CrashLossBounded
<1>4. CASE OnPowerSuspend \/ OnPowerResume
  <2>1. UNCHANGED <<pc, tNow, threshold>>
    BY <1>4 DEF OnPowerSuspend, OnPowerResume, trackerVars
  <2>2. UNCHANGED openedAt \/ \E next : Machine!EmitAndReopen(next, now)
    BY <1>4 DEF OnPowerSuspend, OnPowerResume, Machine!OnSuspend, Machine!OnResume, Machine!machineVars
  <2>3. openedAt' \in Int /\ openedAt <= openedAt'
    BY <1>1, <2>2, ReopenIs DEF Grown
  <2> QED BY <1>2, <2>1, <2>3
<1>5. CASE ApplyConfig
  BY <1>1, <1>3, <1>5 DEF ApplyConfig, machineVars
<1>6. CASE Observe
  <2>1. pc' # "top"
    BY <1>6 DEF Observe
  <2>2. UNCHANGED openedAt \/ \E next : Machine!EmitAndReopen(next, lastMono)
    BY <1>6 DEF Observe, SuspendedAt, Machine!OnSuspend, Machine!machineVars, machineVars
  <2>3. openedAt' \in Int
    BY <1>1, <2>2, ReopenIs DEF Grown
  <2> QED BY <1>3, <2>1, <2>3
<1>7. CASE ObserveWake
  <2>1. pc' # "top" /\ Machine!EmitAndReopen("Idle", tNow)
    BY <1>7 DEF ObserveWake, Machine!OnResume
  <2>2. openedAt' \in Int
    BY <1>1, <2>1, ReopenIs DEF Grown
  <2> QED BY <1>3, <2>1, <2>2
<1>8. CASE TrackTick
  <2>1. PICK frozen \in BOOLEAN : Machine!Tick(threshold, tNow, tSince, locked, frozen)
    BY <1>8 DEF TrackTick
  <2>2. openedAt' \in Int /\ tNow - openedAt' < MaxSegment + threshold
    BY <1>1, <2>1, TickIs DEF Grown
  <2>3. UNCHANGED <<tNow, threshold>>
    BY <1>8 DEF TrackTick
  <2> QED BY <2>2, <2>3 DEF CrashInv, CrashLossBounded
<1>9. CASE CloseHost
  <2>1. /\ UNCHANGED <<pc, tNow, threshold>>
        /\ openedAt' = Machine!Later(now, openedAt)
    BY <1>9 DEF CloseHost, LastSegments, Machine!CloseAll, trackerVars
  <2>2. openedAt' \in Int /\ openedAt <= openedAt'
    BY <1>1, <2>1 DEF Machine!Later
  <2> QED BY <1>2, <2>1, <2>2
<1>10. CASE TimePasses \/ UserInput \/ Sleep \/ ReloadConfig \/ OnSessionChange
  <2>1. UNCHANGED <<openedAt, pc, tNow, threshold>>
    BY <1>10 DEF TimePasses, UserInput, Sleep, ReloadConfig, OnSessionChange, machineVars, trackerVars
  <2> QED BY <1>1, <1>2, <2>1
<1>11. CASE ResetDetector \/ CancelHost
  BY <1>1, <1>2, <1>11 DEF ResetDetector, CancelHost, machineVars, trackerVars
<1>12. CASE ReadSample
  BY <1>1, <1>3, <1>12 DEF ReadSample, machineVars
<1>13. CASE UNCHANGED vars
  BY <1>1, <1>2, <1>13 DEF vars, machineVars, trackerVars
<1> QED BY <1>4, <1>5, <1>6, <1>7, <1>8, <1>9, <1>10, <1>11, <1>12, <1>13 DEF Next

(***************************************************************************)
(* A host on its own has been so, and its threshold was the same.          *)
(***************************************************************************)
LEMMA AloneBefore ==
  ASSUME HostInv, [Next]_vars, DetectorAlone'
  PROVE  DetectorAlone /\ UNCHANGED <<site, threshold, host>>
<1>1. site' = site
  BY DEF Next, vars, envVars, clockVars, TimePasses, UserInput, Sleep, ReloadConfig, OnSessionChange,
         OnPowerSuspend, OnPowerResume, ResetDetector, ReadSample, ApplyConfig, Observe, ObserveWake,
         TrackTick, CancelHost, CloseHost
<1>2. host = "running"
  <2>1. host' = "running"
    BY DEF DetectorAlone
  <2> QED BY <2>1 DEF Next, vars, TimePasses, UserInput, Sleep, ReloadConfig, OnSessionChange,
         OnPowerSuspend, OnPowerResume, ResetDetector, ReadSample, ApplyConfig, Observe, ObserveWake,
         TrackTick, CancelHost, CloseHost
<1>3. threshold' = threshold
  <2>1. threshold \in site.thresholds /\ site.thresholds = {threshold'}
    BY <1>1 DEF HostInv, SiteInv, DetectorAlone
  <2> QED BY <2>1
<1> QED BY <1>1, <1>2, <1>3 DEF DetectorAlone

\* What happens to the machine then: a look, a waking or a tick calls it, nothing else.
LEMMA AloneSteps ==
  ASSUME HostInv, [Next]_vars, DetectorAlone, DetectorAlone', pump = "ready", resumeDue = FALSE
  PROVE  /\ \/ TimePasses \/ UserInput \/ Sleep \/ ReloadConfig \/ OnSessionChange \/ ReadSample
            \/ ApplyConfig \/ Observe \/ ObserveWake \/ TrackTick \/ UNCHANGED vars
         /\ TimePasses \/ UserInput \/ Sleep \/ ReloadConfig \/ OnSessionChange \/ ReadSample \/ ApplyConfig
              => UNCHANGED <<state, openedAt, emitted>>
<1>1. host' = "running" /\ ~site.notified
  BY DEF DetectorAlone
<1>2. ~OnPowerSuspend /\ ~OnPowerResume /\ ~ResetDetector /\ ~CancelHost /\ ~CloseHost
  BY <1>1 DEF OnPowerSuspend, OnPowerResume, ResetDetector, CancelHost, CloseHost
<1>3. ApplyConfig => UNCHANGED machineVars
  <2>1. pending \in NoNewThreshold
    BY DEF HostInv, SiteInv, DetectorAlone, NoNewThreshold
  <2> QED BY <2>1 DEF ApplyConfig
<1>4. TimePasses \/ UserInput \/ Sleep \/ ReloadConfig \/ OnSessionChange \/ ReadSample => UNCHANGED machineVars
  BY DEF TimePasses, UserInput, Sleep, ReloadConfig, OnSessionChange, ReadSample
<1> QED BY <1>2, <1>3, <1>4 DEF Next, machineVars

(***************************************************************************)
(* What the tracker notices.                                               *)
(***************************************************************************)
\* Nothing the detector depends on changes, but that time passes.
LEMMA NothingSeen ==
  ASSUME HostInv, openedAt \in Int, AloneInv, now' \in Int, now <= now',
         UNCHANGED <<pump, resumeDue, state, openedAt, emitted, pc, tNow, primed, lastMono, slept>>
  PROVE  AloneInv'
<1>1. now \in Int
  BY ClockIs
<1>2. AloneTypes'
  <2>1. \A z \in slept : z.to \in Int /\ z.to <= now
    BY DEF AloneInv, AloneTypes
  <2>2. PICK k \in Int : now' = k
    OBVIOUS
  <2>3. \A z \in slept : z.to <= k
    BY <1>1, <2>1, <2>2
  <2> QED BY <2>2, <2>3 DEF AloneInv, AloneTypes
<1> QED BY <1>2 DEF AloneInv, LookInv, Noticed, Awake

LEMMA SleepSeen == ASSUME HostInv, openedAt \in Int, AloneInv, Sleep, DetectorAlone PROVE AloneInv'
<1> USE HostConstants
<1>1. PICK until \in (now + GapTolerance + 1) .. MaxTime :
        /\ slept' = slept \cup {[from |-> now, to |-> until, armed |-> primed, announced |-> announced]}
        /\ now' = until /\ resumeDue' \in {FALSE, site.notified}
  BY DEF Sleep
<1>2. UNCHANGED <<pump, state, openedAt, emitted, pc, tNow, primed, lastMono>>
  BY DEF Sleep, machineVars, trackerVars, detectorVars
<1>3. /\ now \in Int /\ tNow \in Int /\ tNow <= now /\ until \in Int /\ until - now > GapTolerance /\ now <= until
      /\ openedAt <= tNow
      /\ \A s \in emitted : s.from \in Int /\ s.to \in Int /\ s.from < s.to /\ s.to <= openedAt
      /\ \A z \in slept : z.from \in Int /\ z.to \in Int /\ z.to - z.from > GapTolerance /\ z.to <= now
      /\ pump = "ready"
  BY <1>1, ClockIs DEF AloneInv, AloneTypes
<1> DEFINE new == [from |-> now, to |-> until, armed |-> primed, announced |-> announced]
<1>4. new.from = now /\ new.to = until /\ new.armed = primed
  OBVIOUS
<1>5. slept' = slept \cup {new}
  BY <1>1
<1> HIDE DEF new
<1>6. AloneTypes'
  <2>1. resumeDue' = FALSE
    <3>1. site.notified = FALSE
      BY SiteAssumption DEF DetectorAlone, HostInv, SiteInv
    <3> QED BY <1>1, <3>1
  <2>2. \A z \in slept : z.to <= until
    BY <1>3
  <2>3. \A z \in slept' : z.from \in Int /\ z.to \in Int /\ z.to - z.from > GapTolerance /\ z.to <= until
    BY <1>3, <1>4, <1>5, <2>2
  <2> QED BY <1>1, <1>2, <1>3, <2>1, <2>3 DEF AloneTypes
<1>7. LookInv'
  BY <1>2 DEF AloneInv, LookInv
<1>8. \A z \in slept' : z.armed => primed' /\ Noticed(z)'
  <2>1. \A z \in slept : z.armed => primed /\ Noticed(z)
    BY DEF AloneInv
  <2>2. new.armed => primed /\ Noticed(new)
    BY <1>3, <1>4 DEF Noticed
  <2> QED BY <1>2, <1>5, <2>1, <2>2 DEF Noticed
<1>9. \A s \in emitted', z \in slept' : s.state = "Active" /\ z.armed => Awake(s, z)
  <2>1. \A s \in emitted : s.to <= new.from
    BY <1>3, <1>4
  <2> QED BY <1>2, <1>5, <2>1 DEF AloneInv, Awake
<1> QED BY <1>6, <1>7, <1>8, <1>9 DEF AloneInv, Awake

LEMMA SampleSeen == ASSUME HostInv, openedAt \in Int, AloneInv, ReadSample PROVE AloneInv'
<1>1. /\ pc = "top" /\ pc' = "config" /\ tNow' = now
      /\ UNCHANGED <<pump, resumeDue, state, openedAt, emitted, primed, lastMono, slept, now>>
  BY DEF ReadSample, machineVars, detectorVars, pumpVars, envVars, clockVars
<1>2. now \in Int /\ tNow \in Int /\ tNow <= now /\ openedAt <= tNow /\ (primed => lastMono = tNow)
  BY <1>1, ClockIs DEF AloneInv, AloneTypes, LookInv
<1>3. openedAt <= now
  BY <1>2
<1>4. AloneTypes' /\ LookInv'
  BY <1>1, <1>2, <1>3 DEF AloneInv, AloneTypes, LookInv
<1>5. \A z \in slept : z.armed => primed /\ (z.from >= tNow \/ z.to <= openedAt) /\ z.to <= now
  BY <1>1 DEF AloneInv, AloneTypes, Noticed
<1>6. \A z \in slept : z.armed => primed /\ (lastMono <= z.from \/ z.to <= openedAt) /\ z.to <= now
  BY <1>2, <1>5 DEF AloneInv, AloneTypes
<1>7. \A z \in slept' : z.armed => primed' /\ Noticed(z)'
  BY <1>1, <1>6 DEF Noticed
<1> QED BY <1>1, <1>4, <1>7 DEF AloneInv, Awake

LEMMA ConfigSeen ==
  ASSUME HostInv, openedAt \in Int, AloneInv, ApplyConfig, UNCHANGED <<state, openedAt, emitted>>
  PROVE  AloneInv'
<1>1. /\ pc = "config" /\ pc' = "observe"
      /\ UNCHANGED <<pump, resumeDue, primed, lastMono, slept, now, tNow>>
  BY DEF ApplyConfig, detectorVars, pumpVars, envVars, clockVars
<1> QED BY <1>1 DEF AloneInv, AloneTypes, LookInv, Noticed, Awake

\* A look that sees the gap closes the segment at the look before.
LEMMA GapSeen ==
  ASSUME HostInv, openedAt \in Int, AloneInv, Observe, primed, tNow - lastMono > GapTolerance
  PROVE  AloneInv' /\ state' = "Locked"
<1>1. /\ pc = "observe" /\ pc' = "woken" /\ primed' = TRUE /\ lastMono' = tNow
      /\ Machine!OnSuspend(lastMono)
      /\ UNCHANGED <<pump, resumeDue, slept, now, tNow>>
  BY DEF Observe, SuspendedAt, pumpVars, envVars, clockVars
<1>2. /\ now \in Int /\ tNow \in Int /\ lastMono \in Int /\ lastMono <= tNow /\ openedAt <= lastMono
  BY <1>1, ClockIs DEF AloneInv, LookInv
<1>3. /\ state' = "Locked" /\ openedAt' \in Int /\ openedAt <= openedAt' /\ openedAt' <= lastMono
      /\ \A s \in emitted' \ emitted : /\ s.state = state /\ s.from \in Int /\ s.to \in Int
                                       /\ openedAt <= s.from /\ s.from < s.to /\ s.to <= openedAt'
  <2>1. CASE state = "Locked"
    <3>1. UNCHANGED <<state, openedAt, emitted>>
      BY <1>1, <2>1 DEF Machine!OnSuspend, Machine!machineVars
    <3> QED BY <1>2, <2>1, <3>1
  <2>2. CASE state # "Locked"
    <3>1. Machine!EmitAndReopen("Locked", lastMono)
      BY <1>1, <2>2 DEF Machine!OnSuspend
    <3>2. Grown /\ state' = "Locked" /\ openedAt' = Machine!Later(lastMono, openedAt)
      BY <1>2, <3>1, ReopenIs
    <3>3. openedAt' <= lastMono
      BY <1>2, <3>2 DEF Machine!Later
    <3> QED BY <3>2, <3>3 DEF Grown
  <2> QED BY <2>1, <2>2
<1>4. \A s \in emitted' : /\ s.from \in Int /\ s.to \in Int /\ s.from < s.to /\ s.to <= openedAt'
                          /\ s \in emitted \/ (openedAt <= s.from /\ s.to <= lastMono)
  <2>1. PICK k \in Int : openedAt' = k
    BY <1>3
  <2>2. openedAt <= k /\ k <= lastMono
    BY <1>3, <2>1
  <2>3. \A s \in emitted : s.from \in Int /\ s.to \in Int /\ s.from < s.to /\ s.to <= openedAt
    BY DEF AloneInv, AloneTypes
  <2>4. \A s \in emitted' \ emitted : /\ s.from \in Int /\ s.to \in Int
                                      /\ openedAt <= s.from /\ s.from < s.to /\ s.to <= k
    BY <1>3, <2>1
  <2> QED BY <1>2, <2>1, <2>2, <2>3, <2>4
<1>5. openedAt' <= tNow
  BY <1>2, <1>3
<1>6. AloneTypes'
  BY <1>1, <1>4, <1>5 DEF AloneInv, AloneTypes
<1>7. LookInv'
  BY <1>1, <1>3 DEF LookInv
<1>8. \A z \in slept : z.armed => \/ z.from >= tNow
                                  \/ z.to <= openedAt
                                  \/ lastMono <= z.from /\ z.to <= tNow
  BY <1>1 DEF AloneInv, Noticed
<1>9. \A z \in slept' : z.armed => primed' /\ Noticed(z)'
  <2>1. \A z \in slept : z.from \in Int /\ z.to \in Int
    BY DEF AloneInv, AloneTypes
  <2>2. \A z \in slept : z.to <= openedAt => z.to <= tNow
    BY <1>2, <2>1
  <2> QED BY <1>1, <1>8, <2>2 DEF Noticed
<1>10. \A s \in emitted', z \in slept' : s.state = "Active" /\ z.armed => Awake(s, z)
  <2> SUFFICES ASSUME NEW s \in emitted', NEW z \in slept', s.state = "Active", z.armed PROVE Awake(s, z)
    OBVIOUS
  <2>1. z.from \in Int /\ z.to \in Int /\ z \in slept
    BY <1>1 DEF AloneInv, AloneTypes
  <2>2. CASE s \in emitted
    BY <2>1, <2>2 DEF AloneInv
  <2>3. CASE openedAt <= s.from /\ s.to <= lastMono
    <3>1. z.from >= tNow \/ z.to <= openedAt \/ lastMono <= z.from
      BY <1>8, <2>1
    <3>2. s.from \in Int /\ s.to \in Int
      BY <1>4
    <3> QED BY <1>2, <2>1, <2>3, <3>1, <3>2 DEF Awake
  <2> QED BY <1>4, <2>2, <2>3
<1> QED BY <1>3, <1>6, <1>7, <1>9, <1>10 DEF AloneInv, Awake

\* A look that sees none: no sleep hides between the two looks.
LEMMA NoGapSeen ==
  ASSUME HostInv, openedAt \in Int, AloneInv, Observe, ~(primed /\ tNow - lastMono > GapTolerance)
  PROVE  AloneInv' /\ UNCHANGED <<state, openedAt, emitted>>
<1> USE HostConstants
<1>1. /\ pc = "observe" /\ pc' = "tick" /\ primed' = TRUE /\ lastMono' = tNow
      /\ UNCHANGED <<pump, resumeDue, slept, now, tNow, state, openedAt, emitted>>
  BY DEF Observe, pumpVars, envVars, clockVars, machineVars
<1>2. AloneTypes' /\ LookInv'
  BY <1>1 DEF AloneInv, AloneTypes, LookInv
<1>3. \A z \in slept : z.armed => z.from >= tNow \/ z.to <= openedAt
  <2> SUFFICES ASSUME NEW z \in slept, z.armed, lastMono <= z.from, z.to <= tNow PROVE FALSE
    BY <1>1 DEF AloneInv, Noticed
  <2>1. primed /\ z.from \in Int /\ z.to \in Int /\ z.to - z.from > GapTolerance /\ tNow \in Int /\ lastMono \in Int
    BY ClockIs DEF AloneInv, AloneTypes
  <2>2. tNow - lastMono > GapTolerance
    BY <2>1
  <2> QED BY <2>1, <2>2
<1>4. \A z \in slept' : z.armed => primed' /\ Noticed(z)'
  BY <1>1, <1>3 DEF Noticed
<1> QED BY <1>1, <1>2, <1>4 DEF AloneInv, Awake

LEMMA WakeSeen == ASSUME HostInv, openedAt \in Int, AloneInv, ObserveWake PROVE AloneInv' /\ state' = "Idle"
<1>1. /\ pc = "woken" /\ pc' = "tick" /\ Machine!EmitAndReopen("Idle", tNow)
      /\ UNCHANGED <<pump, resumeDue, slept, now, tNow, primed, lastMono>>
  BY DEF ObserveWake, Machine!OnResume, detectorVars, pumpVars, envVars, clockVars
<1>2. tNow \in Int /\ openedAt <= tNow /\ state # "Active" /\ primed
  BY <1>1, ClockIs DEF AloneInv, AloneTypes, LookInv
<1>3. Grown /\ state' = "Idle" /\ openedAt' = tNow
  <2>1. Grown /\ state' = "Idle" /\ openedAt' = Machine!Later(tNow, openedAt)
    BY <1>1, <1>2, ReopenIs
  <2> QED BY <1>2, <2>1 DEF Machine!Later
<1>4. \A s \in emitted' : /\ s.from \in Int /\ s.to \in Int /\ s.from < s.to /\ s.to <= openedAt'
                          /\ s \in emitted \/ s.state # "Active"
  <2>1. \A s \in emitted : s.from \in Int /\ s.to \in Int /\ s.from < s.to /\ s.to <= tNow
    BY <1>2 DEF AloneInv, AloneTypes
  <2> QED BY <1>2, <1>3, <2>1 DEF Grown
<1>5. AloneTypes' /\ LookInv'
  BY <1>1, <1>3, <1>4, <1>2 DEF AloneInv, AloneTypes, LookInv
<1>6. \A z \in slept : z.armed => z.from >= tNow \/ z.to <= tNow
  <2>1. \A z \in slept : z.to \in Int
    BY DEF AloneInv, AloneTypes
  <2>2. \A z \in slept : z.to <= openedAt => z.to <= tNow
    BY <1>2, <2>1
  <2> QED BY <1>1, <2>2 DEF AloneInv, Noticed
<1>7. \A z \in slept' : z.armed => primed' /\ Noticed(z)'
  BY <1>1, <1>2, <1>3, <1>6 DEF Noticed
<1> QED BY <1>1, <1>3, <1>4, <1>5, <1>7 DEF AloneInv, Awake

LEMMA TickSeen == ASSUME HostInv, openedAt \in Int, AloneInv, TrackTick PROVE AloneInv'
<1>1. /\ pc = "tick" /\ pc' = "top"
      /\ UNCHANGED <<pump, resumeDue, slept, now, tNow, primed, lastMono>>
  BY DEF TrackTick, detectorVars, pumpVars, clockVars
<1>2. tNow \in Int /\ openedAt <= tNow /\ primed /\ lastMono = tNow
  BY <1>1, ClockIs DEF AloneInv, AloneTypes, LookInv
<1>3. Grown /\ openedAt' <= tNow
  <2>1. PICK frozen \in BOOLEAN : Machine!Tick(threshold, tNow, tSince, locked, frozen)
    BY DEF TrackTick
  <2>2. locked \in BOOLEAN /\ tSince \in Nat
    BY ClockIs DEF HostInv, ClockInv
  <2>3. Grown /\ (openedAt' = openedAt \/ openedAt' <= tNow)
    BY <1>2, <2>1, <2>2, ThresholdIs, TickIs
  <2> QED BY <1>2, <2>3
<1>4. \A s \in emitted' : /\ s.from \in Int /\ s.to \in Int /\ s.from < s.to /\ s.to <= openedAt'
                          /\ s \in emitted \/ (openedAt <= s.from /\ s.to <= tNow)
  <2>1. PICK k \in Int : openedAt' = k
    BY <1>3 DEF Grown
  <2>2. openedAt <= k /\ k <= tNow
    BY <1>3, <2>1 DEF Grown
  <2>3. \A s \in emitted : s.from \in Int /\ s.to \in Int /\ s.from < s.to /\ s.to <= openedAt
    BY DEF AloneInv, AloneTypes
  <2>4. \A s \in emitted' \ emitted : /\ s.from \in Int /\ s.to \in Int
                                      /\ openedAt <= s.from /\ s.from < s.to /\ s.to <= k
    BY <1>3, <2>1 DEF Grown
  <2> QED BY <1>2, <2>1, <2>2, <2>3, <2>4
<1>5. AloneTypes' /\ LookInv'
  BY <1>1, <1>2, <1>3, <1>4 DEF AloneInv, AloneTypes, LookInv
<1>6. \A z \in slept : z.armed => z.from >= tNow \/ z.to <= openedAt
  BY <1>1 DEF AloneInv, Noticed
<1>7. \A z \in slept' : z.armed => primed' /\ Noticed(z)'
  <2>1. PICK k \in Int : openedAt' = k
    BY <1>3 DEF Grown
  <2>2. openedAt <= k
    BY <1>3, <2>1 DEF Grown
  <2>3. \A z \in slept : z.to \in Int
    BY DEF AloneInv, AloneTypes
  <2>4. \A z \in slept : z.armed => z.from >= tNow \/ z.to <= k
    BY <1>6, <2>2, <2>3
  <2> QED BY <1>1, <1>2, <2>1, <2>4 DEF Noticed
<1>8. \A s \in emitted', z \in slept' : s.state = "Active" /\ z.armed => Awake(s, z)
  <2> SUFFICES ASSUME NEW s \in emitted', NEW z \in slept', s.state = "Active", z.armed PROVE Awake(s, z)
    OBVIOUS
  <2>1. z.from \in Int /\ z.to \in Int /\ z \in slept
    BY <1>1 DEF AloneInv, AloneTypes
  <2>2. CASE s \in emitted
    BY <2>1, <2>2 DEF AloneInv
  <2>3. CASE openedAt <= s.from /\ s.to <= tNow
    <3>1. z.from >= tNow \/ z.to <= openedAt
      BY <1>6, <2>1
    <3>2. s.from \in Int /\ s.to \in Int
      BY <1>4
    <3> QED BY <1>2, <2>1, <2>3, <3>1, <3>2 DEF Awake
  <2> QED BY <1>4, <2>2, <2>3
<1> QED BY <1>5, <1>7, <1>8 DEF AloneInv, Awake

LEMMA SleepStep == HostInv /\ CrashInv /\ SleepInv /\ [Next]_vars => SleepInv'
<1> SUFFICES ASSUME HostInv, CrashInv, SleepInv, [Next]_vars, DetectorAlone' PROVE AloneInv'
  BY DEF SleepInv
<1>1. DetectorAlone /\ AloneInv /\ openedAt \in Int /\ now \in Int
  BY AloneBefore, ClockIs DEF SleepInv, CrashInv
<1>2. /\ \/ TimePasses \/ UserInput \/ Sleep \/ ReloadConfig \/ OnSessionChange \/ ReadSample
         \/ ApplyConfig \/ Observe \/ ObserveWake \/ TrackTick \/ UNCHANGED vars
      /\ TimePasses \/ UserInput \/ Sleep \/ ReloadConfig \/ OnSessionChange \/ ReadSample \/ ApplyConfig
           => UNCHANGED <<state, openedAt, emitted>>
  BY <1>1, AloneSteps DEF AloneInv, AloneTypes
<1>3. CASE TimePasses
  <2>1. /\ UNCHANGED <<pump, resumeDue, state, openedAt, emitted, pc, tNow, primed, lastMono, slept>>
        /\ now' = now + 1
    BY <1>2, <1>3 DEF TimePasses, trackerVars, detectorVars
  <2> QED BY <1>1, <2>1, NothingSeen
<1>4. CASE UserInput \/ ReloadConfig \/ OnSessionChange \/ UNCHANGED vars
  <2>1. UNCHANGED <<pump, resumeDue, state, openedAt, emitted, pc, tNow, primed, lastMono, slept, now>>
    BY <1>4 DEF UserInput, ReloadConfig, OnSessionChange, vars, machineVars, trackerVars, detectorVars, pumpVars,
                envVars, clockVars
  <2> QED BY <1>1, <2>1, NothingSeen
<1>5. CASE Observe
  BY <1>1, <1>5, GapSeen, NoGapSeen
<1> QED BY <1>1, <1>2, <1>3, <1>4, <1>5, SleepSeen, SampleSeen, ConfigSeen, WakeSeen, TickSeen

(***************************************************************************)
(* What the splits have sent off when the user is found idle.              *)
(***************************************************************************)
LEMMA WorkTypes ==
  ASSUME HostInv, AloneInv
  PROVE  /\ \A s \in emitted : s.from \in Int /\ s.to \in Int /\ s.from < s.to
         /\ \A z \in slept : z.from \in Int /\ z.to \in Int /\ z.to - z.from > GapTolerance /\ z.to <= now
BY DEF AloneInv, AloneTypes

\* Who is not at work, or only starts, has sent nothing off.
LEMMA NothingSent ==
  ASSUME AloneInv', openedAt' \in Int, state' # state, stretch' = openedAt' PROVE Sent'
<1>1. \A s \in emitted' : s.from \in Int /\ s.to \in Int /\ s.from < s.to /\ s.to <= openedAt'
  BY DEF AloneInv, AloneTypes
<1>2. \A s \in emitted' : ~(s.from >= openedAt')
  BY <1>1
<1> QED BY <1>2 DEF Sent

\* The last input known of only moves on.
LEMMA SentStays ==
  ASSUME HostInv, AloneInv, Sent, UNCHANGED <<emitted, stretch>>,
         KnownInput \in Int, KnownInput' \in Int, KnownInput <= KnownInput'
  PROVE  Sent'
<1>1. PICK k \in Int : KnownInput' = k
  OBVIOUS
<1>2. KnownInput <= k
  BY <1>1
<1>3. \A s \in emitted : s.state = "Active" /\ s.from >= stretch => s.to <= k \/ Machine!IsMidnight(s.to)
  <2>1. \A s \in emitted : s.to \in Int /\ (s.to <= KnownInput => s.to <= k)
    BY <1>2, WorkTypes
  <2> QED BY <2>1 DEF Sent
<1> QED BY <1>1, <1>3 DEF Sent, Machine!IsMidnight

LEMMA TimeWork ==
  ASSUME HostInv, AloneInv, WorkInv, TimePasses, DetectorAlone, UNCHANGED <<state, emitted, stretch>>
  PROVE  WorkInv'
<1> USE HostConstants
<1>1. /\ now - tNow < Cadence /\ now' = now + 1
      /\ UNCHANGED <<pc, tNow, tSince, primed, lastMono, lastInput, slept, threshold>>
  BY DEF TimePasses, DetectorAlone, trackerVars, detectorVars
<1>2. now \in Int /\ tNow \in Int
  BY ClockIs
<1>3. (now + 1) - tNow <= Cadence
  BY <1>1, <1>2
<1>4. OnTime'
  <2>1. now' - tNow' <= Cadence
    BY <1>1, <1>3
  <2> QED BY <1>1, <2>1 DEF OnTime
<1> QED BY <1>1, <1>4 DEF WorkInv, Young, Sent, KnownInput, Machine!IsMidnight

LEMMA InputWork ==
  ASSUME HostInv, AloneInv, WorkInv, UserInput, UNCHANGED <<state, emitted, stretch>>
  PROVE  WorkInv'
<1>1. /\ lastInput' = now
      /\ UNCHANGED <<now, pc, tNow, tSince, primed, lastMono, slept, threshold>>
  BY DEF UserInput, trackerVars, detectorVars
<1>2. now \in Int /\ tNow \in Int /\ tNow <= now /\ lastInput \in Int /\ lastInput <= now /\ tSince \in Int
      /\ threshold \in Nat /\ threshold >= 1
  BY ClockIs, ThresholdIs
<1>3. OnTime'
  BY <1>1 DEF WorkInv, OnTime
<1>4. pc # "top" => tNow - tSince <= now
  BY <1>2 DEF WorkInv
<1>5. Young => Young'
  <2>1. tNow - now < threshold
    BY <1>2
  <2> QED BY <1>1, <2>1 DEF Young
<1>6. Sent => Sent'
  <2>1. /\ KnownInput \in Int /\ KnownInput' \in Int /\ KnownInput <= KnownInput'
    BY <1>1, <1>2 DEF KnownInput
  <2> QED BY <2>1, SentStays
<1> QED BY <1>1, <1>3, <1>4, <1>5, <1>6 DEF WorkInv

LEMMA SleepWork ==
  ASSUME HostInv, AloneInv, WorkInv, Sleep, UNCHANGED <<state, emitted, stretch>>
  PROVE  WorkInv'
<1>1. /\ \E z \in slept' : z.from = now
      /\ UNCHANGED <<pc, tNow, tSince, primed, lastMono, lastInput, threshold>>
  <2>1. PICK until \in (now + GapTolerance + 1) .. MaxTime :
          slept' = slept \cup {[from |-> now, to |-> until, armed |-> primed, announced |-> announced]}
    BY DEF Sleep
  <2>2. UNCHANGED <<pc, tNow, tSince, primed, lastMono, lastInput, threshold>>
    BY DEF Sleep, trackerVars, detectorVars
  <2> DEFINE new == [from |-> now, to |-> until, armed |-> primed, announced |-> announced]
  <2>3. new \in slept' /\ new.from = now
    BY <2>1
  <2> QED BY <2>2, <2>3
<1>2. now \in Int /\ tNow \in Int /\ tNow <= now
  BY ClockIs
<1>3. OnTime'
  BY <1>1, <1>2 DEF OnTime
<1> QED BY <1>1, <1>3 DEF WorkInv, Young, Sent, KnownInput, Machine!IsMidnight

LEMMA SampleWork ==
  ASSUME HostInv, AloneInv, AllArmed, WorkInv, ReadSample, UNCHANGED <<state, emitted, stretch>>
  PROVE  WorkInv'
<1> USE HostConstants
<1>1. /\ pc = "top" /\ pc' = "config" /\ tNow' = now /\ tSince' = now - lastInput
      /\ UNCHANGED <<now, primed, lastMono, lastInput, slept, threshold>>
  BY DEF ReadSample, detectorVars, envVars, clockVars
<1>2. now \in Int /\ tNow \in Int /\ lastInput \in Int /\ lastMono \in Int /\ threshold \in Int
  BY ClockIs, ThresholdIs
<1>3. OnTime'
  <2>1. now - now <= Cadence
    BY <1>2
  <2> QED BY <1>1, <2>1 DEF OnTime
<1>4. tNow' - tSince' = lastInput
  BY <1>1, <1>2
<1>5. Young => Young'
  <2>1. ASSUME tNow - lastInput < threshold
        PROVE  now - lastInput < threshold + Cadence \/ (primed /\ now - lastMono > GapTolerance)
    <3>1. CASE now - tNow <= Cadence
      BY <1>2, <2>1, <3>1
    <3>2. CASE \E z \in slept : z.from >= tNow
      <4>1. PICK z \in slept : z.from >= tNow
        BY <3>2
      <4>2. primed /\ lastMono = tNow
        BY <1>1, <4>1 DEF AllArmed, AloneInv, LookInv
      <4>3. z.from \in Int /\ z.to \in Int /\ z.to - z.from > GapTolerance /\ z.to <= now
        BY WorkTypes
      <4>4. now - lastMono > GapTolerance
        BY <1>2, <4>1, <4>2, <4>3
      <4> QED BY <4>2, <4>4
    <3> QED BY <3>1, <3>2 DEF WorkInv, OnTime
  <2> QED BY <1>1, <2>1 DEF Young
<1>6. Sent => Sent'
  <2>1. KnownInput \in Int /\ KnownInput' = KnownInput
    BY <1>1, <1>2, <1>4 DEF KnownInput
  <2> QED BY <1>2, <2>1, SentStays
<1> QED BY <1>1, <1>2, <1>3, <1>4, <1>5, <1>6 DEF WorkInv

LEMMA TickWork ==
  ASSUME HostInv, CrashInv, AloneInv, AloneInv', WorkInv, TrackTick,
         stretch' = IF state' = state THEN stretch ELSE openedAt'
  PROVE  WorkInv'
<1> USE HostConstants
<1>1. /\ pc = "tick" /\ pc' = "top"
      /\ UNCHANGED <<now, tNow, tSince, lastInput, slept, threshold>>
  BY DEF TrackTick, clockVars
<1>2. /\ tNow \in Int /\ lastInput \in Int /\ tSince \in Nat /\ threshold \in Nat /\ threshold >= 1
      /\ locked \in BOOLEAN /\ openedAt \in Int
  BY ClockIs, ThresholdIs DEF HostInv, ClockInv, CrashInv
<1>3. PICK frozen \in BOOLEAN : Machine!Tick(threshold, tNow, tSince, locked, frozen)
  BY DEF TrackTick
<1>4. /\ openedAt' \in Int
      /\ state' = Machine!Wanted(threshold, tSince, locked, frozen)
      /\ \A s \in emitted' \ emitted :
           \/ Machine!IsMidnight(s.to) \/ s.to <= tNow - threshold
           \/ state' # state
  <2>1. Grown
    BY <1>2, <1>3, TickIs
  <2>2. state' = Machine!Wanted(threshold, tSince, locked, frozen)
    BY <1>3 DEF Machine!Tick
  <2>3. \A s \in emitted' \ emitted :
          \/ Machine!IsMidnight(s.to) \/ s.to <= tNow - threshold
          \/ state' # state /\ s.to = Machine!ChangeAt(threshold, tNow, tSince, state')
    BY <1>2, <1>3, TickIs
  <2> QED BY <2>1, <2>2, <2>3 DEF Grown
<1>5. OnTime'
  BY <1>1 DEF WorkInv, OnTime
<1>6. tNow - tSince <= lastInput
  BY <1>1 DEF WorkInv
<1>7. ASSUME state' = "Active" PROVE Young' /\ Sent'
  <2>1. tSince < threshold
    BY <1>2, <1>4, <1>7 DEF Machine!Wanted
  <2>2. tNow - lastInput < threshold
    BY <1>2, <1>6, <2>1
  <2>3. Young'
    <3>1. tNow' - lastInput' < threshold'
      BY <1>1, <2>2
    <3>2. pc' = "top"
      BY <1>1
    <3> QED BY <3>1, <3>2 DEF Young
  <2>4. CASE state' # state
    <3>1. stretch' = openedAt' /\ openedAt' \in Int
      BY <1>4, <2>4
    <3>2. Sent'
      BY <2>4, <3>1, NothingSent
    <3> QED BY <2>3, <3>2
  <2>5. CASE state' = state
    <3>1. stretch' = stretch /\ Sent /\ KnownInput = tNow - tSince /\ KnownInput' = lastInput
      BY <1>1, <1>7, <2>5 DEF WorkInv, KnownInput
    <3>2. \A s \in emitted : s.state = "Active" /\ s.from >= stretch =>
            s.to <= lastInput \/ Machine!IsMidnight(s.to)
      <4>1. \A s \in emitted : s.to \in Int /\ (s.to <= tNow - tSince => s.to <= lastInput)
        BY <1>2, <1>6, WorkTypes
      <4> QED BY <3>1, <4>1 DEF Sent
    <3>3. \A s \in emitted' \ emitted : s.to <= lastInput \/ Machine!IsMidnight(s.to)
      <4>1. \A s \in emitted' : s.to \in Int
        BY DEF AloneInv, AloneTypes
      <4> QED BY <1>2, <1>4, <1>6, <2>1, <2>5, <4>1
    <3>4. \A s \in emitted' : s.state = "Active" /\ s.from >= stretch' =>
            s.to <= KnownInput' \/ Machine!IsMidnight(s.to)
      BY <3>1, <3>2, <3>3
    <3> QED BY <2>3, <3>4 DEF Sent, Machine!IsMidnight
  <2> QED BY <2>3, <2>4, <2>5
<1> QED BY <1>1, <1>5, <1>7 DEF WorkInv

LEMMA RetroStep == HostInv /\ CrashInv /\ SleepInv /\ SleepInv' /\ RetroInv /\ [Next]_vars => RetroInv'
<1> SUFFICES ASSUME HostInv, CrashInv, SleepInv, SleepInv', RetroInv, [Next]_vars, DetectorAlone', AllArmed'
             PROVE  WorkInv'
  BY DEF RetroInv
<1>1. DetectorAlone /\ AloneInv /\ AloneInv' /\ UNCHANGED <<threshold, site>>
  BY AloneBefore DEF SleepInv
<1>2. /\ \/ TimePasses \/ UserInput \/ Sleep \/ ReloadConfig \/ OnSessionChange \/ ReadSample
         \/ ApplyConfig \/ Observe \/ ObserveWake \/ TrackTick \/ UNCHANGED vars
      /\ TimePasses \/ UserInput \/ Sleep \/ ReloadConfig \/ OnSessionChange \/ ReadSample \/ ApplyConfig
           => UNCHANGED <<state, openedAt, emitted>>
  BY <1>1, AloneSteps DEF AloneInv, AloneTypes
<1>3. stretch' = IF state' = state THEN stretch ELSE openedAt'
  BY DEF Next, vars, machineVars
<1>4. AllArmed
  <2>1. slept \subseteq slept'
    BY <1>2 DEF TimePasses, UserInput, Sleep, ReloadConfig, OnSessionChange, ReadSample, ApplyConfig, Observe,
                ObserveWake, TrackTick, vars, envVars, clockVars
  <2> QED BY <2>1 DEF AllArmed
<1>5. WorkInv
  BY <1>1, <1>4 DEF RetroInv
<1>6. CASE TimePasses \/ UserInput \/ Sleep \/ ReadSample
  <2>1. UNCHANGED <<state, emitted, stretch>>
    BY <1>2, <1>3, <1>6
  <2> QED BY <1>1, <1>4, <1>5, <1>6, <2>1, TimeWork, InputWork, SleepWork, SampleWork
<1>7. CASE ReloadConfig \/ OnSessionChange \/ UNCHANGED vars
  <2>1. UNCHANGED <<state, emitted, stretch, now, lastInput, slept, pc, tNow, tSince, primed, lastMono, threshold>>
    BY <1>2, <1>3, <1>7 DEF ReloadConfig, OnSessionChange, vars, machineVars, trackerVars, detectorVars,
                            envVars, clockVars
  <2> QED BY <1>5, <2>1 DEF WorkInv, OnTime, Young, Sent, KnownInput, Machine!IsMidnight
<1>8. CASE ApplyConfig
  <2>1. /\ UNCHANGED <<state, emitted, stretch, now, lastInput, slept, tNow, tSince, primed, lastMono, threshold>>
        /\ pc = "config" /\ pc' = "observe"
    BY <1>1, <1>2, <1>3, <1>8 DEF ApplyConfig, detectorVars, envVars, clockVars
  <2> QED BY <1>5, <2>1 DEF WorkInv, OnTime, Young, Sent, KnownInput, Machine!IsMidnight
<1>9. CASE Observe
  <2>1. /\ UNCHANGED <<now, lastInput, slept, tNow, tSince, threshold>>
        /\ pc = "observe" /\ pc' \in {"woken", "tick"}
    BY <1>9 DEF Observe, envVars, clockVars
  <2>2. OnTime' /\ (pc' # "top" => tNow' - tSince' <= lastInput')
    BY <1>5, <2>1 DEF WorkInv, OnTime
  <2>3. CASE primed /\ tNow - lastMono > GapTolerance
    <3>1. state' = "Locked"
      BY <1>1, <1>9, <2>3, GapSeen DEF CrashInv
    <3> QED BY <2>2, <3>1 DEF WorkInv
  <2>4. CASE ~(primed /\ tNow - lastMono > GapTolerance)
    <3>1. UNCHANGED <<state, emitted, stretch>> /\ pc' = "tick"
      BY <1>1, <1>3, <1>9, <2>4, NoGapSeen DEF CrashInv, Observe
    <3> QED BY <1>5, <2>1, <2>2, <2>4, <3>1 DEF WorkInv, Young, Sent, KnownInput, Machine!IsMidnight
  <2> QED BY <2>3, <2>4
<1>10. CASE ObserveWake
  <2>1. /\ UNCHANGED <<now, lastInput, slept, tNow, tSince, threshold>>
        /\ pc = "woken" /\ pc' = "tick"
    BY <1>10 DEF ObserveWake, envVars, clockVars
  <2>2. state' = "Idle"
    BY <1>1, <1>10, WakeSeen DEF CrashInv
  <2> QED BY <1>5, <2>1, <2>2 DEF WorkInv, OnTime
<1>11. CASE TrackTick
  BY <1>1, <1>3, <1>5, <1>11, TickWork
<1> QED BY <1>2, <1>6, <1>7, <1>8, <1>9, <1>10, <1>11

\* The step that finds the user idle.
RetroFound ==
  FoundIdle /\ DetectorAlone /\ (\A z \in slept : z.armed) =>
    \A s \in emitted' : s.state = "Active" /\ s.from >= stretch =>
      s.to <= tNow - tSince + Cadence \/ Machine!IsMidnight(s.to)

LEMMA RetroHolds == HostInv /\ CrashInv /\ SleepInv /\ RetroInv /\ [Next]_vars => RetroFound
<1> SUFFICES ASSUME HostInv, CrashInv, SleepInv, RetroInv, [Next]_vars, FoundIdle, DetectorAlone, AllArmed,
                    NEW s \in emitted', s.state = "Active", s.from >= stretch
             PROVE  s.to <= tNow - tSince + Cadence \/ Machine!IsMidnight(s.to)
  BY DEF RetroFound, AllArmed
<1> USE HostConstants
<1>1. AloneInv /\ WorkInv
  BY DEF SleepInv, RetroInv
<1>2. pc = "tick" /\ pc' = "top" /\ state = "Active" /\ state' = "Idle" /\ tSince >= threshold
  BY DEF FoundIdle
<1>3. TrackTick
  BY <1>2 DEF Next, vars, trackerVars, TimePasses, UserInput, Sleep, ReloadConfig, OnSessionChange,
         OnPowerSuspend, OnPowerResume, ResetDetector, ReadSample, ApplyConfig, Observe, ObserveWake,
         CancelHost, CloseHost
<1>4. /\ tNow \in Int /\ tSince \in Nat /\ threshold \in Nat /\ threshold >= 1
      /\ locked \in BOOLEAN /\ openedAt \in Int
  BY ClockIs, ThresholdIs DEF HostInv, ClockInv, CrashInv
<1>5. PICK frozen \in BOOLEAN : Machine!Tick(threshold, tNow, tSince, locked, frozen)
  BY <1>3 DEF TrackTick
<1>6. tSince < threshold + Cadence /\ Sent /\ KnownInput = tNow - tSince
  BY <1>1, <1>2 DEF WorkInv, Young, KnownInput
<1>7. CASE s \in emitted
  <2>1. s.to \in Int
    BY <1>1, <1>7, WorkTypes
  <2>2. s.to <= tNow - tSince \/ Machine!IsMidnight(s.to)
    BY <1>6, <1>7 DEF Sent
  <2> QED BY <1>4, <2>1, <2>2
<1>8. CASE s \notin emitted
  <2>1. s.to \in Int
    BY <1>4, <1>5, <1>8, TickIs DEF Grown
  <2>2. \/ Machine!IsMidnight(s.to) \/ s.to <= tNow - threshold
        \/ s.to = Machine!ChangeAt(threshold, tNow, tSince, state')
    BY <1>4, <1>5, <1>8, TickIs
  <2>3. Machine!ChangeAt(threshold, tNow, tSince, state') = tNow - threshold
    BY <1>2 DEF Machine!ChangeAt
  <2> QED BY <1>4, <1>6, <2>1, <2>2, <2>3
<1> QED BY <1>7, <1>8

LEMMA AloneStart == Init => CrashInv /\ SleepInv /\ RetroInv
<1> SUFFICES ASSUME Init PROVE CrashInv /\ SleepInv /\ RetroInv
  OBVIOUS
<1> USE HostConstants
<1>1. /\ openedAt = 0 /\ emitted = {} /\ slept = {} /\ now = 0 /\ lastInput = 0 /\ tNow = 0 /\ tSince = 0
      /\ pc = "top" /\ primed = FALSE /\ lastMono = 0 /\ pump = "ready" /\ resumeDue = FALSE
  BY DEF Init, Machine!Init
<1>2. threshold \in Nat /\ threshold >= 1
  BY InitHost, ThresholdIs
<1>3. CrashInv
  <2>1. 0 - 0 < MaxSegment + threshold
    BY <1>2
  <2> QED BY <1>1, <2>1 DEF CrashInv, CrashLossBounded
<1>4. AloneInv
  <2>1. AloneTypes
    BY <1>1 DEF AloneTypes
  <2>2. LookInv
    BY <1>1 DEF LookInv
  <2> QED BY <1>1, <2>1, <2>2 DEF AloneInv
<1>5. WorkInv
  BY <1>1, <1>2 DEF WorkInv, OnTime, Young, Sent
<1> QED BY <1>3, <1>4, <1>5 DEF SleepInv, RetroInv

\* G3 without a notification, for any sites, clocks and interleavings of the threads: once
\* primed, the gap in the tracker's own clock is enough (SleepGapDetector.cs:77).
THEOREM SleepsNoticed == Spec => []DetectorSuffices
<1>1. SleepInv => DetectorSuffices
  BY DEF SleepInv, AloneInv, DetectorSuffices
<1> QED BY <1>1, InitHost, HostInvHolds, AloneStart, CrashStep, SleepStep, PTL DEF Spec

\* The two splits (IdleStateMachine.cs:124-166), for any lengths, thresholds and clocks: a
\* crash after an iteration loses less than the longest segment and the threshold together,
\* and what a split has sent off of this stretch of work is no idle time found later.
THEOREM SplitsAreSafe == Spec => CutsAreSafe
<1>1. CrashInv => CrashLossBounded
  BY DEF CrashInv
<1>2. HostInv /\ CrashInv /\ SleepInv /\ RetroInv /\ [Next]_vars => [RetroFound]_vars
  BY RetroHolds
<1>3. Spec => []CrashLossBounded /\ [][RetroFound]_vars
  BY <1>1, <1>2, HostInvHolds, AloneStart, CrashStep, SleepStep, RetroStep, PTL DEF Spec
<1> QED BY <1>3 DEF CutsAreSafe, RetroAdjusted, RetroFound

-----------------------------------------------------------------------------
\* The watchdog.

DogStates == {"gone", "starting", "locked", "beating", "frozen", "leaving"}
Ladders   == [failures : 0..GiveUpAfter + 1, since : 0..CoolOff,
              steady : Never..StabilityWindow, alarm : BOOLEAN]
Beats     == [pid : Pid \cup {NoPid}, age : Newer..StaleAfter + 1]
Acts      == {"nothing", "look", "clear", "give up", "probe", "start"}
Ticks     == [do : Acts] \cup [do : {"read"}, held : BOOLEAN]
             \cup [do : {"kill"}, pid : Pid, was : DogStates \ {"gone"}, newer : BOOLEAN, recalled : BOOLEAN]

\* The processes: one agent holds the lock.
HolderInv ==
  /\ proc \in [Pid -> DogStates] /\ holder \in Pid \cup {NoPid}
  /\ \A p \in Pid : proc[p] \in {"locked", "beating", "frozen"} => holder = p

\* An agent that beats has a new beat in the file, if there is a file.
BeatInv ==
  /\ beat \in Beats /\ lastGood \in Beats
  /\ \A p \in Pid : proc[p] = "beating" => beat = NoBeat \/ (beat.pid = p /\ beat.age \in {Newer, 0})

\* What the watchdog is about to do was right when it looked.
TickInv ==
  /\ tick \in Ticks
  /\ tick.do = "kill" => tick.was # "beating" \/ tick.newer \/ tick.recalled

\* Beyond the ladder there is the alarm, and the watchdog believes it is on disk.
LadderInv ==
  /\ ladder \in Ladders /\ alarmFile \in BOOLEAN /\ onDisk \in BOOLEAN
  /\ ladder.alarm => onDisk /\ tick.do # "clear"
  /\ ladder.failures > GiveUpAfter => ladder.alarm
  /\ tick.do \in {"kill", "probe", "start"} /\ Exhausted => ladder.alarm

\* The ladder's steady time is no longer than the row of healthy looks, unless the PC
\* slept or a look was blind.
SteadyInv ==
  /\ streak \in Gapped..StabilityWindow + 1 /\ calm \in BOOLEAN
  /\ ladder.steady # Never =>
       streak = Gapped \/ streak >= ladder.steady + (IF Looking THEN 0 ELSE 1)

WatchInv == HolderInv /\ BeatInv /\ TickInv /\ LadderInv /\ SteadyInv

\* The records the watchdog passes from its look to its act.
LEMMA TickShapes ==
  /\ Resting \in Ticks /\ Resting.do = "nothing"
  /\ \A d \in Acts : [do |-> d] \in Ticks /\ [do |-> d].do = d
  /\ \A h \in BOOLEAN : LET read == [do |-> "read", held |-> h] IN read \in Ticks /\ read.do = "read"
  /\ \A p \in Pid, w \in DogStates \ {"gone"}, n, r \in BOOLEAN :
       LET kill == [do |-> "kill", pid |-> p, was |-> w, newer |-> n, recalled |-> r]
       IN  /\ kill \in Ticks /\ kill.do = "kill" /\ kill.was = w
           /\ kill.newer = n /\ kill.recalled = r
<1>1. Resting \in Ticks /\ Resting.do = "nothing"
  BY DEF Ticks, Acts, Resting
<1>2. \A d \in Acts : [do |-> d] \in Ticks /\ [do |-> d].do = d
  BY DEF Ticks
<1>3. \A h \in BOOLEAN : [do |-> "read", held |-> h] \in Ticks
  BY DEF Ticks
<1>4. ASSUME NEW p \in Pid, NEW w \in DogStates \ {"gone"}, NEW n \in BOOLEAN, NEW r \in BOOLEAN
      PROVE  [do |-> "kill", pid |-> p, was |-> w, newer |-> n, recalled |-> r] \in Ticks
  BY DEF Ticks
<1> QED
  BY <1>1, <1>2, <1>3, <1>4

LEMMA InitWatch == WatchInit => WatchInv
<1> SUFFICES ASSUME WatchInit PROVE WatchInv
  OBVIOUS
<1> USE WatchdogAssumption DEF WatchInit
<1>1. HolderInv
  BY DEF HolderInv, DogStates
<1>2. BeatInv
  <2>1. beat \in Beats /\ lastGood \in Beats
    BY DEF Beats, NoBeat, Newer
  <2> QED
    BY <2>1 DEF BeatInv
<1>3. TickInv
  BY TickShapes DEF TickInv
<1>4. LadderInv
  <2>1. NewLadder \in Ladders
    BY DEF Ladders, NewLadder, Never
  <2>2. ladder = NewLadder /\ NewLadder.failures = 0 /\ ~NewLadder.alarm /\ ~(NewLadder.failures >= GiveUpAfter)
    BY DEF NewLadder
  <2>3. alarmFile \in BOOLEAN /\ onDisk \in BOOLEAN /\ tick.do = "nothing"
    BY TickShapes
  <2>4. ~(NewLadder.failures > GiveUpAfter)
    BY <2>2
  <2> QED
    BY ONLY <2>1, <2>2, <2>3, <2>4 DEF LadderInv, Exhausted
<1>5. SteadyInv
  <2>1. ladder.steady = Never
    BY DEF NewLadder
  <2>2. streak \in Gapped..StabilityWindow + 1
    BY DEF Gapped
  <2>3. calm \in BOOLEAN
    OBVIOUS
  <2> QED
    BY ONLY <2>1, <2>2, <2>3 DEF SteadyInv
<1> QED
  BY <1>1, <1>2, <1>3, <1>4, <1>5 DEF WatchInv

LEMMA HolderStep == HolderInv /\ TickInv /\ [WatchNext]_watchVars => HolderInv'
<1> SUFFICES ASSUME HolderInv, TickInv, [WatchNext]_watchVars PROVE HolderInv'
  OBVIOUS
<1> USE WatchdogAssumption DEF HolderInv, DogStates
<1>1. CASE Kill
  BY <1>1 DEF Kill, TickInv, Ticks
<1>2. CASE StartAgent
  BY <1>2 DEF StartAgent
<1>3. ASSUME NEW p \in Pid, Comes(p) \/ Agent(p) PROVE HolderInv'
  BY <1>3 DEF Comes, Agent, Acquire, FirstBeat, DeleteBeat, UserStarts, BeatsOn, Freeze, Thaw, Crash, Quit, Become
<1>4. CASE LockFreed
  BY <1>4 DEF LockFreed
<1>5. CASE UNCHANGED <<proc, holder>>
  BY <1>5
<1> QED
  BY <1>1, <1>2, <1>3, <1>4, <1>5 DEF WatchNext, Tick, ProbeLock, Blind, Look, Clear, GiveUp, Probe,
     WatchdogRestarts, Period, PcSleeps, CalmDown, watchVars, worldVars

LEMMA BeatStep == HolderInv /\ BeatInv /\ TickInv /\ [WatchNext]_watchVars => BeatInv'
<1> SUFFICES ASSUME HolderInv, BeatInv, TickInv, [WatchNext]_watchVars PROVE BeatInv'
  OBVIOUS
<1> USE WatchdogAssumption DEF HolderInv, BeatInv, DogStates
<1>a. ASSUME NEW b \in Beats PROVE Older(b) \in Beats
  BY DEF Older, Beats, NoBeat, Smallest, Newer
<1>b. ReadBeat \in Beats /\ NoBeat \in Beats
  BY DEF ReadBeat, NoBeat, Beats, Newer
<1>c. \A p \in Pid : \A a \in {Newer, 0} :
        LET b == [pid |-> p, age |-> a] IN b \in Beats /\ b.pid = p /\ b.age = a
  BY DEF Beats, Newer
<1>1. CASE Blind \/ Look
  <2>1. lastGood' \in {ReadBeat, lastGood} /\ UNCHANGED worldVars
    BY <1>1 DEF Blind, Look, Decide
  <2> QED
    BY <2>1, <1>b DEF worldVars
<1>2. CASE Kill
  BY <1>2 DEF Kill, TickInv, Ticks, Acts
<1>3. CASE StartAgent
  BY <1>3 DEF StartAgent
<1>4. ASSUME NEW p \in Pid, Comes(p) \/ Agent(p) PROVE BeatInv'
  <2>1. CASE Acquire(p) \/ UserStarts(p) \/ Freeze(p) \/ Crash(p) \/ Quit(p)
    BY <2>1 DEF Acquire, UserStarts, Freeze, Crash, Quit, Become, dogVars
  <2>2. CASE FirstBeat(p) \/ Thaw(p) \/ BeatsOn(p)
    <3>1. PICK a \in {Newer, 0} : beat' = [pid |-> p, age |-> a]
      BY <2>2 DEF FirstBeat, Thaw, BeatsOn, NewBeat
    <3>2. /\ proc[p] \in {"locked", "frozen", "beating"} /\ lastGood' = lastGood
          /\ proc' \in {proc, [proc EXCEPT ![p] = "beating"]}
      BY <2>2 DEF FirstBeat, Thaw, BeatsOn, Become, dogVars
    <3>3. \A q \in Pid : proc'[q] = "beating" => q = p
      BY <3>2
    <3> QED
      BY <3>1, <3>2, <3>3, <1>c
  <2>3. CASE DeleteBeat(p)
    <3>1. beat' = NoBeat /\ lastGood' = lastGood
      BY <2>3 DEF DeleteBeat, dogVars
    <3> QED
      BY <3>1, <1>b
  <2> QED
    BY <1>4, <2>1, <2>2, <2>3 DEF Comes, Agent
<1>5. CASE Period
  <2>1. proc' = proc /\ lastGood' = Older(lastGood)
    BY <1>5 DEF Period
  <2>2. CASE holder # NoPid /\ proc[holder] = "beating"
    <3>1. beat' = [pid |-> holder, age |-> 0] /\ holder \in Pid
      BY <1>5, <2>2 DEF Period
    <3>2. \A q \in Pid : proc[q] = "beating" => q = holder
      BY <2>2
    <3> QED
      BY <2>1, <3>1, <3>2, <1>a, <1>c
  <2>3. CASE ~(holder # NoPid /\ proc[holder] = "beating")
    <3>1. beat' = Older(beat)
      BY <1>5, <2>3 DEF Period
    <3>2. \A q \in Pid : proc[q] # "beating"
      BY <2>3
    <3> QED
      BY <2>1, <3>1, <3>2, <1>a
  <2> QED
    BY <2>2, <2>3
<1>6. CASE WatchdogRestarts
  BY <1>6, <1>b DEF WatchdogRestarts, worldVars
<1>7. CASE UNCHANGED <<proc, beat, lastGood>>
  BY <1>7
<1> QED
  BY <1>1, <1>2, <1>3, <1>4, <1>5, <1>6, <1>7 DEF WatchNext, Tick, ProbeLock, Clear, GiveUp, Probe, LockFreed,
     PcSleeps, CalmDown, watchVars, worldVars, dogVars

\* An agent that beats is taken for a wedged one only by a beat newer than the clock, or
\* by one that was not read from the file.
LEMMA WedgedNotBeating ==
  ASSUME HolderInv, BeatInv, NEW b \in Beats, Health(b) = "wedged", b = beat \/ b = lastGood
  PROVE  /\ b.pid \in Pid /\ proc[b.pid] \in DogStates \ {"gone"}
         /\ b = beat /\ b # NoBeat /\ proc[b.pid] = "beating" => b.age = Newer
<1>1. ~Fresh(b) /\ Alive(b.pid)
  BY DEF Health
<1>2. b.pid \in Pid
  BY <1>1 DEF Alive, Beats
<1>3. ASSUME b = beat, b # NoBeat, proc[b.pid] = "beating", b.age # Newer PROVE FALSE
  <2>1. b.age = 0
    BY <1>2, <1>3 DEF BeatInv
  <2> QED
    BY <2>1, <1>1, <1>2, WatchdogAssumption DEF Fresh
<1> QED
  BY <1>1, <1>2, <1>3 DEF HolderInv, Alive

LEMMA TickStep == HolderInv /\ BeatInv /\ TickInv /\ [WatchNext]_watchVars => TickInv'
<1> SUFFICES ASSUME HolderInv, BeatInv, TickInv, [WatchNext]_watchVars PROVE TickInv'
  OBVIOUS
<1> USE TickShapes DEF TickInv
<1>0. ASSUME tick' = Resting \/ \E d \in Acts : tick' = [do |-> d] PROVE TickInv'
  <2>1. PICK d \in Acts : tick' = [do |-> d]
    BY <1>0 DEF Acts, Resting
  <2>2. tick' \in Ticks /\ tick'.do = d /\ d # "kill"
    BY <2>1 DEF Acts
  <2> QED
    BY <2>2
<1>a. "give up" \in Acts /\ "start" \in Acts /\ "clear" \in Acts /\ "look" \in Acts
  BY DEF Acts
<1>1. ASSUME NEW b \in Beats, NEW recalled \in BOOLEAN, Decide(b, recalled), b = beat \/ b = lastGood,
             (b = beat /\ b # NoBeat) \/ recalled
      PROVE  TickInv'
  <2>1. CASE Health(b) = "wedged" /\ tick' = [do |-> "kill", pid |-> b.pid, was |-> proc[b.pid],
                                              newer |-> b.age = Newer, recalled |-> recalled]
    <3>1. /\ b.pid \in Pid /\ proc[b.pid] \in DogStates \ {"gone"}
          /\ proc[b.pid] # "beating" \/ b.age = Newer \/ recalled
      BY <1>1, <2>1, WedgedNotBeating
    <3>2. (b.age = Newer) \in BOOLEAN
      OBVIOUS
    <3>3. tick' \in Ticks /\ (tick'.was # "beating" \/ tick'.newer \/ tick'.recalled)
      BY <2>1, <3>1, <3>2
    <3> QED
      BY <3>3
  <2> QED
    BY <1>0, <1>1, <1>a, <2>1 DEF Decide
<1>2. CASE Look
  <2>1. beat \in Beats /\ lastGood \in Beats
    BY DEF BeatInv
  <2>2. CASE Decide(lastGood, TRUE)
    BY <1>1, <2>1, <2>2
  <2>3. CASE Decide(ReadBeat, beat = NoBeat)
    <3>1. (beat = NoBeat) \in BOOLEAN
      OBVIOUS
    <3>2. \/ ReadBeat = beat /\ beat # NoBeat
          \/ ReadBeat = lastGood /\ beat = NoBeat
      BY DEF ReadBeat
    <3> QED
      BY <1>1, <2>1, <2>3, <3>1, <3>2
  <2> QED
    BY <1>2, <2>2, <2>3 DEF Look
<1>3. CASE ProbeLock
  <2>1. (holder # NoPid) \in BOOLEAN
    OBVIOUS
  <2>2. tick' = [do |-> "read", held |-> holder # NoPid]
    BY <1>3 DEF ProbeLock
  <2>3. tick' \in Ticks /\ tick'.do = "read"
    BY <2>1, <2>2
  <2> QED
    BY <2>3
<1>4. CASE Blind \/ Clear \/ GiveUp \/ Kill \/ Probe \/ StartAgent \/ WatchdogRestarts \/ Period
  <2>1. tick' = Resting \/ tick' = [do |-> "probe"] \/ tick' = [do |-> "start"] \/ tick' = [do |-> "look"]
        \/ tick' = tick
    BY <1>4 DEF Blind, Clear, GiveUp, Kill, Probe, StartAgent, WatchdogRestarts, Period
  <2> QED
    BY <1>0, <2>1 DEF Acts
<1>5. ASSUME NEW p \in Pid, Comes(p) \/ Agent(p) PROVE TickInv'
  BY <1>5 DEF Comes, Agent, Acquire, FirstBeat, DeleteBeat, UserStarts, BeatsOn, Freeze, Thaw, Crash, Quit, dogVars
<1>6. CASE LockFreed \/ PcSleeps \/ CalmDown \/ UNCHANGED watchVars
  BY <1>6 DEF LockFreed, PcSleeps, CalmDown, watchVars, dogVars
<1> QED
  BY <1>2, <1>3, <1>4, <1>5, <1>6 DEF WatchNext, Tick

\* The ladder's own steps, field by field.
LEMMA LadderFields ==
  ASSUME ladder \in Ladders
  PROVE  /\ ladder.failures \in 0..GiveUpAfter + 1 /\ ladder.since \in 0..CoolOff
         /\ ladder.steady \in Never..StabilityWindow /\ ladder.alarm \in BOOLEAN
         /\ \A t : [ladder EXCEPT !.alarm = t] =
              [failures |-> ladder.failures, since |-> ladder.since, steady |-> ladder.steady, alarm |-> t]
         /\ \A n : [ladder EXCEPT !.steady = n] =
              [failures |-> ladder.failures, since |-> ladder.since, steady |-> n, alarm |-> ladder.alarm]
BY DEF Ladders

LEMMA LadderTyped ==
  ASSUME ladder \in Ladders, NEW n \in Nat
  PROVE  RecordLaunch \in Ladders /\ Aged(ladder, n) \in Ladders /\ NewLadder \in Ladders
<1> USE WatchdogAssumption, LadderFields
<1>1. RecordLaunch \in Ladders
  BY DEF RecordLaunch, Ladders, Smallest, Never
<1>2. Aged(ladder, n) \in Ladders
  <2> DEFINE since == Smallest(ladder.since + n, CoolOff)
             steady == IF ladder.steady = Never THEN Never ELSE Smallest(ladder.steady + n, StabilityWindow)
  <2>1. since \in 0..CoolOff
    BY DEF Smallest
  <2>2. steady \in Never..StabilityWindow
    BY DEF Smallest, Never
  <2>3. Aged(ladder, n) = [failures |-> ladder.failures, since |-> since, steady |-> steady,
                           alarm |-> ladder.alarm]
    BY DEF Aged
  <2> HIDE DEF since, steady
  <2> QED
    BY <2>1, <2>2, <2>3 DEF Ladders
<1>3. NewLadder \in Ladders
  BY DEF Ladders, NewLadder, Never
<1> QED
  BY <1>1, <1>2, <1>3

\* Only a whole steady window takes launches back.
LEMMA ObservedKeeps ==
  ASSUME ladder \in Ladders, NEW healthy \in BOOLEAN
  PROVE  /\ Observed(healthy) \in Ladders
         /\ \/ /\ Observed(healthy) = NewLadder /\ healthy
               /\ ladder.steady >= StabilityWindow
            \/ /\ Observed(healthy).failures = ladder.failures
               /\ Observed(healthy).alarm = ladder.alarm
               /\ Observed(healthy).steady = IF ~healthy THEN Never
                                             ELSE IF ladder.steady = Never THEN 0 ELSE ladder.steady
<1> USE WatchdogAssumption, LadderFields
<1> DEFINE steady == IF ladder.steady = Never THEN 0 ELSE ladder.steady
           Same(n) == [failures |-> ladder.failures, since |-> ladder.since, steady |-> n,
                       alarm |-> ladder.alarm]
<1>1. steady \in Never..StabilityWindow /\ (steady >= StabilityWindow => ladder.steady >= StabilityWindow)
  BY DEF Never
<1>2. Observed(healthy) = IF ~healthy THEN Same(Never)
                          ELSE IF steady >= StabilityWindow THEN NewLadder ELSE Same(steady)
  BY DEF Observed
<1>3. \A n \in Never..StabilityWindow : Same(n) \in Ladders
  BY DEF Ladders
<1>4. NewLadder \in Ladders /\ Never \in Never..StabilityWindow
  BY DEF Ladders, NewLadder, Never
<1>5. \A n : Same(n).failures = ladder.failures /\ Same(n).alarm = ladder.alarm /\ Same(n).steady = n
  OBVIOUS
<1> HIDE DEF Same
<1>6. CASE ~healthy
  BY <1>2, <1>3, <1>4, <1>5, <1>6
<1>7. CASE healthy /\ steady >= StabilityWindow
  BY <1>1, <1>2, <1>4, <1>7
<1>8. CASE healthy /\ ~(steady >= StabilityWindow)
  <2>1. Observed(healthy) = Same(steady)
    BY <1>2, <1>8
  <2> QED
    BY <2>1, <1>1, <1>3, <1>5, <1>8
<1> QED
  BY <1>6, <1>7, <1>8

LEMMA LadderStep == TickInv /\ LadderInv /\ [WatchNext]_watchVars => LadderInv'
<1> SUFFICES ASSUME TickInv, LadderInv, [WatchNext]_watchVars PROVE LadderInv'
  OBVIOUS
<1> USE WatchdogAssumption DEF LadderInv, Exhausted
<1>b. ladder \in Ladders
  OBVIOUS
<1>c. NewLadder.failures = 0 /\ NewLadder.alarm = FALSE
  BY DEF NewLadder
<1>d. /\ RecordLaunch.failures = Smallest(ladder.failures + 1, GiveUpAfter + 1)
      /\ RecordLaunch.alarm = ladder.alarm
      /\ \A n : Aged(ladder, n).failures = ladder.failures /\ Aged(ladder, n).alarm = ladder.alarm
  BY DEF RecordLaunch, Aged
<1>f. ladder.failures \in 0..GiveUpAfter + 1 /\ ladder.alarm \in BOOLEAN
  BY <1>b, LadderFields
<1>g. CoolOff + StabilityWindow \in Nat /\ 1 \in Nat
  OBVIOUS
<1>h. Resting.do = "nothing"
  BY TickShapes
<1>1. CASE Look
  <2>0. PICK b, recalled : Decide(b, recalled) /\ alarmFile' = alarmFile /\ onDisk' = onDisk
    BY <1>1 DEF Look
  <2> DEFINE healthy == Health(b) = "healthy"
  <2>a. healthy \in BOOLEAN
    OBVIOUS
  <2>1. ladder' = Observed(healthy) /\ ladder' \in Ladders
    BY <2>0, <2>a, <1>b, ObservedKeeps DEF Decide
  <2>2. \/ ladder' = NewLadder /\ healthy
        \/ ladder'.failures = ladder.failures /\ ladder'.alarm = ladder.alarm
    BY <2>1, <2>a, <1>b, ObservedKeeps
  <2>3. /\ alarmFile' = alarmFile /\ onDisk' = onDisk
        /\ tick'.do = "clear" => ~ladder'.alarm
        /\ tick'.do \in {"kill", "probe", "start"} => ~healthy /\ ~(Exhausted /\ ~ladder.alarm)
    BY <2>0 DEF Decide, Resting
  <2> QED
    BY <2>1, <2>2, <2>3, <1>c, <1>f
<1>2. CASE Blind \/ Clear
  <2>1. ladder' = ladder /\ tick' = Resting /\ alarmFile' \in BOOLEAN
    BY <1>2 DEF Blind, Clear
  <2>2. onDisk' = onDisk \/ ~ladder.alarm
    BY <1>2 DEF Blind, Clear
  <2>3. onDisk' \in BOOLEAN
    BY <1>2 DEF Blind, Clear
  <2> QED
    BY <2>1, <2>2, <2>3, <1>h
<1>3. CASE GiveUp
  <2>1. ladder' \in Ladders /\ ladder'.alarm /\ ladder'.failures = ladder.failures
    BY <1>3, <1>b, LadderFields DEF GiveUp, Ladders
  <2> QED
    BY <1>3, <2>1 DEF GiveUp, Resting
<1>4. CASE Kill \/ Probe \/ StartAgent
  <2>1. CASE ladder' = ladder
    BY <1>4, <2>1 DEF Kill, Probe, StartAgent, Resting
  <2>2. CASE ladder' = RecordLaunch /\ tick' = Resting
    BY <1>4, <2>2, <1>b, <1>d, <1>f, <1>g, LadderTyped DEF Kill, Probe, StartAgent, Resting, Smallest
  <2> QED
    BY <1>4, <2>1, <2>2 DEF Kill, Probe, StartAgent
<1>5. CASE WatchdogRestarts
  BY <1>5, <1>b, <1>c, <1>g, LadderTyped DEF WatchdogRestarts, Resting
<1>6. CASE Period \/ PcSleeps
  <2>1. ladder' \in Ladders /\ ladder'.failures = ladder.failures /\ ladder'.alarm = ladder.alarm
    BY <1>6, <1>b, <1>d, <1>g, LadderTyped DEF Period, PcSleeps
  <2> QED
    BY <1>6, <2>1 DEF Period, PcSleeps, Resting
<1>7. CASE ProbeLock
  <2>1. tick' = [do |-> "read", held |-> holder # NoPid] /\ UNCHANGED <<ladder, alarmFile, onDisk>>
    BY <1>7 DEF ProbeLock
  <2>2. tick'.do = "read"
    BY <2>1
  <2> QED
    BY <2>1, <2>2
<1>8. CASE UNCHANGED dogVars
  BY <1>8 DEF dogVars
<1> QED
  BY <1>1, <1>2, <1>3, <1>4, <1>5, <1>6, <1>7, <1>8 DEF WatchNext, Tick, Comes, Agent, Acquire, FirstBeat,
     DeleteBeat, UserStarts, BeatsOn, Freeze, Thaw, Crash, Quit, LockFreed, CalmDown, watchVars

LEMMA SteadyStep == LadderInv /\ SteadyInv /\ TickInv /\ [WatchNext]_watchVars => SteadyInv'
<1> SUFFICES ASSUME LadderInv, SteadyInv, TickInv, [WatchNext]_watchVars PROVE SteadyInv'
  OBVIOUS
<1> USE WatchdogAssumption DEF SteadyInv
<1>b. ladder \in Ladders
  BY DEF LadderInv
<1>c. ladder.steady \in Never..StabilityWindow
  BY <1>b DEF Ladders
<1>h. Resting.do = "nothing" /\ [do |-> "look"].do = "look" /\ [do |-> "start"].do = "start"
      /\ [do |-> "probe"].do = "probe"
  BY DEF Resting
<1>l. /\ Looking = (tick.do \in {"look", "read"}) /\ Looking' = (tick'.do \in {"look", "read"})
  BY DEF Looking
<1>1. CASE Look
  <2>0. PICK b, recalled : Decide(b, recalled) /\ tick.do = "read" /\ calm' = calm
    BY <1>1 DEF Look, worldVars
  <2> DEFINE healthy == Health(b) = "healthy"
  <2>a. healthy \in BOOLEAN
    OBVIOUS
  <2>1. /\ ladder' = Observed(healthy)
        /\ streak' = IF ~healthy THEN 0
                     ELSE IF streak = Gapped THEN Gapped ELSE Smallest(streak + 1, StabilityWindow + 1)
    BY <2>0 DEF Decide
  <2>2. ~Looking'
    <3>1. tick' = Resting \/ tick'.do \in {"clear", "give up", "kill", "start"}
      BY <2>0 DEF Decide
    <3> QED
      BY <3>1, <1>h, <1>l
  <2>3. \/ ladder'.steady = Never
        \/ healthy /\ ladder'.steady = IF ladder.steady = Never THEN 0 ELSE ladder.steady
    <3>1. NewLadder.steady = Never
      BY DEF NewLadder
    <3> QED
      BY <2>1, <3>1, <2>a, <1>b, ObservedKeeps
  <2> HIDE DEF healthy
  <2> QED
    BY <2>0, <2>1, <2>2, <2>3, <1>c, <1>l DEF Smallest, Never, Gapped
<1>2. CASE Blind \/ Clear \/ PcSleeps
  <2>1. CASE Blind \/ PcSleeps
    BY <2>1 DEF Blind, PcSleeps, worldVars, Gapped
  <2>2. CASE Clear
    BY <2>2, <1>h, <1>l DEF Clear, worldVars
  <2> QED
    BY <1>2, <2>1, <2>2
<1>3. CASE GiveUp
  <2>1. ladder'.steady = ladder.steady
    <3>1. [ladder EXCEPT !.alarm = TRUE].steady = ladder.steady
      BY <1>b DEF Ladders
    <3> QED
      BY <1>3, <3>1 DEF GiveUp
  <2> QED
    BY <1>3, <2>1, <1>h, <1>l DEF GiveUp, worldVars
<1>4. CASE Kill \/ Probe \/ StartAgent
  <2>1. RecordLaunch.steady = Never
    BY DEF RecordLaunch
  <2>2. CASE Kill
    BY <2>1, <2>2, <1>h, <1>l DEF Kill
  <2>3. CASE Probe
    <3>1. ~Looking' /\ ~Looking
      BY <2>3, <1>h, <1>l DEF Probe
    <3> QED
      BY <2>3, <3>1 DEF Probe, worldVars
  <2>4. CASE StartAgent
    <3>1. ladder'.steady = Never /\ streak' = 0
      BY <2>1, <2>4 DEF StartAgent
    <3>2. calm' \in BOOLEAN
      BY <2>4 DEF StartAgent
    <3> QED
      BY <3>1, <3>2 DEF Gapped
  <2> QED
    BY <1>4, <2>2, <2>3, <2>4
<1>5. CASE WatchdogRestarts
  <2>1. NewLadder.steady = Never
    BY DEF NewLadder
  <2>2. ladder'.steady = Never /\ streak' = 0
    BY <2>1, <1>5 DEF WatchdogRestarts
  <2>3. calm' \in BOOLEAN
    BY <1>5 DEF WatchdogRestarts, worldVars
  <2> QED
    BY <2>2, <2>3 DEF Gapped
<1>6. CASE Period
  <2>1. ladder'.steady = IF ladder.steady = Never THEN Never
                         ELSE Smallest(ladder.steady + 1, StabilityWindow)
    BY <1>6 DEF Period, Aged
  <2>2. ~Looking /\ Looking' /\ streak' = streak /\ calm' = calm
    BY <1>6, <1>h, <1>l DEF Period
  <2> QED
    BY <2>1, <2>2, <1>c DEF Smallest, Never, Gapped
<1>7. CASE ProbeLock
  <2>1. tick' = [do |-> "read", held |-> holder # NoPid] /\ tick.do = "look"
        /\ UNCHANGED <<ladder, streak, calm>>
    BY <1>7 DEF ProbeLock, worldVars
  <2>2. Looking /\ Looking'
    BY <2>1, <1>l
  <2> QED
    BY <2>1, <2>2
<1>8. CASE UNCHANGED dogVars /\ calm' \in BOOLEAN
  BY <1>8, <1>l DEF dogVars
<1> QED
  BY <1>1, <1>2, <1>3, <1>4, <1>5, <1>6, <1>7, <1>8 DEF WatchNext, Tick, Comes, Agent, Acquire, FirstBeat,
     DeleteBeat, UserStarts, BeatsOn, Freeze, Thaw, Crash, Quit, LockFreed, CalmDown, watchVars, worldVars

\* A step that takes launches back comes after a whole window of healthy looks.
Earned == ladder.failures > 0 /\ ladder'.failures = 0 /\ streak' # 0
            => streak' = Gapped \/ streak' > StabilityWindow

LEMMA EarnedStep == WatchInv /\ WatchNext => Earned
<1> SUFFICES ASSUME WatchInv, WatchNext, ladder.failures > 0, ladder'.failures = 0, streak' # 0
             PROVE  streak' = Gapped \/ streak' > StabilityWindow
  BY DEF Earned
<1> USE WatchdogAssumption
<1>b. ladder \in Ladders
  BY DEF WatchInv, LadderInv
<1>c. ladder.failures \in Nat /\ ladder.steady \in Never..StabilityWindow
  BY <1>b DEF Ladders
<1>1. ladder' # ladder
  BY <1>c
<1>2. ladder' # RecordLaunch
  <2>1. RecordLaunch.failures > 0
    BY <1>c, WatchdogAssumption DEF RecordLaunch, Smallest
  <2> QED
    BY <2>1
<1>3. \A n : ladder' # Aged(ladder, n)
  <2>1. \A n : Aged(ladder, n).failures = ladder.failures
    BY DEF Aged
  <2> QED
    BY <2>1, <1>c
<1>4. ~GiveUp /\ ~WatchdogRestarts
  <2>1. [ladder EXCEPT !.alarm = TRUE].failures = ladder.failures
    BY <1>b DEF Ladders
  <2>2. ASSUME GiveUp PROVE FALSE
    <3>1. ladder' = [ladder EXCEPT !.alarm = TRUE]
      BY <2>2 DEF GiveUp
    <3>2. ladder'.failures = ladder.failures
      BY <3>1, <2>1
    <3> QED
      BY <3>2, <1>c
  <2>3. ~WatchdogRestarts
    BY DEF WatchdogRestarts
  <2> QED
    BY <2>2, <2>3
<1>5. Look
  BY <1>1, <1>2, <1>3, <1>4 DEF WatchNext, Tick, ProbeLock, Blind, Clear, Kill, Probe, StartAgent, Period, PcSleeps,
     Comes, Agent, Acquire, FirstBeat, DeleteBeat, UserStarts, BeatsOn, Freeze, Thaw, Crash, Quit, LockFreed,
     CalmDown, dogVars
<1>p. PICK b, recalled : Decide(b, recalled) /\ tick.do = "read"
  BY <1>5 DEF Look
<1> DEFINE healthy == Health(b) = "healthy"
<1>a. healthy \in BOOLEAN
  OBVIOUS
<1>6. ladder' = Observed(healthy) /\ Looking
  BY <1>p DEF Decide, Looking
<1>7. healthy /\ ladder.steady >= StabilityWindow
  <2>1. Observed(healthy).failures # ladder.failures
    BY <1>6, <1>c
  <2> QED
    BY <2>1, <1>a, <1>b, ObservedKeeps
<1>8. streak' = IF streak = Gapped THEN Gapped ELSE Smallest(streak + 1, StabilityWindow + 1)
  BY <1>p, <1>7 DEF Decide
<1> HIDE DEF healthy
<1> QED
  BY <1>6, <1>7, <1>8, <1>c DEF WatchInv, SteadyInv, Smallest, Never, Gapped

\* The invariant the watchdog's theorems share.
THEOREM WatchInvariant == WatchSpec => []WatchInv
<1>1. WatchInv /\ [WatchNext]_watchVars => WatchInv'
  BY HolderStep, BeatStep, TickStep, LadderStep, SteadyStep DEF WatchInv
<1> QED
  BY InitWatch, <1>1, PTL DEF WatchSpec

\* The watchdog's state stays within its shapes, for any processes and any policy; at
\* most one agent holds the lock, and no launch goes beyond the ladder without the alarm
\* (LivenessBeacon.cs, WatchdogPolicy.cs, WatchdogLoop.cs).
THEOREM LadderHasAlarm == WatchSpec => []WatchTypeOK
<1>1. WatchInv => WatchTypeOK
  BY DEF WatchInv, HolderInv, BeatInv, TickInv, LadderInv, SteadyInv, WatchTypeOK, DogStates, Ladders,
     Beats, Ticks, Acts
<1> QED
  BY <1>1, WatchInvariant, PTL

\* An agent that was beating when the watchdog looked is killed only if its beat was newer
\* than the clock the watchdog had read, or not read from the file; and launches are taken
\* back only for a whole window of healthy looks (WatchdogLoop.cs:136-140,
\* WatchdogPolicy.cs:130-136, RestartLadder.cs).
THEOREM HealthySpared == WatchSpec => WatchdogSound
<1>1. WatchInv => BeatingSpared
  BY DEF WatchInv, TickInv, BeatingSpared
<1>2. WatchInv /\ [WatchNext]_watchVars => [Earned]_watchVars
  BY EarnedStep
<1>3. WatchSpec => [][Earned]_watchVars
  BY <1>2, WatchInvariant, PTL DEF WatchSpec
<1>4. WatchSpec => SteadinessEarned
  BY <1>3 DEF Earned, SteadinessEarned
<1> QED
  BY <1>1, <1>4, WatchInvariant, PTL DEF WatchdogSound

-----------------------------------------------------------------------------
(***************************************************************************)
(* The alerts about silent PCs (Alerts).                                   *)
(***************************************************************************)
AlertRow == [pc : Pc, age : 0 .. MaxAge, open : BOOLEAN, channel : {"none", "marked"},
             mail : {"no", "once", "unsure"}, news : BOOLEAN]

\* A PC that has not been heard for long, while the server was there to hear it, was off.
QuietInv ==
  /\ on \subseteq Pc /\ gone \subseteq Pc /\ quiet \in [Pc -> 0 .. Long]
  /\ stopped \in [Pc -> {"no", "now", "before"}] /\ up \in {Down} \cup (0 .. Grace)
  /\ \A p \in Pc : up >= 1 /\ quiet[p] = Long => p \in gone

\* The check judges after the grace, and raises what was gone and had not said so.
JudgeInv ==
  /\ check # Idle => up # Down
  /\ check.at = "judge" => up >= Grace
  /\ check.at = "raise" => \A p \in check.pcs : p \in Pc /\ p \in gone /\ stopped[p] # "before"

\* The alerts of a PC are a throttle apart.
SpacedInv ==
  /\ alert \in [Alert -> AlertRow \cup {NoAlert}]
  /\ \A a, b \in Live : a # b /\ alert[a].pc = alert[b].pc => Spaced(a, b) \/ Spaced(b, a)

\* A mail that has gone out is marked, or about to be.
MailInv ==
  /\ \/ post = Idle
     \/ \E ids \in SUBSET Alert : post = [at |-> "send", ids |-> ids]
     \/ \E ids \in SUBSET Alert, out \in {"sent", "failed", "nobody"} : post = [at |-> "mark", ids |-> ids, out |-> out]
  /\ post.at = "send" => \A a \in post.ids \cap Live : alert[a].channel = "none"
  /\ \A a \in Live : alert[a].channel = "none" /\ alert[a].mail = "once"
                       => post.at = "mark" /\ post.out = "sent" /\ a \in post.ids

AlertInv == QuietInv /\ JudgeInv /\ SpacedInv /\ MailInv

\* A dispatcher's run has used up its tick, and does not outlive the server.
PostInv == "post" \in due \/ up = Down => post = Idle

LEMMA AlertConstants ==
  /\ Throttle \in Nat /\ Throttle >= 1 /\ Grace \in Nat /\ Grace >= 1
  /\ MaxAge \in Nat /\ MaxAge >= Throttle
  /\ Long = 2 /\ Down = -1 /\ Idle = [at |-> "idle"] /\ Idle.at = "idle"
BY AlertsAssumption DEF Long, Down, Idle

LEMMA LiveAre ==
  ASSUME SpacedInv, NEW a \in Live
  PROVE  /\ a \in Alert /\ alert[a] \in AlertRow
         /\ alert[a].pc \in Pc /\ alert[a].age \in 0 .. MaxAge
BY DEF SpacedInv, Live, AlertRow

LEMMA LaterIs ==
  ASSUME NEW cap \in Nat, NEW n \in 0 .. cap
  PROVE  Later(n, cap) \in 0 .. cap /\ (Later(n, cap) = n + 1 \/ (n = cap /\ Later(n, cap) = cap))
BY DEF Later

LEMMA AlertsStart == AlertsInit => AlertInv /\ PostInv
<1> SUFFICES ASSUME AlertsInit PROVE AlertInv /\ PostInv
  OBVIOUS
<1> USE AlertConstants
<1>1. QuietInv
  BY DEF AlertsInit, QuietInv
<1>2. JudgeInv
  BY DEF AlertsInit, JudgeInv
<1>3. Live = {}
  BY DEF AlertsInit, Live
<1>4. SpacedInv /\ MailInv
  BY <1>3 DEF AlertsInit, SpacedInv, MailInv
<1>5. PostInv
  BY DEF AlertsInit, PostInv
<1> QED BY <1>1, <1>2, <1>4, <1>5 DEF AlertInv

(***************************************************************************)
(* Rows that are changed, and rows that are there no longer.               *)
(***************************************************************************)
AlertsEdited ==
  /\ alert' \in [Alert -> AlertRow \cup {NoAlert}]
  /\ \A a \in Alert : alert'[a] # NoAlert =>
       a \in Live /\ alert'[a].pc = alert[a].pc /\ alert'[a].age = alert[a].age

LEMMA EditedSpaced == ASSUME AlertInv, AlertsEdited PROVE SpacedInv'
<1>1. \A a \in Live' : a \in Live /\ a \in Alert /\ alert'[a].pc = alert[a].pc /\ alert'[a].age = alert[a].age
  BY DEF AlertsEdited, Live
<1>2. \A a, b \in Live' : (Spaced(a, b) => Spaced(a, b)') /\ (Spaced(b, a) => Spaced(b, a)')
  BY <1>1 DEF Spaced
<1> QED BY <1>1, <1>2 DEF AlertInv, SpacedInv, AlertsEdited

\* Of an edit that leaves the mail alone.
LEMMA EditedMail ==
  ASSUME AlertInv, AlertsEdited, UNCHANGED post,
         \A a \in Live : alert'[a] # NoAlert =>
           alert'[a].channel = alert[a].channel /\ alert'[a].mail = alert[a].mail
  PROVE  MailInv'
<1>1. \A a \in Live' : a \in Live /\ alert'[a].channel = alert[a].channel /\ alert'[a].mail = alert[a].mail
  BY DEF AlertsEdited, Live
<1> QED BY <1>1 DEF AlertInv, MailInv

LEMMA EditedRow ==
  ASSUME NEW r \in AlertRow
  PROVE  /\ [r EXCEPT !.news = FALSE] \in AlertRow /\ [r EXCEPT !.open = FALSE] \in AlertRow
         /\ [r EXCEPT !.channel = "marked"] \in AlertRow
         /\ \A m \in {"no", "once", "unsure"} : [r EXCEPT !.mail = m] \in AlertRow
         /\ \A n \in 0 .. MaxAge : [r EXCEPT !.age = n] \in AlertRow
BY DEF AlertRow

\* Nothing happens to the table or the mail.
LEMMA TableAlone ==
  ASSUME AlertInv, UNCHANGED <<alert, post>>
  PROVE  SpacedInv' /\ MailInv'
BY DEF AlertInv, SpacedInv, MailInv, Live, Spaced

\* Nothing happens to the PCs or the check.
LEMMA PcsAlone ==
  ASSUME AlertInv, UNCHANGED <<on, quiet, stopped, gone, check, up>>
  PROVE  QuietInv' /\ JudgeInv'
BY DEF AlertInv, QuietInv, JudgeInv

(***************************************************************************)
(* The PCs.                                                                *)
(***************************************************************************)
LEMMA HeardKept == ASSUME AlertInv, NEW p \in Pc, Heard(p) PROVE AlertInv' /\ AlertsEdited
<1> USE AlertConstants
<1>1. /\ quiet' = [quiet EXCEPT ![p] = 0]
      /\ stopped' = [stopped EXCEPT ![p] = IF stopped[p] = "before" THEN "no" ELSE stopped[p]]
      /\ alert' = [a \in Alert |-> IF a \in Live /\ alert[a].pc = p THEN [alert[a] EXCEPT !.news = FALSE]
                                   ELSE alert[a]]
      /\ UNCHANGED <<on, gone, check, post, up>>
  BY DEF Heard, serverVars
<1>2. QuietInv'
  BY <1>1 DEF AlertInv, QuietInv
<1>3. JudgeInv'
  BY <1>1 DEF AlertInv, JudgeInv, QuietInv
<1>4. \A a \in Live : /\ alert[a] \in AlertRow /\ alert'[a] \in AlertRow
                      /\ alert'[a] = alert[a] \/ alert'[a] = [alert[a] EXCEPT !.news = FALSE]
  BY <1>1, LiveAre, EditedRow DEF AlertInv
<1>5. \A a \in Alert : a \notin Live => alert'[a] = alert[a] /\ alert[a] = NoAlert
  BY <1>1 DEF Live
<1>6. \A a \in Live : /\ alert'[a].pc = alert[a].pc /\ alert'[a].age = alert[a].age
                      /\ alert'[a].channel = alert[a].channel /\ alert'[a].mail = alert[a].mail
  BY <1>4 DEF AlertRow
<1>7. AlertsEdited
  <2>1. alert' \in [Alert -> AlertRow \cup {NoAlert}]
    BY <1>1, <1>4, <1>5
  <2> QED BY <1>5, <1>6, <2>1 DEF AlertsEdited
<1> QED BY <1>1, <1>2, <1>3, <1>6, <1>7, EditedSpaced, EditedMail DEF AlertInv

LEMMA StopsKept == ASSUME AlertInv, NEW p \in Pc, NEW told \in BOOLEAN, Stops(p, told) PROVE AlertInv'
<1> USE AlertConstants
<1>1. /\ on' = on \ {p} /\ gone' = gone \cup {p}
      /\ stopped' = [stopped EXCEPT ![p] = IF told THEN "now" ELSE stopped[p]]
      /\ UNCHANGED <<quiet, alert, check, post, up>>
  BY DEF Stops, serverVars
<1>2. QuietInv' /\ JudgeInv'
  BY <1>1 DEF AlertInv, QuietInv, JudgeInv
<1> QED BY <1>1, <1>2, TableAlone DEF AlertInv

LEMMA StartsKept == ASSUME AlertInv, NEW p \in Pc, Starts(p) PROVE AlertInv'
<1>1. on' = on \cup {p} /\ UNCHANGED <<quiet, stopped, gone, alert, check, post, up>>
  BY DEF Starts, serverVars
<1>2. QuietInv' /\ JudgeInv'
  BY <1>1 DEF AlertInv, QuietInv, JudgeInv
<1> QED BY <1>1, <1>2, TableAlone DEF AlertInv

(***************************************************************************)
(* The check.                                                              *)
(***************************************************************************)
LEMMA CheckTickKept == ASSUME AlertInv, CheckTick PROVE AlertInv'
<1>1. /\ up # Down /\ check'.at = "resolve"
      /\ UNCHANGED <<on, quiet, stopped, gone, alert, post, up>>
  BY DEF CheckTick, pcVars
<1>2. QuietInv' /\ JudgeInv'
  BY <1>1 DEF AlertInv, QuietInv, JudgeInv
<1> QED BY <1>1, <1>2, TableAlone DEF AlertInv

LEMMA ResolveKept == ASSUME AlertInv, Resolve PROVE AlertInv' /\ AlertsEdited
<1> USE AlertConstants
<1>1. /\ check.at = "resolve"
      /\ alert' = [a \in Alert |-> IF a \in check.ids \cap Live THEN [alert[a] EXCEPT !.open = FALSE]
                                   ELSE alert[a]]
      /\ check' = (IF up < Grace THEN Idle ELSE [at |-> "judge"])
      /\ UNCHANGED <<on, quiet, stopped, gone, post, up>>
  BY DEF Resolve, Runs, InGrace, pcVars
<1>2. QuietInv'
  BY <1>1 DEF AlertInv, QuietInv
<1>3. JudgeInv'
  <2>1. check # Idle
    BY <1>1
  <2>2. up # Down /\ up \in {Down} \cup (0 .. Grace)
    BY <2>1 DEF AlertInv, JudgeInv, QuietInv
  <2>3. CASE up < Grace
    BY <1>1, <2>3 DEF JudgeInv
  <2>4. CASE ~(up < Grace)
    <3>1. check' = [at |-> "judge"] /\ up >= Grace
      BY <1>1, <2>2, <2>4
    <3>2. check'.at = "judge"
      BY <3>1
    <3> QED BY <1>1, <2>2, <3>1, <3>2 DEF JudgeInv
  <2> QED BY <2>3, <2>4
<1>4. \A a \in Live : /\ alert[a] \in AlertRow /\ alert'[a] \in AlertRow
                      /\ alert'[a] = alert[a] \/ alert'[a] = [alert[a] EXCEPT !.open = FALSE]
  BY <1>1, LiveAre, EditedRow DEF AlertInv
<1>5. \A a \in Alert : a \notin Live => alert'[a] = alert[a] /\ alert[a] = NoAlert
  BY <1>1 DEF Live
<1>6. \A a \in Live : /\ alert'[a].pc = alert[a].pc /\ alert'[a].age = alert[a].age
                      /\ alert'[a].channel = alert[a].channel /\ alert'[a].mail = alert[a].mail
  BY <1>4 DEF AlertRow
<1>7. AlertsEdited
  <2>1. alert' \in [Alert -> AlertRow \cup {NoAlert}]
    BY <1>1, <1>4, <1>5
  <2> QED BY <1>5, <1>6, <2>1 DEF AlertsEdited
<1> QED BY <1>1, <1>2, <1>3, <1>6, <1>7, EditedSpaced, EditedMail DEF AlertInv

\* Who has been silent for long past the grace was off.
LEMMA JudgeKept == ASSUME AlertInv, Judge PROVE AlertInv'
<1> USE AlertConstants
<1>1. /\ check.at = "judge" /\ UNCHANGED <<on, quiet, stopped, gone, alert, post, up>>
  BY DEF Judge, Runs, pcVars
<1>2. up # Down /\ up >= Grace /\ up >= 1
  BY <1>1 DEF AlertInv, JudgeInv, QuietInv
<1>3. \/ check' = Idle
      \/ \E expected \in SUBSET Pc :
           check' = [at |-> "raise", pcs |-> {p \in expected : ~HeardOf(p) /\ stopped[p] = "no"}]
  BY DEF Judge, Runs
<1>4. \A p \in Pc : ~HeardOf(p) => p \in gone
  <2>1. \A p \in Pc : quiet[p] \in 0 .. 2 /\ (quiet[p] = 2 => p \in gone)
    BY <1>2 DEF AlertInv, QuietInv
  <2> QED BY <2>1 DEF HeardOf
<1>5. JudgeInv'
  <2>1. CASE check' = Idle
    BY <2>1 DEF JudgeInv
  <2>2. CASE \E expected \in SUBSET Pc :
               check' = [at |-> "raise", pcs |-> {p \in expected : ~HeardOf(p) /\ stopped[p] = "no"}]
    <3>1. check'.at = "raise" /\ \A p \in check'.pcs : p \in Pc /\ ~HeardOf(p) /\ stopped[p] = "no"
      BY <2>2
    <3> QED BY <1>1, <1>2, <1>4, <3>1 DEF JudgeInv
  <2> QED BY <1>3, <2>1, <2>2
<1>6. QuietInv'
  BY <1>1 DEF AlertInv, QuietInv
<1> QED BY <1>1, <1>5, <1>6, TableAlone DEF AlertInv

LEMMA CheckFailsKept == ASSUME AlertInv, CheckFails PROVE AlertInv'
<1>1. check' = Idle /\ UNCHANGED <<on, quiet, stopped, gone, alert, post, up>>
  BY DEF CheckFails, Runs, pcVars
<1>2. QuietInv' /\ JudgeInv'
  BY <1>1, AlertConstants DEF AlertInv, QuietInv, JudgeInv
<1> QED BY <1>1, <1>2, TableAlone DEF AlertInv

\* What is raised: alerts of PCs that were gone, and whose last one is a throttle old.
LEMMA RaiseIs ==
  ASSUME AlertInv, Raise
  PROVE  /\ \A a \in Live : alert'[a] = alert[a]
         /\ \A a \in Alert \ Live : \/ alert'[a] = NoAlert
                                    \/ /\ alert'[a] = NewAlert(alert'[a].pc)
                                       /\ alert'[a].pc \in check.pcs /\ ~Throttled(alert'[a].pc)
         /\ \A a, b \in Alert \ Live : alert'[a] # NoAlert /\ alert'[b] # NoAlert /\ alert'[a].pc = alert'[b].pc => a = b
         /\ alert' \in [Alert -> AlertRow \cup {NoAlert}]
<1> DEFINE loud == {p \in check.pcs : ~Throttled(p)}
<1>1. PICK into \in [loud -> Alert \ Live] :
        /\ \A p, q \in loud : into[p] = into[q] => p = q
        /\ alert' = [a \in Alert |-> IF \E p \in loud : into[p] = a
                                     THEN NewAlert(CHOOSE p \in loud : into[p] = a)
                                     ELSE alert[a]]
  BY DEF Raise
<1>2. check.at = "raise"
  BY DEF Raise
<1>3. \A p \in loud : p \in Pc /\ p \in check.pcs /\ ~Throttled(p)
  BY <1>2 DEF AlertInv, JudgeInv
<1> HIDE DEF loud
<1>4. \A a \in Alert : (\E p \in loud : into[p] = a) =>
        \E p \in loud : into[p] = a /\ alert'[a] = NewAlert(p)
  BY <1>1
<1>5. \A p \in Pc : /\ NewAlert(p).pc = p /\ NewAlert(p) \in AlertRow
  BY AlertConstants DEF NewAlert, AlertRow
<1>6. \A a \in Live : alert'[a] = alert[a]
  <2> TAKE a \in Live
  <2>1. a \in Alert /\ ~\E p \in loud : into[p] = a
    BY <1>1 DEF Live
  <2> QED BY <1>1, <2>1
<1>7. \A a \in Alert \ Live : \/ alert'[a] = NoAlert
                              \/ \E p \in loud : into[p] = a /\ alert'[a] = NewAlert(p) /\ alert'[a].pc = p
  <2> TAKE a \in Alert \ Live
  <2>1. CASE \E p \in loud : into[p] = a
    BY <2>1, <1>3, <1>4, <1>5
  <2>2. CASE ~\E p \in loud : into[p] = a
    BY <2>2, <1>1 DEF Live
  <2> QED BY <2>1, <2>2
<1>8. alert' \in [Alert -> AlertRow \cup {NoAlert}]
  <2>1. \A a \in Alert : alert'[a] \in AlertRow \cup {NoAlert}
    BY <1>3, <1>5, <1>6, <1>7 DEF AlertInv, SpacedInv
  <2>2. alert' = [a \in Alert |-> alert'[a]]
    BY <1>1
  <2> QED BY <2>1, <2>2
<1> QED BY <1>1, <1>3, <1>6, <1>7, <1>8

LEMMA RaiseKept == ASSUME AlertInv, Raise PROVE AlertInv'
<1> USE AlertConstants
<1>1. check.at = "raise" /\ check' = Idle /\ UNCHANGED <<on, quiet, stopped, gone, post, up>>
  BY DEF Raise, Runs, pcVars
<1>2. QuietInv' /\ JudgeInv'
  BY <1>1 DEF AlertInv, QuietInv, JudgeInv
<1>3. \A a \in Live' : a \in Alert /\ alert'[a] # NoAlert
  BY DEF Live
<1>4. \A a \in Live' : a \notin Live =>
        /\ alert'[a].age = 0 /\ alert'[a].channel = "none" /\ alert'[a].mail = "no"
        /\ ~Throttled(alert'[a].pc)
  BY <1>3, RaiseIs DEF NewAlert
<1>5. SpacedInv'
  <2> SUFFICES ASSUME NEW a \in Live', NEW b \in Live', a # b, alert'[a].pc = alert'[b].pc
               PROVE  Spaced(a, b)' \/ Spaced(b, a)'
    BY RaiseIs DEF SpacedInv
  <2>1. CASE a \in Live /\ b \in Live
    <3>1. alert'[a] = alert[a] /\ alert'[b] = alert[b]
      BY <2>1, RaiseIs
    <3> QED BY <2>1, <3>1 DEF AlertInv, SpacedInv, Spaced
  <2>2. CASE a \in Live /\ b \notin Live
    <3>1. alert'[a] = alert[a] /\ alert[a].age \in 0 .. MaxAge
      BY <2>2, RaiseIs, LiveAre DEF AlertInv
    <3>2. ~(alert[a].age < Throttle)
      BY <2>2, <1>4, <3>1 DEF Throttled
    <3> QED BY <2>2, <1>4, <3>1, <3>2 DEF Spaced
  <2>3. CASE a \notin Live /\ b \in Live
    <3>1. alert'[b] = alert[b] /\ alert[b].age \in 0 .. MaxAge
      BY <2>3, RaiseIs, LiveAre DEF AlertInv
    <3>2. ~(alert[b].age < Throttle)
      BY <2>3, <1>4, <3>1 DEF Throttled
    <3> QED BY <2>3, <1>4, <3>1, <3>2 DEF Spaced
  <2>4. CASE a \notin Live /\ b \notin Live
    BY <2>4, <1>3, RaiseIs
  <2> QED BY <2>1, <2>2, <2>3, <2>4
<1>6. MailInv'
  <2>1. post.at = "send" => \A a \in post.ids \cap Live' : alert'[a].channel = "none"
    BY <1>4, RaiseIs DEF AlertInv, MailInv
  <2>2. \A a \in Live' : alert'[a].channel = "none" /\ alert'[a].mail = "once"
                         => post.at = "mark" /\ post.out = "sent" /\ a \in post.ids
    BY <1>4, RaiseIs DEF AlertInv, MailInv
  <2> QED BY <1>1, <2>1, <2>2 DEF AlertInv, MailInv
<1> QED BY <1>2, <1>5, <1>6 DEF AlertInv

LEMMA AcknowledgeKept == ASSUME AlertInv, NEW a \in Alert, Acknowledge(a) PROVE AlertInv' /\ AlertsEdited
<1>1. /\ a \in Live /\ alert' = [alert EXCEPT ![a].open = FALSE]
      /\ UNCHANGED <<on, quiet, stopped, gone, check, post, up>>
  BY DEF Acknowledge, pcVars, serverVars
<1>2. alert[a] \in AlertRow /\ [alert[a] EXCEPT !.open = FALSE] \in AlertRow
  BY <1>1, LiveAre, EditedRow DEF AlertInv
<1>3. /\ alert' \in [Alert -> AlertRow \cup {NoAlert}]
      /\ alert'[a] = [alert[a] EXCEPT !.open = FALSE] /\ \A b \in Alert : b # a => alert'[b] = alert[b]
  BY <1>1, <1>2 DEF AlertInv, SpacedInv
<1>4. /\ alert'[a].pc = alert[a].pc /\ alert'[a].age = alert[a].age
      /\ alert'[a].channel = alert[a].channel /\ alert'[a].mail = alert[a].mail
  BY <1>2, <1>3 DEF AlertRow
<1>5. AlertsEdited
  BY <1>1, <1>3, <1>4 DEF AlertsEdited, Live
<1>6. MailInv'
  <2>1. \A b \in Live : alert'[b].channel = alert[b].channel /\ alert'[b].mail = alert[b].mail
    BY <1>3, <1>4 DEF Live
  <2> QED BY <1>1, <1>5, <2>1, EditedMail
<1> QED BY <1>1, <1>5, <1>6, EditedSpaced, PcsAlone DEF AlertInv

(***************************************************************************)
(* The mail.                                                               *)
(***************************************************************************)
LEMMA PostTickKept == ASSUME AlertInv, PostInv, PostTick PROVE AlertInv'
<1>1. UNCHANGED <<on, quiet, stopped, gone, alert, check, up>>
  BY DEF PostTick, pcVars
<1>2. post = Idle
  BY DEF PostTick, PostInv
<1>3. PICK ids \in SUBSET Alert :
        /\ IsBatch(ids)
        /\ post' = (IF ids = {} THEN Idle ELSE [at |-> "send", ids |-> ids])
  BY DEF PostTick
<1>4. \A a \in ids : alert[a].channel = "none"
  BY <1>3 DEF IsBatch, Untold
<1>5. MailInv'
  <2>1. \A a \in Live : ~(alert[a].channel = "none" /\ alert[a].mail = "once")
    BY <1>2, AlertConstants DEF AlertInv, MailInv
  <2>2. Live' = Live
    BY <1>1 DEF Live
  <2>3. CASE ids = {}
    BY <1>1, <1>3, <2>1, <2>2, <2>3, AlertConstants DEF MailInv
  <2>4. CASE ids # {}
    <3>1. post' = [at |-> "send", ids |-> ids] /\ post'.at = "send" /\ post'.ids = ids
      BY <1>3, <2>4
    <3> QED BY <1>1, <1>4, <2>1, <2>2, <3>1 DEF MailInv
  <2> QED BY <2>3, <2>4
<1>6. SpacedInv'
  BY <1>1 DEF AlertInv, SpacedInv, Live, Spaced
<1> QED BY <1>1, <1>5, <1>6, PcsAlone DEF AlertInv

LEMMA SendKept == ASSUME AlertInv, Send PROVE AlertInv' /\ AlertsEdited
<1>1. /\ post.at = "send" /\ UNCHANGED <<on, quiet, stopped, gone, check, up>>
  BY DEF Send, pcVars
<1>2. PICK out \in {"sent", "failed", "lost", "nobody"} :
        /\ alert' = [a \in Alert |-> IF a \in post.ids \cap Live /\ out \in {"sent", "lost"}
                                     THEN [alert[a] EXCEPT !.mail = Mailed(alert[a].mail, out)]
                                     ELSE alert[a]]
        /\ post' = [at |-> "mark", ids |-> post.ids, out |-> IF out = "lost" THEN "failed" ELSE out]
  BY DEF Send
<1>3. post.ids \in SUBSET Alert
  BY <1>1, AlertConstants DEF AlertInv, MailInv
<1>4. \A a \in Live : /\ a \in Alert /\ alert[a] \in AlertRow /\ alert[a].mail \in {"no", "once", "unsure"}
  BY LiveAre DEF AlertInv, AlertRow
<1>5. \A a \in Live : ~(alert[a].channel = "none" /\ alert[a].mail = "once")
  BY <1>1 DEF AlertInv, MailInv
<1>6. \A a \in post.ids \cap Live : alert[a].channel = "none"
  BY <1>1 DEF AlertInv, MailInv
<1>7. \A a \in post.ids \cap Live : /\ Mailed(alert[a].mail, "lost") = "unsure"
                                    /\ Mailed(alert[a].mail, "sent") \in {"once", "unsure"}
  <2> SUFFICES ASSUME NEW a \in post.ids \cap Live
               PROVE  /\ Mailed(alert[a].mail, "lost") = "unsure"
                      /\ Mailed(alert[a].mail, "sent") \in {"once", "unsure"}
    OBVIOUS
  <2>1. alert[a].mail = "no" \/ alert[a].mail = "unsure"
    BY <1>4, <1>5, <1>6
  <2> QED BY <2>1 DEF Mailed
<1>8. \A a \in Live : /\ alert'[a] \in AlertRow
                      /\ alert'[a].pc = alert[a].pc /\ alert'[a].age = alert[a].age
                      /\ alert'[a].channel = alert[a].channel
                      /\ \/ alert'[a].mail = alert[a].mail
                         \/ alert'[a].mail = "unsure"
                         \/ a \in post.ids /\ out = "sent" /\ alert'[a].mail = "once"
  <2> TAKE a \in Live
  <2>1. CASE a \in post.ids /\ out \in {"sent", "lost"}
    <3> DEFINE m == Mailed(alert[a].mail, out)
    <3>1. alert'[a] = [alert[a] EXCEPT !.mail = m]
      BY <1>2, <1>4, <2>1
    <3>2. m = "unsure" \/ (out = "sent" /\ m = "once")
      BY <1>7, <2>1
    <3> HIDE DEF m
    <3>3. alert'[a] \in AlertRow
      <4>1. alert[a] \in AlertRow /\ m \in {"no", "once", "unsure"}
        BY <1>4, <3>2
      <4>2. \A k \in {"no", "once", "unsure"} : [alert[a] EXCEPT !.mail = k] \in AlertRow
        BY <4>1, EditedRow
      <4>3. [alert[a] EXCEPT !.mail = m] \in AlertRow
        BY <4>1, <4>2
      <4> QED BY <3>1, <4>3
    <3> QED BY <1>4, <2>1, <3>1, <3>2, <3>3 DEF AlertRow
  <2>2. CASE ~(a \in post.ids /\ out \in {"sent", "lost"})
    <3>1. alert'[a] = alert[a]
      BY <1>2, <1>4, <2>2
    <3> QED BY <1>4, <3>1
  <2> QED BY <2>1, <2>2
<1>9. \A a \in Alert : a \notin Live => alert'[a] = NoAlert
  BY <1>2 DEF Live
<1>10. AlertsEdited
  <2>1. \A a \in Alert : alert'[a] \in AlertRow \cup {NoAlert}
    BY <1>8, <1>9
  <2>2. alert' \in [Alert -> AlertRow \cup {NoAlert}]
    BY <1>2, <2>1
  <2> QED BY <1>8, <1>9, <2>2 DEF AlertsEdited
<1>11. MailInv'
  <2>1. Live' \subseteq Live
    BY <1>10 DEF AlertsEdited, Live
  <2>2. /\ post'.at = "mark" /\ post'.ids = post.ids /\ (out = "sent" => post'.out = "sent")
        /\ \E ids \in SUBSET Alert, o \in {"sent", "failed", "nobody"} : post' = [at |-> "mark", ids |-> ids, out |-> o]
    BY <1>2, <1>3
  <2>3. \A a \in Live' : alert'[a].channel = "none" /\ alert'[a].mail = "once"
                         => post'.at = "mark" /\ post'.out = "sent" /\ a \in post'.ids
    BY <1>5, <1>8, <2>1, <2>2
  <2> QED BY <2>2, <2>3 DEF MailInv
<1> QED BY <1>1, <1>10, <1>11, EditedSpaced, PcsAlone DEF AlertInv

\* The mail is done with: what was sent is marked, or not known any longer to have been.
LEMMA DoneWith ==
  ASSUME AlertInv, post' = Idle,
         \A a \in Live : \/ alert'[a] = [alert[a] EXCEPT !.channel = "marked"]
                         \/ alert'[a] = [alert[a] EXCEPT !.mail = "unsure"]
                         \/ alert'[a] = alert[a] /\ ~(post.at = "mark" /\ post.out = "sent" /\ a \in post.ids),
         \A a \in Alert : a \notin Live => alert'[a] = NoAlert,
         alert' = [a \in Alert |-> alert'[a]]
  PROVE  AlertsEdited /\ SpacedInv' /\ MailInv'
<1>1. \A a \in Live : alert[a] \in AlertRow
  BY LiveAre DEF AlertInv
<1>2. \A a \in Live :
        /\ alert'[a] \in AlertRow
        /\ alert'[a].pc = alert[a].pc /\ alert'[a].age = alert[a].age
        /\ alert'[a].channel = "marked" \/ alert'[a].mail = "unsure" \/ alert'[a] = alert[a]
  <2> TAKE a \in Live
  <2>0. alert[a] \in AlertRow
    BY <1>1
  <2>1. CASE alert'[a] = [alert[a] EXCEPT !.channel = "marked"]
    <3>1. alert'[a] \in AlertRow
      BY <2>0, <2>1, EditedRow
    <3> QED BY <2>0, <2>1, <3>1 DEF AlertRow
  <2>2. CASE alert'[a] = [alert[a] EXCEPT !.mail = "unsure"]
    <3>1. alert'[a] \in AlertRow
      BY <2>0, <2>2, EditedRow
    <3> QED BY <2>0, <2>2, <3>1 DEF AlertRow
  <2>3. CASE alert'[a] = alert[a]
    BY <2>0, <2>3
  <2> QED BY <2>1, <2>2, <2>3
<1>3. AlertsEdited
  <2>1. \A a \in Alert : alert'[a] \in AlertRow \cup {NoAlert}
    BY <1>2
  <2>2. alert' \in [Alert -> AlertRow \cup {NoAlert}]
    BY <2>1
  <2> QED BY <1>2, <2>2 DEF AlertsEdited
<1>4. MailInv'
  <2>1. \A a \in Live' : a \in Live
    BY <1>3 DEF AlertsEdited, Live
  <2>2. ASSUME NEW a \in Live', alert'[a].channel = "none", alert'[a].mail = "once" PROVE FALSE
    <3>1. a \in Live /\ alert[a] \in AlertRow /\ alert[a].channel = "none" /\ alert[a].mail = "once"
          /\ alert'[a] = alert[a]
      BY <1>1, <1>2, <2>1, <2>2
    <3>2. post.at = "mark" /\ post.out = "sent" /\ a \in post.ids
      BY <3>1 DEF AlertInv, MailInv
    <3>3. alert'[a] # [alert[a] EXCEPT !.channel = "marked"] /\ alert'[a] # [alert[a] EXCEPT !.mail = "unsure"]
      BY <3>1 DEF AlertRow
    <3> QED BY <3>1, <3>2, <3>3
  <2> QED BY <2>2, AlertConstants DEF MailInv
<1> QED BY <1>3, <1>4, EditedSpaced

LEMMA MarkKept == ASSUME AlertInv, Mark PROVE AlertInv' /\ AlertsEdited
<1>1. /\ post.at = "mark" /\ post' = Idle /\ UNCHANGED <<on, quiet, stopped, gone, check, up>>
      /\ alert' = [a \in Alert |-> IF a \in MarkedSent(post.ids, post.out) \cap Live
                                   THEN [alert[a] EXCEPT !.channel = "marked"]
                                   ELSE alert[a]]
  BY DEF Mark, pcVars
<1>2. post.out = "sent" => MarkedSent(post.ids, post.out) = post.ids
  BY DEF MarkedSent
<1>3. \A a \in Live : \/ alert'[a] = [alert[a] EXCEPT !.channel = "marked"]
                      \/ alert'[a] = alert[a] /\ ~(post.at = "mark" /\ post.out = "sent" /\ a \in post.ids)
  BY <1>1, <1>2 DEF Live
<1>4. \A a \in Alert : a \notin Live => alert'[a] = NoAlert
  BY <1>1 DEF Live
<1>5. alert' = [a \in Alert |-> alert'[a]]
  BY <1>1
<1> QED BY <1>1, <1>3, <1>4, <1>5, DoneWith, PcsAlone DEF AlertInv

LEMMA UnmarkedIs ==
  ASSUME AlertInv, alert' = Unmarked
  PROVE  /\ \A a \in Live : \/ alert'[a] = [alert[a] EXCEPT !.mail = "unsure"]
                            \/ alert'[a] = alert[a] /\ ~(post.at = "mark" /\ post.out = "sent" /\ a \in post.ids)
         /\ \A a \in Alert : a \notin Live => alert'[a] = NoAlert
         /\ alert' = [a \in Alert |-> alert'[a]]
<1>1. alert' = [a \in Alert |-> IF a \in Live /\ post.at = "mark" /\ a \in post.ids /\ post.out = "sent"
                                THEN [alert[a] EXCEPT !.mail = "unsure"] ELSE alert[a]]
  BY DEF Unmarked
<1> QED BY <1>1 DEF Live

LEMMA MarkFailsKept == ASSUME AlertInv, MarkFails PROVE AlertInv' /\ AlertsEdited
<1>1. post' = Idle /\ alert' = Unmarked /\ UNCHANGED <<on, quiet, stopped, gone, check, up>>
  BY DEF MarkFails, pcVars
<1> QED BY <1>1, UnmarkedIs, DoneWith, PcsAlone DEF AlertInv

(***************************************************************************)
(* The server, and time.                                                   *)
(***************************************************************************)
LEMMA ServerStopsKept == ASSUME AlertInv, ServerStops PROVE AlertInv' /\ AlertsEdited
<1>1. /\ post' = Idle /\ alert' = Unmarked /\ up' = Down /\ check' = Idle
      /\ UNCHANGED <<on, quiet, stopped, gone>>
  BY DEF ServerStops, pcVars
<1>2. AlertsEdited /\ SpacedInv' /\ MailInv'
  BY <1>1, UnmarkedIs, DoneWith
<1>3. QuietInv' /\ JudgeInv'
  BY <1>1, AlertConstants DEF AlertInv, QuietInv, JudgeInv
<1> QED BY <1>2, <1>3 DEF AlertInv

LEMMA ServerStartsKept == ASSUME AlertInv, ServerStarts PROVE AlertInv'
<1>1. up = Down /\ up' = 0 /\ UNCHANGED <<on, quiet, stopped, gone, alert, check, post>>
  BY DEF ServerStarts, pcVars
<1>2. QuietInv' /\ JudgeInv'
  BY <1>1, AlertConstants DEF AlertInv, QuietInv, JudgeInv
<1> QED BY <1>1, <1>2, TableAlone DEF AlertInv

\* Who runs has been heard when ten minutes pass, or the server was not there to hear.
LEMMA TenMinutesQuiet == ASSUME AlertInv, TenMinutes PROVE QuietInv' /\ JudgeInv'
<1> USE AlertConstants
<1>1. /\ check = Idle /\ check' = Idle
      /\ up # Down => \A p \in on : quiet[p] = 0
      /\ quiet' = [p \in Pc |-> Later(quiet[p], Long)]
      /\ gone' = Pc \ on /\ on' = on
      /\ stopped' = [p \in Pc |-> IF stopped[p] = "now" THEN "before" ELSE stopped[p]]
      /\ up' = IF up = Down THEN Down ELSE Later(up, Grace)
  BY DEF TenMinutes
<1>2. JudgeInv'
  BY <1>1 DEF JudgeInv
<1>3. on \subseteq Pc /\ quiet \in [Pc -> 0 .. Long] /\ stopped \in [Pc -> {"no", "now", "before"}]
      /\ up \in {Down} \cup (0 .. Grace)
  BY DEF AlertInv, QuietInv
<1>4. quiet' \in [Pc -> 0 .. Long] /\ \A p \in Pc : quiet[p] = 0 => quiet'[p] = 1
  <2>1. \A p \in Pc : Later(quiet[p], Long) \in 0 .. Long
    BY <1>3, LaterIs
  <2>2. \A p \in Pc : quiet[p] = 0 => Later(quiet[p], Long) = 1
    BY DEF Later
  <2> QED BY <1>1, <2>1, <2>2
<1>5. up' \in {Down} \cup (0 .. Grace)
  <2>1. CASE up = Down
    BY <1>1, <2>1
  <2>2. CASE up # Down
    <3>1. up \in 0 .. Grace
      BY <1>3, <2>2
    <3>2. Later(up, Grace) \in 0 .. Grace
      BY <3>1, LaterIs
    <3> QED BY <1>1, <2>2, <3>2
  <2> QED BY <2>1, <2>2
<1>6. ASSUME NEW p \in Pc, up' >= 1, quiet'[p] = Long PROVE p \in gone'
  <2>1. up # Down
    BY <1>1, <1>6
  <2>2. quiet[p] # 0
    BY <1>4, <1>6
  <2> QED BY <1>1, <2>1, <2>2
<1>7. stopped' \in [Pc -> {"no", "now", "before"}]
  BY <1>1, <1>3
<1>8. QuietInv'
  BY <1>1, <1>3, <1>4, <1>5, <1>6, <1>7 DEF QuietInv
<1> QED BY <1>2, <1>8

LEMMA TenMinutesKept == ASSUME AlertInv, TenMinutes PROVE AlertInv'
<1> USE AlertConstants
<1>1. /\ post = Idle /\ post' = post
      /\ alert' = [a \in Alert |-> IF a \in Live /\ Past(a) THEN NoAlert ELSE Aging(a)]
  BY DEF TenMinutes
<1>2. \A a \in Live : alert[a] \in AlertRow /\ alert[a].age \in 0 .. MaxAge /\ a \in Alert
  BY LiveAre DEF AlertInv
<1>3. \A a \in Live : \/ alert'[a] = NoAlert
                      \/ alert'[a] = [alert[a] EXCEPT !.age = Later(alert[a].age, MaxAge)]
  BY <1>1, <1>2 DEF Aging
<1>4. \A a \in Alert : a \notin Live => alert'[a] = NoAlert
  BY <1>1 DEF Aging
<1>5. \A a \in Live : Later(alert[a].age, MaxAge) \in 0 .. MaxAge
  BY <1>2, LaterIs
<1>6. \A a \in Live' : /\ a \in Live /\ alert'[a] \in AlertRow \cup {NoAlert}
                       /\ alert'[a].pc = alert[a].pc /\ alert'[a].age = Later(alert[a].age, MaxAge)
                       /\ alert'[a].channel = alert[a].channel /\ alert'[a].mail = alert[a].mail
  <2> TAKE a \in Live'
  <2>1. a \in Alert /\ alert'[a] # NoAlert
    BY DEF Live
  <2>2. a \in Live /\ alert'[a] = [alert[a] EXCEPT !.age = Later(alert[a].age, MaxAge)]
    BY <1>3, <1>4, <2>1
  <2>3. alert'[a] \in AlertRow
    BY <1>2, <1>5, <2>2, EditedRow
  <2> QED BY <1>2, <2>2, <2>3 DEF AlertRow
<1>7. alert' \in [Alert -> AlertRow \cup {NoAlert}]
  <2>1. \A a \in Alert : alert'[a] \in AlertRow \cup {NoAlert}
    BY <1>6 DEF Live
  <2>2. alert' = [a \in Alert |-> alert'[a]]
    BY <1>1
  <2> QED BY <2>1, <2>2
<1>8. \A a, b \in Live : Spaced(a, b) =>
        \/ Later(alert[a].age, MaxAge) >= Later(alert[b].age, MaxAge) + Throttle
        \/ MaxAge \in {Later(alert[a].age, MaxAge), Later(alert[b].age, MaxAge)}
  <2> TAKE a, b \in Live
  <2> DEFINE i == alert[a].age
             j == alert[b].age
  <2>1. i \in 0 .. MaxAge /\ j \in 0 .. MaxAge
    BY <1>2
  <2> HIDE DEF i, j
  <2>2. i >= j + Throttle \/ MaxAge \in {i, j}
        => \/ Later(i, MaxAge) >= Later(j, MaxAge) + Throttle
           \/ MaxAge \in {Later(i, MaxAge), Later(j, MaxAge)}
    BY <2>1 DEF Later
  <2> QED BY <2>2 DEF Spaced, i, j
<1>9. SpacedInv'
  <2> SUFFICES ASSUME NEW a \in Live', NEW b \in Live', a # b, alert'[a].pc = alert'[b].pc
               PROVE  Spaced(a, b)' \/ Spaced(b, a)'
    BY <1>7 DEF SpacedInv
  <2>1. Spaced(a, b) \/ Spaced(b, a)
    BY <1>6 DEF AlertInv, SpacedInv
  <2> QED BY <1>6, <1>8, <2>1 DEF Spaced
<1>10. MailInv'
  BY <1>1, <1>6 DEF AlertInv, MailInv
<1> QED BY <1>9, <1>10, TenMinutesQuiet DEF AlertInv

LEMMA SettleDownKept == ASSUME AlertInv, SettleDown PROVE AlertInv'
<1>1. UNCHANGED <<on, quiet, stopped, gone, check, up, alert, post>>
  BY DEF SettleDown, pcVars, serverVars
<1> QED BY <1>1, PcsAlone, TableAlone DEF AlertInv

(***************************************************************************)
(* All of them.                                                            *)
(***************************************************************************)
\* What is new in the table is of a PC that was gone and had not said so.
OnlyGone ==
  \A a \in Alert : alert[a] = NoAlert /\ alert'[a] # NoAlert
    => alert'[a].pc \in gone /\ stopped[alert'[a].pc] # "before"

LEMMA PostStep == PostInv /\ [AlertsNext]_alertVars => PostInv'
<1> SUFFICES ASSUME PostInv, [AlertsNext]_alertVars PROVE PostInv'
  OBVIOUS
<1>1. \/ UNCHANGED <<due, up, post>>
      \/ due' \subseteq due /\ UNCHANGED <<up, post>>
      \/ post # Idle /\ UNCHANGED <<due, up>>
      \/ post' = Idle
      \/ "post" \notin due' /\ up' # Down
      \/ up = Down /\ post' = post
  <2>1. CASE CheckRun
    BY <2>1 DEF CheckRun, CheckTick, Resolve, Judge, Raise, Runs
  <2>2. CASE PostRun
    BY <2>2, AlertConstants DEF PostRun, PostTick, Send, Mark
  <2>3. CASE World
    BY <2>3 DEF World, CheckFails, MarkFails, ServerStops, ServerStarts, SettleDown, Starts, Stops,
                Acknowledge, Runs, serverVars
  <2>4. CASE TenMinutes
    BY <2>4 DEF TenMinutes
  <2>5. CASE \E p \in Pc : Heard(p)
    BY <2>5 DEF Heard, serverVars
  <2>6. CASE UNCHANGED alertVars
    BY <2>6 DEF alertVars, serverVars
  <2> QED BY <2>1, <2>2, <2>3, <2>4, <2>5, <2>6 DEF AlertsNext
<1> QED BY <1>1, AlertConstants DEF PostInv

LEMMA AlertsStep == AlertInv /\ PostInv /\ [AlertsNext]_alertVars => AlertInv' /\ OnlyGone
<1> SUFFICES ASSUME AlertInv, PostInv, [AlertsNext]_alertVars PROVE AlertInv' /\ OnlyGone
  OBVIOUS
<1>0. AlertsEdited \/ UNCHANGED alert => OnlyGone
  BY DEF AlertsEdited, OnlyGone, Live
<1>1. CASE CheckRun
  <2>1. CASE CheckTick \/ Judge
    <3>1. UNCHANGED alert
      BY <2>1 DEF CheckTick, Judge
    <3> QED BY <1>0, <2>1, <3>1, CheckTickKept, JudgeKept
  <2>2. CASE Resolve
    BY <1>0, <2>2, ResolveKept
  <2>3. CASE Raise
    <3>1. check.at = "raise" /\ \A p \in check.pcs : p \in gone /\ stopped[p] # "before"
      BY <2>3 DEF Raise, AlertInv, JudgeInv
    <3>2. \A a \in Alert \ Live : alert'[a] = NoAlert \/ alert'[a].pc \in check.pcs
      BY <2>3, RaiseIs
    <3>3. OnlyGone
      BY <3>1, <3>2 DEF OnlyGone, Live
    <3> QED BY <2>3, <3>3, RaiseKept
  <2> QED BY <1>1, <2>1, <2>2, <2>3 DEF CheckRun
<1>2. CASE PostRun
  <2>1. CASE PostTick
    <3>1. UNCHANGED alert
      BY <2>1 DEF PostTick
    <3> QED BY <1>0, <2>1, <3>1, PostTickKept
  <2>2. CASE Send \/ Mark
    BY <1>0, <2>2, SendKept, MarkKept
  <2> QED BY <1>2, <2>1, <2>2 DEF PostRun
<1>3. CASE World
  <2>1. CASE CheckFails \/ ServerStarts \/ SettleDown
    <3>1. UNCHANGED alert
      BY <2>1 DEF CheckFails, ServerStarts, SettleDown
    <3> QED BY <1>0, <2>1, <3>1, CheckFailsKept, ServerStartsKept, SettleDownKept
  <2>2. CASE MarkFails \/ ServerStops
    BY <1>0, <2>2, MarkFailsKept, ServerStopsKept
  <2>3. CASE \E p \in Pc : Starts(p) \/ \E told \in BOOLEAN : Stops(p, told)
    <3>1. UNCHANGED alert
      BY <2>3 DEF Starts, Stops
    <3> QED BY <1>0, <2>3, <3>1, StartsKept, StopsKept
  <2>4. CASE \E a \in Alert : Acknowledge(a)
    BY <1>0, <2>4, AcknowledgeKept
  <2> QED BY <1>3, <2>1, <2>2, <2>3, <2>4 DEF World
<1>4. CASE TenMinutes
  <2>1. \A a \in Alert : alert[a] = NoAlert => alert'[a] = NoAlert
    BY <1>4 DEF TenMinutes, Aging, Live
  <2> QED BY <1>4, <2>1, TenMinutesKept DEF OnlyGone
<1>5. CASE \E p \in Pc : Heard(p)
  BY <1>0, <1>5, HeardKept
<1>6. CASE UNCHANGED alertVars
  <2>1. UNCHANGED <<on, quiet, stopped, gone, check, up, alert, post>>
    BY <1>6 DEF alertVars, pcVars, serverVars
  <2> QED BY <1>0, <2>1, PcsAlone, TableAlone DEF AlertInv
<1> QED BY <1>1, <1>2, <1>3, <1>4, <1>5, <1>6 DEF AlertsNext

\* What is told is told once and is true, for any PCs and periods, whatever fails in
\* between: the alerts of a PC are a throttle apart (alerts.rules.ts:118-125), no mail goes
\* out twice but one whose mark was lost (alerts.dispatcher.ts:91-94), and no PC is called
\* silent because the server was (alerts.scheduler.ts:66-75).
THEOREM ToldTruly == AlertsSpec => AlertsSound
<1>1. AlertInv => ToldOnce
  <2> SUFFICES ASSUME AlertInv PROVE ToldOnce
    OBVIOUS
  <2>1. \A a \in Live : alert[a].mail # "twice"
    BY LiveAre DEF AlertInv, AlertRow
  <2> QED BY <2>1 DEF AlertInv, SpacedInv, ToldOnce
<1>2. AlertInv /\ PostInv /\ [AlertsNext]_alertVars => [OnlyGone]_alertVars
  BY AlertsStep
<1>3. AlertsSpec => []ToldOnce /\ [][OnlyGone]_alertVars
  BY <1>1, <1>2, AlertsStart, AlertsStep, PostStep, PTL DEF AlertsSpec
<1> QED BY <1>3 DEF AlertsSound, OnlyRealOutages, OnlyGone

-----------------------------------------------------------------------------
\* Side by side.

LEMMA OneWatches ==
  [WatchersNext]_watchersVars => [WatchNext]_watchVars /\ [AlertsNext]_alertVars
<1> SUFFICES ASSUME [WatchersNext]_watchersVars
             PROVE  [WatchNext]_watchVars /\ [AlertsNext]_alertVars
  OBVIOUS
<1>1. CASE UNCHANGED watchersVars
  BY <1>1 DEF watchersVars
<1>2. CASE Only("watchdog", WatchNext)
  BY <1>2 DEF Only
<1>3. CASE Only("alerts", AlertsNext)
  BY <1>3 DEF Only
<1> QED
  BY <1>1, <1>2, <1>3 DEF WatchersNext

\* What the two watchers do side by side is what each of them does: all that is proved of the
\* watchdog and of the alerts holds of both.
THEOREM WatchersSideBySide == WatchersSpec => WatchSpec /\ AlertsSpec
<1>1. WatchersInit => WatchInit /\ AlertsInit
  BY DEF WatchersInit
<1> QED
  BY <1>1, OneWatches, PTL DEF WatchersSpec, WatchSpec, AlertsSpec
=============================================================================
