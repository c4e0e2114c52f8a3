---------------------------- MODULE OfficeProofs ----------------------------
(***************************************************************************)
(* The components that keep to themselves, for any intervals, windows,     *)
(* pages, tabs and accounts. The loop that owns the camera suspects nobody *)
(* whose screen changes, and spares no screen that stands still; every     *)
(* stretch of an application is recorded once and as it was seen; no       *)
(* picture of an open page hangs; the tabs sign out in time; and the token *)
(* a PC gets is its own. All of it holds of the runs that check them side  *)
(* by side (MCOffice).                                                     *)
(***************************************************************************)
EXTENDS MCOffice, FiniteSetTheorems, WellFoundedInduction, TLAPS

-----------------------------------------------------------------------------
\* The loop that owns the camera.

\* The fingerprints: none, or two ages.
SeenInv ==
  /\ activity \in [sampled : Never .. StaleAfter + 1, changed : Never .. FrozenAfter]
  /\ activity = Unseen \/ (activity.sampled >= 0 /\ activity.changed >= 0)

\* A pause is put behind every wake, so that it is never woken twice in a unit.
PauseInv ==
  /\ wait \in 0 .. Interval /\ spins \in 0 .. 1
  /\ wait = 0 => spins = 0

\* The slot to come is fired from the moment it begins, and no sleep goes past it.
SlotInv ==
  /\ phase \in 0 .. SlotLength - 1
  /\ next \in [ahead : {0, 1}, at : 0 .. SlotLength - 1]
  /\ fired = next.ahead
  /\ next.ahead = 0 => wait <= next.at - phase
  /\ next.ahead = 1 => wait <= SlotLength + next.at - phase

\* The counter of failures is short of the rest it earns, unless there is a rest.
PolicyInv ==
  /\ policy \in [failures : 0 .. FailuresBeforeCooldown, rest : Never .. Cooldown]
  /\ policy.rest = Never => policy.failures < FailuresBeforeCooldown

\* A fingerprint taken while the screen keeps changing finds a change.
BusyInv ==
  /\ busy \in [for : 0 .. StaleAfter + 2, seen : BOOLEAN]
  /\ activity # Unseen /\ activity.sampled <= StaleAfter /\ busy.for > activity.sampled
       => activity.changed <= activity.sampled
  /\ activity # Unseen /\ busy.for > 0 /\ ~touched => activity.changed = 0
  /\ busy.seen /\ busy.for > 0 => Watched

\* Of a screen watched for so long the first fingerprint is still to come within an
\* interval, or the last one is no older than that.
AwaitsFirst(long) == long + wait <= Interval /\ (tried = Never \/ long <= tried)
HasRecent == activity # Unseen /\ activity.sampled = tried /\ tried + wait <= Interval

BusySeenInv == busy.seen => AwaitsFirst(busy.for) \/ HasRecent

\* A still screen has not changed since the first fingerprint of its stillness.
StillInv ==
  /\ still \in 0 .. FrozenAfter + 2 * Interval
  /\ still > 0 => Watched
  /\ \/ AwaitsFirst(still)
     \/ /\ HasRecent /\ ~touched
        /\ activity.changed = FrozenAfter \/ activity.changed + Interval >= still

BaseInv ==
  /\ allowed \in BOOLEAN /\ locked \in BOOLEAN /\ spare \in BOOLEAN /\ touched \in BOOLEAN
  /\ engine \in {"works", "fault", "nothing"}
  /\ tried \in Never .. Interval

LoopInv ==
  /\ BaseInv /\ SeenInv /\ PauseInv /\ SlotInv /\ PolicyInv
  /\ BusyInv /\ BusySeenInv /\ StillInv

LEMMA LoopInit == CaptureInit => LoopInv
<1> SUFFICES ASSUME CaptureInit PROVE LoopInv
  OBVIOUS
<1> USE SamplingAssumption, SlotAssumption DEF CaptureInit, Never, Unseen, NextSlots
<1>1. BaseInv
  <2>1. tried \in Never .. Interval
    OBVIOUS
  <2> QED
    BY <2>1 DEF BaseInv
<1>4. SeenInv
  BY DEF SeenInv
<1>5. PauseInv /\ PolicyInv
  BY DEF PauseInv, PolicyInv
<1>2. SlotInv
  BY DEF SlotInv
<1>3. BusyInv /\ BusySeenInv /\ StillInv
  BY DEF BusyInv, BusySeenInv, StillInv, AwaitsFirst, Watched, CanSample
<1> QED
  BY <1>1, <1>2, <1>3, <1>4, <1>5 DEF LoopInv

\* After a wake there is a pause, which ends with the next fingerprint or slot.
LEMMA WakePauses ==
  ASSUME LoopInv, Wake
  PROVE  /\ wait' \in 1 .. Interval /\ wait' <= UntilSlot(next')
         /\ CanSample => tried' \in 0 .. Interval /\ tried' + wait' <= Interval
<1> USE SamplingAssumption, SlotAssumption
<1>1. /\ tried \in Never .. Interval /\ wait = 0
      /\ next \in [ahead : {0, 1}, at : 0 .. SlotLength - 1] /\ phase \in 0 .. SlotLength - 1
  BY DEF LoopInv, BaseInv, SlotInv, Wake
<1>2. /\ UntilSlot(next') \in Int /\ UntilSlot(next') >= 1
  <2>1. CASE Fires
    <3>1. next' \in NextSlots /\ phase' = phase
      BY <2>1 DEF Wake
    <3>2. UntilSlot(next') = 1 * SlotLength + next'.at - phase /\ next'.at \in 0 .. SlotLength - 1
      BY <3>1 DEF UntilSlot, NextSlots
    <3> QED
      BY <3>2, <1>1
  <2>2. CASE ~Fires
    <3>1. next' = next
      BY <2>2 DEF Wake
    <3>2. CASE next.ahead = 0
      <4>1. UntilSlot(next) = 0 * SlotLength + next.at - phase
        BY <3>2 DEF UntilSlot
      <4> QED
        BY <4>1, <3>1, <3>2, <2>2, <1>1 DEF Fires, SlotDue
    <3>3. CASE next.ahead = 1
      <4>1. UntilSlot(next) = 1 * SlotLength + next.at - phase
        BY <3>3 DEF UntilSlot
      <4> QED
        BY <4>1, <3>1, <1>1
    <3> QED
      BY <3>2, <3>3, <1>1
  <2> QED
    BY <2>1, <2>2
<1>3. CanSample' = CanSample /\ tried' \in Never .. Interval /\ (CanSample => tried' \in 0 .. Interval)
  <2>1. CASE Samples
    BY <2>1, <1>1 DEF Wake, Sample, worldVars, CanSample, Never
  <2>2. CASE ~Samples
    BY <2>2, <1>1 DEF Wake, Sample, worldVars, CanSample, Never, Samples, Due
  <2> QED
    BY <2>1, <2>2
<1>4. UntilSample' \in 1 .. Interval /\ (CanSample => tried' + UntilSample' <= Interval)
  <2>1. CASE ~CanSample
    <3>1. UntilSample' = Interval
      BY <2>1, <1>3 DEF UntilSample
    <3> QED
      BY <2>1, <3>1
  <2>2. CASE CanSample /\ Samples
    <3>1. tried' = 0
      BY <2>2 DEF Wake, Sample
    <3> QED
      BY <2>2, <3>1, <1>3 DEF UntilSample, UntilSampleSpinning, Never
  <2>3. CASE CanSample /\ ~Samples
    <3>1. tried' = tried /\ activity' = activity /\ tried # Never /\ tried < (IF IsFrozen THEN 1 ELSE Interval)
      BY <2>3, <1>1 DEF Wake, Sample, Samples, Due, Never
    <3>2. IsFrozen' = IsFrozen
      BY <3>1 DEF IsFrozen
    <3> QED
      BY <2>3, <3>1, <3>2, <1>1, <1>3 DEF UntilSample, UntilSampleSpinning, Never
  <2> QED
    BY <2>1, <2>2, <2>3
<1>5. wait' = Lesser(UntilSample', UntilSlot(next'))
  BY DEF Wake
<1>6. wait' \in 1 .. Interval /\ wait' <= UntilSample' /\ wait' <= UntilSlot(next')
  <2>1. \/ wait' = UntilSample' /\ UntilSample' <= UntilSlot(next')
        \/ wait' = UntilSlot(next') /\ UntilSlot(next') <= UntilSample'
    BY <1>2, <1>4, <1>5 DEF Lesser
  <2> QED
    BY <2>1, <1>2, <1>4
<1>7. CASE CanSample
  <2>1. /\ tried' \in 0 .. Interval /\ tried' + UntilSample' <= Interval
        /\ UntilSample' \in 1 .. Interval /\ wait' \in 1 .. Interval /\ wait' <= UntilSample'
    BY <1>3, <1>4, <1>6, <1>7, Zenon
  <2>3. PICK t \in Int, w \in Int, u \in Int : tried' = t /\ wait' = w /\ UntilSample' = u
    BY <2>1
  <2>2. tried' + wait' <= Interval
    BY <2>1, <2>3
  <2> QED
    BY <2>1, <2>2, <1>6, Zenon
<1>8. CASE ~CanSample
  BY <1>6, <1>8
<1> QED
  BY <1>7, <1>8

-----------------------------------------------------------------------------
\* Every step keeps the invariant: the wakes,
LEMMA WakeKeeps == LoopInv /\ Wake => LoopInv'
<1> SUFFICES ASSUME LoopInv, Wake PROVE LoopInv'
  OBVIOUS
<1> USE SamplingAssumption, SlotAssumption
<1>1. /\ wait = 0 /\ wait' \in 1 .. Interval
      /\ CanSample => tried' \in 0 .. Interval /\ tried' + wait' <= Interval
      /\ UNCHANGED <<worldVars, phase, busy, still>>
  BY WakePauses DEF Wake
<1>2. /\ BaseInv /\ SeenInv /\ PauseInv /\ SlotInv /\ PolicyInv
      /\ BusyInv /\ BusySeenInv /\ StillInv
  BY DEF LoopInv
<1>3. Watched' = Watched /\ CanSample' = CanSample
  BY <1>1 DEF Watched, CanSample, worldVars
<1>4. \/ Samples /\ tried' = 0 /\ GetsFrame
           /\ activity' = [sampled |-> 0, changed |-> IF activity = Unseen \/ touched THEN 0 ELSE activity.changed]
           /\ touched' = FALSE
      \/ Samples /\ tried' = 0 /\ ~GetsFrame /\ activity' = activity /\ touched' = touched
      \/ ~Samples /\ tried' = tried /\ activity' = activity /\ touched' = touched
  BY DEF Wake, Sample
<1>5. BaseInv'
  <2>1. tried' \in {0, tried} /\ (touched' = touched \/ touched' = FALSE)
    BY <1>4
  <2>3. touched' \in BOOLEAN
    BY <2>1, <1>2, Zenon DEF BaseInv
  <2>2. tried' \in Never .. Interval /\ touched' \in BOOLEAN
    BY <2>1, <2>3, <1>2 DEF BaseInv, Never
  <2> QED
    BY <2>2, <1>1, <1>2 DEF BaseInv, worldVars
<1>6. SeenInv'
  BY <1>2, <1>4 DEF SeenInv, Never, Unseen
<1>7. PauseInv'
  <2>1. spins' \in 0 .. 1
    BY <1>1, <1>2 DEF Wake, Lesser, PauseInv
  <2> QED
    BY <2>1, <1>1 DEF PauseInv
<1>8. SlotInv'
  <2>1. wait' <= UntilSlot(next')
    BY WakePauses
  <2>2. CASE Fires
    <3>1. next' \in NextSlots /\ fired' = fired + 1 /\ next.ahead = 0
      BY <2>2 DEF Wake, Fires, SlotDue
    <3>2. next'.ahead = 1 /\ next' \in [ahead : {0, 1}, at : 0 .. SlotLength - 1]
      BY <3>1 DEF NextSlots
    <3>3. UntilSlot(next') = SlotLength + next'.at - phase
      BY <3>2, <1>2 DEF UntilSlot, SlotInv
    <3> QED
      BY <3>1, <3>2, <3>3, <2>1, <1>1, <1>2 DEF SlotInv
  <2>3. CASE ~Fires
    <3>1. next' = next /\ fired' = fired
      BY <2>3 DEF Wake
    <3>2. /\ next.ahead = 0 => UntilSlot(next) = next.at - phase
          /\ next.ahead = 1 => UntilSlot(next) = SlotLength + next.at - phase
      BY <1>2 DEF UntilSlot, SlotInv
    <3> QED
      BY <3>1, <3>2, <2>1, <1>1, <1>2 DEF SlotInv
  <2> QED
    BY <2>2, <2>3
<1>9. PolicyInv'
  <2>1. policy' \in {policy, AfterCapture}
    BY DEF Wake
  <2>2. CASE policy' = policy
    BY <2>2, <1>2 DEF PolicyInv
  <2>3. CASE policy' = AfterCapture /\ ~TriesPrimary
    <3>1. AfterCapture = policy
      BY <2>3 DEF AfterCapture
    <3> QED
      BY <2>3, <3>1, <1>2 DEF PolicyInv
  <2>4. CASE policy' = AfterCapture /\ TriesPrimary
    <3>1. policy.rest \in {Never, 0} /\ Failures \in 0 .. FailuresBeforeCooldown - 1
      BY <2>4, <1>2 DEF PolicyInv, TriesPrimary, Failures, Rested, Never
    <3>2. \E n \in 0 .. FailuresBeforeCooldown, t \in {Never, Cooldown} :
            policy' = [failures |-> n, rest |-> t] /\ (t = Never => n < FailuresBeforeCooldown)
      <4>1. CASE engine = "works"
        <5>1. policy' = [failures |-> 0, rest |-> Never]
          BY <4>1, <2>4 DEF AfterCapture
        <5> QED
          BY <5>1
      <4>2. CASE engine = "fault"
        <5>1. \/ policy' = [failures |-> Failures + 1, rest |-> Cooldown]
              \/ policy' = [failures |-> Failures + 1, rest |-> Never] /\ Failures + 1 < FailuresBeforeCooldown
          BY <4>2, <2>4, <3>1 DEF AfterCapture
        <5> QED
          BY <5>1, <3>1 DEF Never
      <4>3. CASE engine = "nothing"
        <5>1. policy' = [failures |-> Failures, rest |-> Never]
          BY <4>3, <2>4 DEF AfterCapture
        <5> QED
          BY <5>1, <3>1
      <4> QED
        BY <4>1, <4>2, <4>3, <1>2 DEF BaseInv
    <3> QED
      BY <3>2 DEF PolicyInv, Never
  <2> QED
    BY <2>1, <2>2, <2>3, <2>4
<1>10. BusyInv'
  BY <1>1, <1>2, <1>3, <1>4 DEF BusyInv, BaseInv, SeenInv, Unseen, Never
<1>11. ASSUME CanSample /\ spare
       PROVE  \/ /\ tried' = 0 /\ activity' # Unseen /\ activity'.sampled = 0
                 /\ ~touched' /\ activity'.changed >= 0
                 /\ activity # Unseen /\ ~touched => activity'.changed = activity.changed
              \/ tried' = tried /\ tried # Never /\ activity' = activity /\ touched' = touched
  <2>1. CASE Samples
    <3>1. GetsFrame
      BY <1>11 DEF GetsFrame
    <3> QED
      BY <1>2, <1>4, <2>1, <3>1 DEF Unseen, Never, SeenInv
  <2>2. CASE ~Samples
    BY <2>2, <1>4, <1>11 DEF Samples, Due
  <2> QED
    BY <2>1, <2>2
<1>w. PICK w \in 1 .. Interval : wait' = w
  BY <1>1
<1>12. ASSUME NEW long \in Nat, long > 0 => Watched, AwaitsFirst(long) \/ HasRecent
       PROVE  \/ AwaitsFirst(long)'
              \/ HasRecent' /\ activity' = activity /\ touched' = touched /\ ~AwaitsFirst(long)
              \/ /\ HasRecent' /\ ~touched' /\ activity'.changed >= 0
                 /\ activity # Unseen /\ ~touched => activity'.changed = activity.changed
  <2>1. CASE long = 0
    BY <2>1, <1>1, <1>5, <1>w DEF AwaitsFirst, BaseInv, Never
  <2>2. CASE /\ tried' = 0 /\ activity' # Unseen /\ activity'.sampled = 0
             /\ ~touched' /\ activity'.changed >= 0
             /\ activity # Unseen /\ ~touched => activity'.changed = activity.changed
    <3>2. HasRecent'
      BY <2>2, <1>w, <1>1 DEF HasRecent
    <3> QED
      BY <2>2, <3>2
  <2>3. CASE long > 0 /\ tried' = tried /\ tried # Never /\ activity' = activity /\ touched' = touched
    BY <2>3, <1>1, <1>2, <1>12, <1>w DEF AwaitsFirst, HasRecent, Watched
  <2> QED
    BY <2>1, <2>2, <2>3, <1>11, <1>12 DEF Watched
<1>13. BusySeenInv'
  <2>1. CASE busy.seen
    <3>1. busy.for \in Nat /\ (busy.for > 0 => Watched) /\ (AwaitsFirst(busy.for) \/ HasRecent)
      BY <2>1, <1>2 DEF BusySeenInv, BusyInv
    <3> QED
      BY <3>1, <1>1, <1>w, <1>12 DEF BusySeenInv, AwaitsFirst
  <2>2. CASE ~busy.seen
    BY <2>2, <1>1 DEF BusySeenInv
  <2> QED
    BY <2>1, <2>2
<1>14. StillInv'
  <2>1. /\ still \in Nat /\ (still > 0 => Watched) /\ (AwaitsFirst(still) \/ HasRecent)
        /\ AwaitsFirst(still) => still <= Interval
    BY <1>1, <1>2 DEF StillInv, AwaitsFirst
  <2> QED
    <3>1. CASE AwaitsFirst(still)'
      BY <3>1, <1>1, <1>2, <1>3 DEF StillInv
    <3>2. CASE HasRecent' /\ activity' = activity /\ touched' = touched /\ ~AwaitsFirst(still)
      BY <3>2, <1>1, <1>2, <1>3 DEF StillInv
    <3>3. CASE /\ HasRecent' /\ ~touched' /\ activity'.changed >= 0
               /\ activity # Unseen /\ ~touched => activity'.changed = activity.changed
      <4>1. PICK n : n = activity'.changed
        OBVIOUS
      <4>2. n \in 0 .. FrozenAfter
        BY <4>1, <3>3, <1>6 DEF SeenInv, Never
      <4>3. CASE AwaitsFirst(still)
        <5>1. n + Interval >= still
          BY <4>2, <4>3, <2>1
        <5> QED
          BY <5>1, <4>1, <3>3, <1>1, <1>2, <1>3 DEF StillInv
      <4>4. CASE ~AwaitsFirst(still)
        BY <4>1, <4>4, <3>3, <1>1, <1>2, <1>3 DEF StillInv, HasRecent
      <4> QED
        BY <4>3, <4>4
    <3>4. \/ AwaitsFirst(still)'
          \/ HasRecent' /\ activity' = activity /\ touched' = touched /\ ~AwaitsFirst(still)
          \/ /\ HasRecent' /\ ~touched' /\ activity'.changed >= 0
             /\ activity # Unseen /\ ~touched => activity'.changed = activity.changed
      BY <2>1, <1>1, <1>w, <1>12 DEF AwaitsFirst
    <3> QED
      BY <3>1, <3>2, <3>3, <3>4
<1> QED
  BY <1>5, <1>6, <1>7, <1>8, <1>9, <1>10, <1>13, <1>14 DEF LoopInv

\* the passing of time,
LEMMA SleepKeeps == LoopInv /\ (\E moved \in BOOLEAN : Sleeps(moved)) => LoopInv'
<1> SUFFICES ASSUME LoopInv, NEW moved \in BOOLEAN, Sleeps(moved) PROVE LoopInv'
  OBVIOUS
<1> USE SamplingAssumption, SlotAssumption
<1>1. /\ BaseInv /\ SeenInv /\ PauseInv /\ SlotInv /\ PolicyInv
      /\ BusyInv /\ BusySeenInv /\ StillInv
  BY DEF LoopInv
<1>2. /\ wait \in 1 .. Interval /\ wait' = wait - 1 /\ UNCHANGED worldVars
      /\ touched' = (touched \/ moved) /\ spins' = 0
      /\ tried' = Later(tried, Interval)
      /\ activity' = [sampled |-> Later(activity.sampled, StaleAfter + 1),
                      changed |-> Later(activity.changed, FrozenAfter)]
  BY <1>1 DEF Sleeps, PauseInv
<1>3. Watched' = Watched /\ CanSample' = CanSample
  BY <1>2 DEF Watched, CanSample, worldVars
<1>4. BaseInv'
  <2>1. tried' \in Never .. Interval
    BY <1>1, <1>2 DEF BaseInv, Later, Never
  <2>2. touched' \in BOOLEAN
    BY <1>2
  <2> QED
    BY <2>1, <2>2, <1>1, <1>2 DEF BaseInv, worldVars
<1>5. SeenInv' /\ (activity' = Unseen <=> activity = Unseen)
  <2>1. CASE activity = Unseen
    BY <2>1, <1>2 DEF SeenInv, Later, Never, Unseen
  <2>2. CASE activity # Unseen
    BY <2>2, <1>1, <1>2 DEF SeenInv, Later, Never, Unseen
  <2> QED
    BY <2>1, <2>2
<1>6. PauseInv'
  BY <1>2 DEF PauseInv
<1>7. SlotInv'
  <2>1. CASE phase = SlotLength - 1
    <3>1. next' = [next EXCEPT !.ahead = @ - 1] /\ phase' = 0 /\ fired' = 0
      BY <2>1 DEF Sleeps
    <3>2. next.ahead = 1
      BY <2>1, <1>1, <1>2 DEF SlotInv
    <3>3. next'.ahead = 0 /\ next'.at = next.at /\ next' \in [ahead : {0, 1}, at : 0 .. SlotLength - 1]
      BY <3>1, <3>2, <1>1 DEF SlotInv
    <3> QED
      BY <2>1, <3>1, <3>2, <3>3, <1>1, <1>2 DEF SlotInv
  <2>2. CASE phase # SlotLength - 1
    <3>1. next' = next /\ phase' = phase + 1 /\ fired' = fired
      BY <2>2 DEF Sleeps
    <3> QED
      BY <2>2, <3>1, <1>1, <1>2 DEF SlotInv
  <2> QED
    BY <2>1, <2>2
<1>8. PolicyInv'
  <2>1. policy' = [policy EXCEPT !.rest = IF policy.rest > 0 THEN policy.rest - 1 ELSE policy.rest]
    BY DEF Sleeps
  <2> QED
    BY <2>1, <1>1 DEF PolicyInv, Never
<1>9. \/ busy' = [for |-> 0, seen |-> TRUE]
      \/ moved /\ busy' = [for |-> Lesser(busy.for + 1, StaleAfter + 2), seen |-> busy.seen /\ Watched]
  BY DEF Sleeps
<1>w. PICK w \in 0 .. Interval - 1 : wait' = w
  BY <1>2
<1>t. PICK t \in Never .. Interval : tried' = t
  BY <1>4 DEF BaseInv
<1>10. AwaitsFirst(0)'
  BY <1>w, <1>t DEF AwaitsFirst, Never
<1>11. ASSUME NEW long \in Nat, AwaitsFirst(long), NEW grown \in Nat, grown <= long + 1
       PROVE  AwaitsFirst(grown)'
  <2>1. grown + w <= Interval
    BY <1>2, <1>w, <1>11 DEF AwaitsFirst
  <2>2. t = Never \/ grown <= t
    BY <1>1, <1>2, <1>t, <1>11 DEF AwaitsFirst, Later, BaseInv, Never
  <2> QED
    BY <2>1, <2>2, <1>w, <1>t DEF AwaitsFirst
<1>12. HasRecent => HasRecent'
  <2>1. SUFFICES ASSUME HasRecent PROVE HasRecent'
    OBVIOUS
  <2>2. activity.sampled = tried /\ tried \in 0 .. Interval - 1 /\ tried + wait <= Interval
    BY <2>1, <1>1, <1>2 DEF HasRecent, SeenInv, BaseInv
  <2>3. t = tried + 1 /\ activity'.sampled = tried + 1
    BY <2>2, <1>2, <1>t DEF Later, Never
  <2>4. tried + 1 + w <= Interval
    BY <2>2, <1>2, <1>w
  <2> QED
    BY <2>1, <2>3, <2>4, <1>5, <1>w, <1>t DEF HasRecent
<1>13. BusyInv'
  <2>1. CASE busy' = [for |-> 0, seen |-> TRUE]
    BY <2>1, <1>5 DEF BusyInv, SeenInv, Never
  <2>2. CASE moved /\ busy' = [for |-> Lesser(busy.for + 1, StaleAfter + 2), seen |-> busy.seen /\ Watched]
    <3>1. busy' \in [for : 0 .. StaleAfter + 2, seen : BOOLEAN] /\ busy'.for <= busy.for + 1
      BY <2>2, <1>1 DEF BusyInv, Lesser
    <3>2. (busy'.seen => Watched') /\ touched'
      BY <2>2, <1>2, <1>3
    <3>3. ASSUME activity' # Unseen, activity'.sampled <= StaleAfter, busy'.for > activity'.sampled
          PROVE  activity'.changed <= activity'.sampled
      <4>1. PICK age \in 0 .. StaleAfter + 1, last \in 0 .. FrozenAfter :
              activity.sampled = age /\ activity.changed = last
        BY <3>3, <1>1, <1>5 DEF SeenInv, Never
      <4>2. activity'.sampled = age + 1
        BY <4>1, <3>3, <1>2 DEF Later, Never
      <4>3. activity.changed <= age
        BY <4>1, <4>2, <3>1, <3>3, <1>1, <1>5 DEF BusyInv
      <4> QED
        BY <4>1, <4>2, <4>3, <1>2 DEF Later, Never
    <3> QED
      BY <3>1, <3>2, <3>3 DEF BusyInv
  <2> QED
    BY <2>1, <2>2, <1>9
<1>14. BusySeenInv'
  <2>1. CASE busy' = [for |-> 0, seen |-> TRUE]
    BY <2>1, <1>10 DEF BusySeenInv, AwaitsFirst
  <2>2. CASE moved /\ busy' = [for |-> Lesser(busy.for + 1, StaleAfter + 2), seen |-> busy.seen /\ Watched]
    <3>1. SUFFICES ASSUME busy.seen PROVE AwaitsFirst(busy.for)' \/ HasRecent'
      BY <2>2 DEF BusySeenInv
    <3>2. PICK long \in Nat, grown \in Nat : long = busy.for /\ busy'.for = grown /\ grown <= long + 1
      BY <2>2, <1>1 DEF BusyInv, Lesser
    <3>3. AwaitsFirst(long) \/ HasRecent
      BY <3>1, <3>2, <1>1 DEF BusySeenInv
    <3> QED
      BY <3>2, <3>3, <1>11, <1>12, <1>w DEF AwaitsFirst
  <2> QED
    BY <2>1, <2>2, <1>9
<1>15. StillInv'
  <2>1. CASE still' = 0
    BY <2>1, <1>10 DEF StillInv, AwaitsFirst
  <2>2. CASE still' # 0
    <3>1. ~moved /\ Watched /\ still' = Lesser(still + 1, FrozenAfter + 2 * Interval)
      BY <2>2 DEF Sleeps
    <3>2. PICK long \in Nat, grown \in 0 .. FrozenAfter + 2 * Interval :
            long = still /\ still' = grown /\ grown <= long + 1
      BY <3>1, <1>1 DEF StillInv, Lesser
    <3>3. CASE AwaitsFirst(long)
      BY <3>1, <3>2, <3>3, <1>3, <1>11, <1>w DEF StillInv, AwaitsFirst
    <3>4. CASE ~AwaitsFirst(long)
      <4>1. PICK last \in 0 .. FrozenAfter : activity.changed = last
        BY <3>2, <3>4, <1>1 DEF StillInv, SeenInv, HasRecent
      <4>2. HasRecent /\ ~touched /\ (last = FrozenAfter \/ last + Interval >= long)
        BY <4>1, <3>2, <3>4, <1>1 DEF StillInv
      <4>3. activity'.changed = IF last < FrozenAfter THEN last + 1 ELSE FrozenAfter
        BY <4>1, <1>2 DEF Later, Never
      <4>4. PICK young \in 0 .. FrozenAfter : activity'.changed = young
        BY <4>3
      <4>5. young = FrozenAfter \/ young + Interval >= grown
        BY <4>2, <4>3, <4>4, <3>2
      <4>6. ~touched'
        BY <4>2, <3>1, <1>2
      <4> QED
        BY <4>2, <4>4, <4>5, <4>6, <3>1, <3>2, <1>3, <1>12 DEF StillInv
    <3> QED
      BY <3>3, <3>4
  <2> QED
    BY <2>1, <2>2
<1> QED
  BY <1>4, <1>5, <1>6, <1>7, <1>8, <1>13, <1>14, <1>15 DEF LoopInv

\* and what people and engines do.
LEMMA DeskKeeps == LoopInv /\ Desk => LoopInv'
<1> SUFFICES ASSUME LoopInv, Desk PROVE LoopInv'
  OBVIOUS
<1>1. /\ BaseInv /\ SeenInv /\ PauseInv /\ SlotInv /\ PolicyInv
      /\ BusyInv /\ BusySeenInv /\ StillInv
  BY DEF LoopInv
<1>2. /\ UNCHANGED <<policy, touched, activity, tried, wait, spins, phase, next, fired>>
      /\ busy' = [for |-> IF locked' THEN 0 ELSE busy.for, seen |-> busy.seen /\ Watched']
      /\ still' = IF Watched' THEN still ELSE 0
  BY DEF Desk, cameraVars, slotVars
<1>3. BaseInv'
  BY <1>1, <1>2 DEF BaseInv, Desk
<1>4. SeenInv' /\ PauseInv' /\ SlotInv' /\ PolicyInv'
  BY <1>1, <1>2 DEF SeenInv, PauseInv, SlotInv, PolicyInv
<1>5. AwaitsFirst(0) /\ HasRecent' = HasRecent /\ \A n : AwaitsFirst(n)' = AwaitsFirst(n)
  BY <1>1, <1>2, SamplingAssumption DEF AwaitsFirst, HasRecent, PauseInv, BaseInv, Never
<1>6. busy'.for \in {0, busy.for} /\ (busy'.seen => busy.seen /\ Watched')
  BY <1>2
<1>7. BusyInv'
  <2>1. busy' \in [for : 0 .. StaleAfter + 2, seen : BOOLEAN]
    BY <1>1, <1>2, SamplingAssumption DEF BusyInv
  <2>2. UNCHANGED <<activity, touched>>
    BY <1>2
  <2>3. busy'.seen /\ busy'.for > 0 => Watched'
    BY <1>6
  <2>4. CASE busy'.for = 0
    BY <2>1, <2>2, <2>4, <1>1 DEF BusyInv, SeenInv, Never
  <2>5. CASE busy'.for = busy.for
    BY <2>1, <2>2, <2>3, <2>5, <1>1 DEF BusyInv
  <2> QED
    BY <2>4, <2>5, <1>6
<1>8. BusySeenInv'
  BY <1>1, <1>2, <1>5, <1>6 DEF BusySeenInv, AwaitsFirst
<1>9. StillInv'
  BY <1>1, <1>2, <1>5, SamplingAssumption DEF StillInv, AwaitsFirst
<1> QED
  BY <1>3, <1>4, <1>7, <1>8, <1>9 DEF LoopInv

LEMMA LoopKept == CaptureSpec => []LoopInv
<1>1. LoopInv /\ [CaptureNext]_captureVars => LoopInv'
  <2> SUFFICES ASSUME LoopInv, [CaptureNext]_captureVars PROVE LoopInv'
    OBVIOUS
  <2>1. CASE CaptureNext
    BY <2>1, WakeKeeps, SleepKeeps, DeskKeeps DEF CaptureNext
  <2>2. CASE UNCHANGED captureVars
    BY <2>2 DEF captureVars, worldVars, cameraVars, slotVars, LoopInv, BaseInv, SeenInv, PauseInv,
                SlotInv, PolicyInv, BusyInv, BusySeenInv, StillInv, AwaitsFirst, HasRecent, Watched,
                CanSample
  <2> QED
    BY <2>1, <2>2
<1> QED
  BY <1>1, LoopInit, PTL DEF CaptureSpec

\* The shapes; and the loop never spins (AgentHost.cs:632-649).
THEOREM NoSpinning == CaptureSpec => []CaptureTypeOK
<1>1. LoopInv => CaptureTypeOK
  <2> SUFFICES ASSUME LoopInv PROVE CaptureTypeOK
    OBVIOUS
  <2>1. {allowed, locked, spare, touched} \subseteq BOOLEAN
    BY Zenon DEF LoopInv, BaseInv
  <2> QED
    BY <2>1 DEF LoopInv, BaseInv, SeenInv, PauseInv, SlotInv, PolicyInv, CaptureTypeOK
<1> QED
  BY <1>1, LoopKept, PTL

\* For any intervals and slots, whatever happens at the desk: nobody whose screen changes
\* stays suspected, a screen that stands still is found out, and every slot is fired
\* once (AgentHost.CaptureLoopAsync, ScreenActivity).
THEOREM SuspicionIsFair == CaptureSpec => []LoopSound
<1>1. LoopInv => LoopSound
  <2> SUFFICES ASSUME LoopInv PROVE LoopSound
    OBVIOUS
  <2> USE SamplingAssumption, SlotAssumption
  <2>1. HonestSpared
    <3> SUFFICES ASSUME IsFrozen
                 PROVE  busy.for <= StaleAfter /\ (busy.seen => busy.for <= Interval)
      BY DEF HonestSpared
    <3>1. PICK age \in 0 .. StaleAfter : activity.sampled = age
      BY DEF IsFrozen, LoopInv, SeenInv
    <3>2. busy.for <= age
      BY <3>1 DEF IsFrozen, LoopInv, BusyInv, SeenInv, Never
    <3>3. busy.seen => AwaitsFirst(busy.for) \/ age <= Interval
      BY <3>1 DEF LoopInv, BusySeenInv, PauseInv, HasRecent, BaseInv, Never
    <3> QED
      BY <3>1, <3>2, <3>3 DEF AwaitsFirst, LoopInv, PauseInv, BusyInv
  <2>2. JigglerCaught
    <3> SUFFICES ASSUME still >= FrozenAfter + 2 * Interval PROVE IsFrozen
      BY DEF JigglerCaught
    <3>1. ~AwaitsFirst(still)
      BY DEF AwaitsFirst, LoopInv, StillInv, PauseInv
    <3>2. HasRecent /\ (activity.changed = FrozenAfter \/ activity.changed + Interval >= still)
      BY <3>1 DEF LoopInv, StillInv
    <3>3. activity.changed \in 0 .. FrozenAfter
      BY <3>2 DEF LoopInv, SeenInv, HasRecent
    <3>4. activity.sampled <= Interval /\ activity.sampled >= 0
      BY <3>2 DEF HasRecent, LoopInv, PauseInv, BaseInv, SeenInv
    <3>5. activity.sampled <= StaleAfter
      BY <3>4, <3>2 DEF HasRecent, LoopInv, SeenInv, Never
    <3> QED
      BY <3>2, <3>3, <3>5 DEF IsFrozen, HasRecent, LoopInv, StillInv
  <2>3. SlotsOnce
    BY DEF SlotsOnce, LoopInv, SlotInv, PauseInv
  <2> QED
    BY <2>1, <2>2, <2>3 DEF LoopSound
<1> QED
  BY <1>1, LoopKept, PTL

-----------------------------------------------------------------------------
\* The links of a page.
Answer == [id : 1 .. 3, phase : {"out", "back", "failed"}, signed : 0 .. MaxSigned, items : SUBSET Picture]

ShapeInv ==
  /\ UNION {gone, lapsed, painted, excused} \subseteq Picture
  /\ image \in [Picture -> {"loading", "painted", "broken"}]
  /\ tries \in [Picture -> 0 .. 2] /\ link \in [Picture -> 0 .. MaxSigned]
  /\ moment \in 0 .. MaxSigned /\ origin \in 0 .. moment

\* There is one request at most; one that is not in flight any more was made for
\* what the page has left, and has been answered.  Only an answer has items.
CallInv ==
  /\ inFlight \in BOOLEAN /\ newest \in Nat
  /\ \/ calls = {} /\ ~inFlight
     \/ \E c \in Answer :
          /\ calls = {c} /\ (c.phase # "back" => c.items = {})
          /\ inFlight => newest = c.id
          /\ ~inFlight => newest = 0 /\ c.phase # "out"

\* A picture that has failed once waits for an answer, or loads a link that has lapsed
\* only if it is excused; it is not among those that were painted, so that the answer
\* can serve it.  And what has failed twice is gone or excused.
WaitInv ==
  \A p \in Picture :
    /\ image[p] = "broken" => tries[p] = 2 \/ (tries[p] = 1 /\ inFlight)
    /\ tries[p] = 1 => p \notin painted /\ image[p] \in {"loading", "broken"}
    /\ tries[p] = 1 /\ image[p] = "loading" /\ p \in lapsed => p \in excused
    /\ tries[p] = 2 => p \in gone \/ p \in excused

PageInv == ShapeInv /\ CallInv /\ (Memoised => WaitInv)

LEMMA UrlInitInv == UrlInit => PageInv
<1> SUFFICES ASSUME UrlInit PROVE PageInv
  OBVIOUS
<1> USE PageAssumption DEF UrlInit
<1>1. ShapeInv
  BY DEF ShapeInv
<1>2. CallInv
  BY DEF CallInv
<1>3. WaitInv
  BY DEF WaitInv
<1> QED
  BY <1>1, <1>2, <1>3 DEF PageInv

LEMMA BreaksKeeps == ASSUME PageInv, NEW p \in Picture, Breaks(p) PROVE PageInv'
<1> USE PageAssumption DEF Breaks, netVars
<1>1. ShapeInv'
  BY DEF PageInv, ShapeInv, Dead, NoLongerPainted
<1>2. Back = {} /\ tries[p] \in 0 .. 1 /\ tries' = [tries EXCEPT ![p] = @ + 1]
  BY DEF PageInv, ShapeInv, Dead
<1>3. CallInv' /\ (tries[p] = 0 => inFlight') /\ (inFlight => inFlight')
  <2>1. CASE tries[p] = 0 /\ ~inFlight
    <3>1. calls = {}
      BY <1>2, <2>1 DEF PageInv, CallInv, Back, Answer
    <3> DEFINE c(n) == [id |-> n, phase |-> "out", signed |-> 0, items |-> {}]
    <3>2. PICK n \in 1 .. 3 : calls' = {c(n)} /\ inFlight' = TRUE /\ newest' = n
      BY <2>1, <3>1 DEF Refresh
    <3>3. c(n) \in Answer /\ c(n).id = n /\ c(n).items = {}
      BY DEF Answer
    <3> HIDE DEF c
    <3> QED
      BY <3>2, <3>3 DEF CallInv
  <2>2. CASE ~(tries[p] = 0 /\ ~inFlight)
    <3>1. UNCHANGED <<inFlight, calls, newest>>
      BY <1>2, <2>2 DEF Refresh
    <3> QED
      BY <3>1, <2>2 DEF PageInv, CallInv
  <2> QED
    BY <2>1, <2>2
<1>4. ASSUME Memoised PROVE WaitInv'
  <2>1. /\ WaitInv /\ excused \subseteq excused' /\ painted' = painted \ {p}
        /\ image' = [image EXCEPT ![p] = "broken"]
        /\ UNCHANGED <<lapsed, gone>>
    BY <1>4 DEF PageInv, NoLongerPainted
  <2>2. ASSUME NEW q \in Picture, q # p
        PROVE  /\ image'[q] = "broken" => tries'[q] = 2 \/ (tries'[q] = 1 /\ inFlight')
               /\ tries'[q] = 1 => q \notin painted' /\ image'[q] \in {"loading", "broken"}
               /\ tries'[q] = 1 /\ image'[q] = "loading" /\ q \in lapsed' => q \in excused'
               /\ tries'[q] = 2 => q \in gone' \/ q \in excused'
    BY <1>2, <1>3, <2>1, <2>2 DEF WaitInv, PageInv, ShapeInv
  <2>3. tries[p] = 1 => p \in gone \/ p \in excused'
    BY <2>1 DEF WaitInv, Pending
  <2>4. tries'[p] \in {1, 2} /\ (tries'[p] = 2 => tries[p] = 1) /\ (tries'[p] = 1 => tries[p] = 0)
    BY <1>2 DEF PageInv, ShapeInv
  <2>5. image'[p] = "broken"
    BY <2>1 DEF PageInv, ShapeInv
  <2> QED
    BY <1>3, <2>1, <2>2, <2>3, <2>4, <2>5 DEF WaitInv
<1> QED
  BY <1>1, <1>3, <1>4 DEF PageInv

LEMMA LoadsKeeps == ASSUME PageInv, NEW p \in Picture, Loads(p) PROVE PageInv'
<1> USE PageAssumption DEF Loads, netVars
<1>1. ShapeInv'
  BY DEF PageInv, ShapeInv
<1>2. CallInv'
  BY DEF PageInv, CallInv
<1>3. ASSUME Memoised PROVE WaitInv'
  BY <1>3 DEF PageInv, ShapeInv, WaitInv
<1> QED
  BY <1>1, <1>2, <1>3 DEF PageInv

LEMMA ReshownKeeps == ASSUME PageInv, NEW p \in Picture, Reshown(p) PROVE PageInv'
<1> USE PageAssumption DEF Reshown, netVars
<1>1. ShapeInv'
  BY DEF PageInv, ShapeInv
<1>2. CallInv'
  BY DEF PageInv, CallInv
<1>3. ASSUME Memoised PROVE WaitInv'
  BY <1>3 DEF PageInv, ShapeInv, WaitInv
<1> QED
  BY <1>1, <1>2, <1>3 DEF PageInv

LEMMA AnswerKeeps == ASSUME PageInv, NEW c \in calls, AnswerArrives(c) PROVE PageInv'
<1> USE PageAssumption DEF AnswerArrives, netVars
<1>1. ShapeInv'
  BY DEF PageInv, ShapeInv
<1>2. c \in Answer /\ c.phase = "out" /\ c.items = {} /\ calls = {c} /\ inFlight /\ newest = c.id
  BY DEF PageInv, CallInv, Out
<1>3. PICK d \in Answer : calls' = {d} /\ d.id = c.id /\ (d.phase # "back" => d.items = {})
  <2>1. ASSUME NEW items \in SUBSET Picture,
               calls' = (calls \ {c}) \cup {[id |-> c.id, phase |-> "back", signed |-> moment, items |-> items]}
        PROVE  \E d \in Answer : calls' = {d} /\ d.id = c.id /\ d.phase = "back"
    <3> DEFINE d == [id |-> c.id, phase |-> "back", signed |-> moment, items |-> items]
    <3>1. d \in Answer /\ d.id = c.id /\ d.phase = "back"
      BY <1>2 DEF PageInv, ShapeInv, Answer
    <3>2. calls' = {d}
      BY <1>2, <2>1
    <3> QED
      BY <3>1, <3>2
  <2>2. CASE calls' = (calls \ {c}) \cup {[c EXCEPT !.phase = "failed"]}
    <3> DEFINE d == [c EXCEPT !.phase = "failed"]
    <3>1. d \in Answer /\ d.id = c.id /\ d.items = {}
      BY <1>2 DEF Answer
    <3>2. calls' = {d}
      BY <1>2, <2>2
    <3> QED
      BY <3>1, <3>2
  <2> QED
    BY <2>1, <2>2
<1>4. CallInv'
  BY <1>2, <1>3 DEF PageInv, CallInv
<1>5. ASSUME Memoised PROVE WaitInv'
  BY <1>5 DEF PageInv, WaitInv
<1> QED
  BY <1>1, <1>4, <1>5 DEF PageInv

LEMMA HandleKeeps == ASSUME PageInv, NEW c \in calls, Handle(c) PROVE PageInv'
<1> USE PageAssumption
<1>1. /\ c \in Answer /\ c.phase \in {"back", "failed"} /\ calls = {c}
      /\ c.phase = "failed" => c.items = {}
      /\ inFlight => newest = c.id
      /\ ~inFlight => newest = 0
  BY DEF PageInv, CallInv, Handle, Back
<1>2. UNCHANGED <<moment, gone, page, origin, painted, newest>> /\ calls' = {} /\ inFlight' = FALSE
  BY <1>1 DEF Handle, netVars
<1>3. CallInv'
  BY <1>2 DEF PageInv, CallInv
<1>4. CASE c.phase = "back" /\ newest # c.id
  <2>1. UNCHANGED <<link, lapsed, image, tries, render, excused>> /\ ~inFlight
    BY <1>1, <1>4 DEF Handle
  <2>2. ShapeInv'
    BY <1>2, <2>1 DEF PageInv, ShapeInv
  <2>3. ASSUME Memoised PROVE WaitInv'
    BY <1>2, <2>1, <2>3 DEF PageInv, WaitInv
  <2> QED
    BY <1>3, <2>2, <2>3 DEF PageInv
<1>5. CASE ~(c.phase = "back" /\ newest # c.id)
  <2> DEFINE fresh == IF c.phase = "back" THEN Freshened(c) ELSE {}
  <2>1. /\ link'   = [p \in Picture |-> IF p \in fresh THEN c.signed ELSE link[p]]
        /\ lapsed' = lapsed \ fresh
        /\ image'  = [p \in Picture |-> IF p \in fresh THEN "loading" ELSE image[p]]
        /\ tries'  = [p \in Picture |-> IF tries[p] = 1 /\ p \notin fresh THEN 2 ELSE tries[p]]
        /\ excused' = excused \cup {p \in NotServed(c) : Pending(p)}
    BY <1>5 DEF Handle, GiveUpPending, Pending
  <2>2. fresh \subseteq Picture
    BY <1>1 DEF Freshened, Answer
  <2>3. c.signed \in 0 .. MaxSigned /\ NotServed(c) \subseteq Picture
    BY <1>1 DEF Answer, NotServed
  <2>5. ShapeInv'
    BY <1>2, <2>1, <2>2, <2>3 DEF PageInv, ShapeInv
  <2>6. ASSUME Memoised PROVE WaitInv'
    <3> SUFFICES ASSUME NEW p \in Picture
                 PROVE  /\ image'[p] = "broken" => tries'[p] = 2 \/ (tries'[p] = 1 /\ inFlight')
                        /\ tries'[p] = 1 => p \notin painted' /\ image'[p] \in {"loading", "broken"}
                        /\ tries'[p] = 1 /\ image'[p] = "loading" /\ p \in lapsed' => p \in excused'
                        /\ tries'[p] = 2 => p \in gone' \/ p \in excused'
      BY DEF WaitInv
    <3>1. /\ tries[p] \in 0 .. 2 /\ WaitInv
          /\ image[p] = "broken" => tries[p] = 2 \/ (tries[p] = 1 /\ inFlight)
          /\ tries[p] = 1 => p \notin painted /\ image[p] \in {"loading", "broken"}
          /\ tries[p] = 2 => p \in gone \/ p \in excused
      BY <2>6 DEF PageInv, ShapeInv, WaitInv
    <3>2. CASE p \in fresh
      BY <3>1, <3>2, <2>1, <1>2
    <3>3. CASE p \notin fresh
      <4>1. tries[p] = 1 => p \in NotServed(c)
        BY <3>1, <3>3, <1>1 DEF NotServed, Freshened
      <4>2. tries[p] = 1 => p \in excused'
        BY <4>1, <2>1 DEF Pending
      <4>3. image'[p] = image[p] /\ tries'[p] = IF tries[p] = 1 THEN 2 ELSE tries[p]
        BY <3>3, <2>1
      <4> QED
        BY <4>2, <4>3, <3>1, <1>2, <2>1
    <3> QED
      BY <3>2, <3>3
  <2> QED
    BY <1>3, <2>5, <2>6 DEF PageInv
<1> QED
  BY <1>4, <1>5

LEMMA RenderKeeps == ASSUME PageInv, Render \/ ChangeQuery PROVE PageInv'
<1> USE PageAssumption DEF netVars
<1>1. CASE Memoised /\ Render
  <2>1. UNCHANGED <<moment, gone, page, origin, link, lapsed, image, tries, painted, inFlight, calls, newest, excused>>
    BY <1>1 DEF Render
  <2> QED
    BY <2>1 DEF PageInv, ShapeInv, CallInv, WaitInv
<1>2. CASE ~Memoised /\ Render
  <2>1. ShapeInv'
    BY <1>2 DEF Render, Reset, Unoverride, PageInv, ShapeInv
  <2>2. calls' = Back /\ inFlight' = FALSE /\ newest' = 0
    BY <1>2 DEF Render, Reset
  <2>3. CallInv'
    BY <2>2 DEF PageInv, CallInv, Back, Answer
  <2> QED
    BY <1>2, <2>1, <2>3 DEF PageInv
<1>3. CASE ChangeQuery
  <2>1. ShapeInv'
    BY <1>3 DEF ChangeQuery, Reset, PageInv, ShapeInv
  <2>2. calls' = Back /\ inFlight' = FALSE /\ newest' = 0
    BY <1>3 DEF ChangeQuery, Reset
  <2>3. CallInv'
    BY <2>2 DEF PageInv, CallInv, Back, Answer
  <2>4. WaitInv'
    BY <1>3 DEF ChangeQuery, Reset, PageInv, ShapeInv, WaitInv
  <2> QED
    BY <2>1, <2>3, <2>4 DEF PageInv
<1> QED
  BY <1>1, <1>2, <1>3

LEMMA WorldKeeps ==
  ASSUME PageInv, PageWorld,
         UNCHANGED <<page, origin, link, image, tries, painted, inFlight, calls, newest, render>>
  PROVE  PageInv'
<1> USE PageAssumption
<1>1. /\ moment' \in moment .. MaxSigned /\ gone \subseteq gone' /\ gone' \subseteq Picture
      /\ \/ lapsed' = lapsed /\ excused' = excused
         \/ \E p \in Picture :
              /\ lapsed' = lapsed \cup {p}
              /\ excused' = IF Pending(p) /\ image[p] = "loading" THEN excused \cup {p} ELSE excused
  BY DEF PageWorld, PageInv, ShapeInv, netVars
<1>2. ShapeInv'
  BY <1>1 DEF PageInv, ShapeInv
<1>3. CallInv'
  BY DEF PageInv, CallInv
<1>4. ASSUME Memoised PROVE WaitInv'
  BY <1>1, <1>4 DEF PageInv, ShapeInv, WaitInv, Pending
<1> QED
  BY <1>2, <1>3, <1>4 DEF PageInv

LEMMA PageKept == UrlSpec => []PageInv
<1>1. PageInv /\ [UrlNext]_urlVars => PageInv'
  <2> SUFFICES ASSUME PageInv, [UrlNext]_urlVars PROVE PageInv'
    OBVIOUS
  <2>1. CASE UrlNext
    BY <2>1, BreaksKeeps, LoadsKeeps, ReshownKeeps, AnswerKeeps, HandleKeeps, RenderKeeps, WorldKeeps
    DEF UrlNext
  <2>2. CASE UNCHANGED urlVars
    BY <2>2 DEF urlVars, netVars, PageInv, ShapeInv, CallInv, WaitInv
  <2> QED
    BY <2>1, <2>2
<1> QED
  BY <1>1, UrlInitInv, PTL DEF UrlSpec

\* However many pictures fail, the page is asked for once at a time, on whichever page
\* and however often React renders (useFreshUrls.ts:29-34).
THEOREM OneRequest == UrlSpec => []UrlTypeOK
<1>1. PageInv => UrlTypeOK
  <2> SUFFICES ASSUME PageInv PROVE UrlTypeOK
    OBVIOUS
  <2>1. Cardinality(Out) <= 1
    <3>1. CASE Out = {}
      <4>1. Cardinality(Out) = 0
        BY <3>1, FS_EmptySet
      <4> QED
        BY <4>1
    <3>2. CASE Out # {}
      <4>1. PICK c : Out = {c}
        BY <3>2 DEF PageInv, CallInv, Out
      <4>2. Cardinality(Out) = 1
        BY <4>1, FS_Singleton
      <4> QED
        BY <4>2
    <3> QED
      BY <3>1, <3>2
  <2> QED
    BY <2>1 DEF PageInv, ShapeInv, UrlTypeOK
<1> QED
  BY <1>1, PageKept, PTL

\* For any pictures and seconds, on a page that hands over the same query object while
\* its query is the same: no picture is left without picture and message; and one is said
\* to be gone only if its file is, or in the cases that GoneIsGone names
\* (useFreshUrls.ts:24-27, 120-129, 159-224).
THEOREM NoPictureHangs == Memoised => (UrlSpec => []UrlsSound)
<1> SUFFICES ASSUME Memoised PROVE UrlSpec => []UrlsSound
  OBVIOUS
<1>1. PageInv => UrlsSound
  <2> SUFFICES ASSUME PageInv PROVE UrlsSound
    OBVIOUS
  <2>1. NoneHangs
    BY DEF NoneHangs, PageInv, WaitInv, CallInv, Dead, Pending, ShapeInv
  <2>2. GoneIsGone
    BY DEF GoneIsGone, PageInv, ShapeInv, WaitInv, Dead
  <2> QED
    BY <2>1, <2>2 DEF UrlsSound
<1> QED
  BY <1>1, PageKept, PTL

-----------------------------------------------------------------------------
\* The application in front.

Under == {p \in Nat \X Nat : p[1] < p[2]}

\* A set of naturals has a least one, and a bounded set of integers a greatest.
LEMMA FewestOf == ASSUME NEW S \in SUBSET Nat, S # {} PROVE \E n \in S : \A k \in S : n <= k
<1>1. IsWellFoundedOn(Under, Nat)
  BY NatLessThanWellFounded DEF OpToRel, Under
<1>2. PICK n \in S : \A k \in S : ~(<<k, n>> \in Under)
  BY <1>1, WFMin
<1>3. \A k \in S : k < n => <<k, n>> \in Under
  BY DEF Under
<1>4. \A k \in S : ~(k < n)
  BY <1>2, <1>3
<1> QED BY <1>4

LEMMA MostOf ==
  ASSUME NEW S \in SUBSET Int, S # {}, NEW top \in Int, \A x \in S : x <= top
  PROVE  Max(S) \in S /\ \A x \in S : x <= Max(S)
<1> DEFINE gaps == {n \in Nat : top - n \in S}
<1>1. \A x \in S : top - x \in gaps
  <2> TAKE x \in S
  <2>1. x \in Int /\ top - x \in Nat /\ top - (top - x) = x
    OBVIOUS
  <2> QED BY <2>1
<1>2. PICK n \in gaps : \A k \in gaps : n <= k
  <2>1. gaps \in SUBSET Nat /\ gaps # {}
    BY <1>1
  <2> HIDE DEF gaps
  <2> QED BY <2>1, FewestOf
<1>3. top - n \in S /\ n \in Nat
  OBVIOUS
<1>4. \A x \in S : top - n >= x
  <2> TAKE x \in S
  <2>1. n <= top - x /\ x \in Int
    BY <1>1, <1>2
  <2> QED BY <2>1, <1>3
<1>5. Max(S) \in S /\ \A y \in S : Max(S) >= y
  BY <1>3, <1>4 DEF Max
<1> QED BY <1>5

\* Two points with nothing of a set between them.
Neighbours(C, a, b) == a < b /\ \A c \in C : c <= a \/ b <= c

\* A point that some cuts are not after, and some are, lies between two neighbours.
LEMMA Between ==
  ASSUME NEW C \in SUBSET Int, NEW t \in Int, NEW x \in C, x <= t, NEW y \in C, t < y
  PROVE  \E a, b \in C : a <= t /\ t < b /\ Neighbours(C, a, b)
<1> DEFINE low == {c \in C : c <= t}
           gaps == {n \in Nat : n > 0 /\ t + n \in C}
<1>1. Max(low) \in low /\ \A c \in low : c <= Max(low)
  <2>1. low \in SUBSET Int /\ low # {} /\ \A c \in low : c <= t
    OBVIOUS
  <2> HIDE DEF low
  <2> QED BY <2>1, MostOf
<1>2. \A c \in C : t < c => c - t \in gaps
  <2> TAKE c \in C
  <2> HAVE t < c
  <2>1. c \in Int /\ c - t \in Nat /\ c - t > 0 /\ t + (c - t) = c
    OBVIOUS
  <2> QED BY <2>1
<1>3. PICK n \in gaps : \A k \in gaps : n <= k
  <2>1. gaps \in SUBSET Nat /\ gaps # {}
    BY <1>2
  <2> HIDE DEF gaps
  <2> QED BY <2>1, FewestOf
<1>4. t + n \in C /\ t < t + n
  OBVIOUS
<1>5. \A c \in C : t < c => t + n <= c
  <2> TAKE c \in C
  <2> HAVE t < c
  <2>1. n <= c - t /\ c \in Int /\ n \in Int
    BY <1>2, <1>3
  <2> QED BY <2>1
<1>6. \A c \in C : c <= Max(low) \/ t + n <= c
  BY <1>1, <1>5
<1>7. Max(low) \in C /\ Max(low) <= t /\ Max(low) \in Int /\ n \in Nat
  BY <1>1
<1> HIDE DEF low, gaps
<1>8. Max(low) < t + n
  BY <1>4, <1>7
<1>9. Neighbours(C, Max(low), t + n)
  BY <1>6, <1>8 DEF Neighbours
<1> QED BY <1>4, <1>7, <1>9

\* Multiples are one another's distance apart, and there is one a step ahead.
LEMMA MultiplesApart ==
  ASSUME NEW d \in Nat, d > 0, NEW x \in Int, NEW y \in Int, x % d = 0, y % d = 0, x < y
  PROVE  d <= y - x
<1> DEFINE p == x \div d
           q == y \div d
<1>1. p \in Int /\ q \in Int /\ x = d * p + (x % d) /\ y = d * q + (y % d)
  BY SMTT(60)
<1> HIDE DEF p, q
<1>2. x = d * p /\ y = d * q /\ d * p \in Int /\ d * q \in Int
  BY <1>1
<1>3. \A k \in Int : k <= 0 => d * k <= 0
  BY SMTT(60)
<1>4. d * (q - p) = y - x /\ q - p \in Int
  BY <1>1, <1>2, SMTT(60)
<1>5. q - p >= 1
  BY <1>3, <1>4, <1>1
<1>6. \A k \in Int : k >= 1 => d * k >= d
  BY SMTT(60)
<1> QED BY <1>4, <1>5, <1>6

LEMMA NextMultiple ==
  ASSUME NEW d \in Nat, d > 0, NEW x \in Int
  PROVE  \E y \in Int : y % d = 0 /\ x < y /\ y <= x + d
<1> DEFINE q == x \div d
<1>1. q \in Int /\ x = d * q + (x % d) /\ x % d \in 0 .. d - 1
  BY SMTT(60)
<1>2. d * (q + 1) = d * q + d /\ d * q \in Int /\ q + 1 \in Int
  BY <1>1, SMTT(60)
<1> HIDE DEF q
<1>3. (d * (q + 1)) % d = 0
  BY <1>2, SMTT(60)
<1>4. x < d * (q + 1) /\ d * (q + 1) <= x + d /\ d * (q + 1) \in Int
  BY <1>1, <1>2
<1> QED BY <1>3, <1>4

LEMMA AppConstants ==
  /\ MinPiece \in Nat /\ MinPiece >= 1 /\ MaxPiece \in Nat /\ MinPiece < MaxPiece
  /\ DateLength \in Nat /\ MaxPiece <= DateLength /\ DateLength >= 1
  /\ NoWindow \notin Window
  /\ \A w \in Sights : w[1] \in Window \cup {NoWindow} /\ w[2] \in Doing
BY RowAssumption DEF Doing

\* How far apart they may be: no further than a whole piece, and a short way only where
\* the second is a midnight or the end.
FairApart(a, b, extra) ==
  b - a <= MaxPiece /\ (b - a >= MinPiece \/ b % DateLength = 0 \/ b \in extra)

CutsAreFair(C, extra) == \A a, b \in C : Neighbours(C, a, b) => FairApart(a, b, extra)

\* The cuts of a stretch: the last leaves less than a whole piece open, two neighbours are
\* no further apart than that, and a short way apart only at a midnight or at the end.
LEMMA CutsOf ==
  ASSUME NEW at \in Nat, NEW to \in Nat, at <= to, NEW extra, extra = {} \/ extra = {to}
  PROVE  /\ Cuts(at, to) \in SUBSET (at .. to) /\ at \in Cuts(at, to)
         /\ Max(Cuts(at, to)) \in Cuts(at, to)
         /\ \A c \in Cuts(at, to) : c <= Max(Cuts(at, to))
         /\ to - Max(Cuts(at, to)) < MaxPiece
         /\ CutsAreFair(Cuts(at, to) \cup extra, extra)
<1> USE AppConstants
<1> DEFINE C == Cuts(at, to) \cup extra
           long == LongCuts(at, to)
           dates == {c \in Max(long) + 1 .. to : c % DateLength = 0}
<1>1. /\ \A c : c \in long <=> c \in Int /\ at <= c /\ c <= to /\ (c - at) % MaxPiece = 0
      /\ long \in SUBSET Int
  BY DEF LongCuts
<1>2. at \in long
  <2>1. at - at = 0 /\ 0 % MaxPiece = 0
    BY SMTT(60)
  <2> QED BY <2>1, <1>1
<1>3. Max(long) \in long /\ \A c \in long : c <= Max(long)
  <2>1. long \in SUBSET Int /\ long # {} /\ to \in Int /\ \A c \in long : c <= to
    BY <1>1, <1>2
  <2> HIDE DEF long
  <2> QED BY <2>1, MostOf
<1>4. Cuts(at, to) = long \cup dates
  BY DEF Cuts
<1> HIDE DEF long
<1>5. /\ \A c : c \in dates <=> c \in Int /\ Max(long) < c /\ c <= to /\ c % DateLength = 0
      /\ Max(long) \in Int /\ at <= Max(long) /\ Max(long) <= to
  BY <1>1, <1>3
<1> HIDE DEF dates
<1>6. /\ Cuts(at, to) \in SUBSET (at .. to) /\ at \in Cuts(at, to)
      /\ Cuts(at, to) \in SUBSET Int /\ \A c \in Cuts(at, to) : c <= to
  BY <1>1, <1>2, <1>4, <1>5
<1>7. Max(Cuts(at, to)) \in Cuts(at, to) /\ \A c \in Cuts(at, to) : c <= Max(Cuts(at, to))
  <2> DEFINE cuts == Cuts(at, to)
  <2>1. cuts \in SUBSET Int /\ cuts # {} /\ to \in Int /\ \A c \in cuts : c <= to
    BY <1>6
  <2> HIDE DEF cuts
  <2>2. Max(cuts) \in cuts /\ \A c \in cuts : c <= Max(cuts)
    BY <2>1, MostOf
  <2> QED BY <2>2 DEF cuts
<1>8. \A x \in Int : at <= x => \E c \in Int : x < c /\ c <= x + MaxPiece /\ (c <= to => c \in long)
  <2> TAKE x \in Int
  <2> HAVE at <= x
  <2>1. PICK y \in Int : y % MaxPiece = 0 /\ x - at < y /\ y <= (x - at) + MaxPiece
    <3>1. x - at \in Int /\ MaxPiece \in Nat /\ MaxPiece > 0
      OBVIOUS
    <3> QED BY <3>1, NextMultiple
  <2>2. (at + y) - at = y /\ at + y \in Int /\ x < at + y /\ at + y <= x + MaxPiece
    BY <2>1
  <2>3. at <= at + y /\ ((at + y) - at) % MaxPiece = 0
    BY <2>1, <2>2
  <2> DEFINE c == at + y
  <2>4. c \in Int /\ x < c /\ c <= x + MaxPiece /\ at <= c /\ (c - at) % MaxPiece = 0
    BY <2>2, <2>3
  <2> HIDE DEF c
  <2> QED BY <2>4, <1>1
<1>9. to - Max(Cuts(at, to)) < MaxPiece
  <2> DEFINE m == Max(Cuts(at, to))
  <2>1. m \in Int /\ at <= m
    BY <1>6, <1>7
  <2> HIDE DEF m
  <2>2. PICK c \in Int : m < c /\ c <= m + MaxPiece /\ (c <= to => c \in long)
    BY <2>1, <1>8
  <2>3. ~(c <= to)
    <3>1. \A x \in Cuts(at, to) : x <= m
      BY <1>7 DEF m
    <3> QED BY <2>1, <2>2, <3>1, <1>4
  <2> QED BY <2>1, <2>2, <2>3 DEF m
<1>10. ASSUME NEW a \in C, NEW b \in C, Neighbours(C, a, b)
       PROVE  FairApart(a, b, extra)
  <2> USE DEF Neighbours
  <2>1. a \in Int /\ b \in Int /\ at <= a /\ b <= to /\ a <= to
    BY <1>6
  <2>2. PICK c \in Int : a < c /\ c <= a + MaxPiece /\ (c <= to => c \in long)
    BY <2>1, <1>8
  <2>3. b - a <= MaxPiece
    <3>1. CASE c <= to
      <4>1. c \in C
        BY <3>1, <2>2, <1>4
      <4> QED BY <4>1, <1>10, <2>1, <2>2
    <3>2. CASE ~(c <= to)
      BY <3>2, <2>1, <2>2
    <3> QED BY <3>1, <3>2
  <2>4. ASSUME b \in long PROVE b - a >= MinPiece
    <3>1. b <= Max(long)
      BY <2>4, <1>3
    <3>2. a \in long
      BY <3>1, <2>1, <1>4, <1>5, <1>10
    <3>3. (a - at) % MaxPiece = 0 /\ (b - at) % MaxPiece = 0 /\ a - at \in Int /\ b - at \in Int
      BY <3>2, <2>4, <2>1, <1>1
    <3>4. a - at < b - at /\ (b - at) - (a - at) = b - a
      BY <2>1, <1>10
    <3>5. MaxPiece <= (b - at) - (a - at)
      BY <3>3, <3>4, MultiplesApart
    <3> QED BY <3>4, <3>5, <2>1
  <2> QED BY <2>3, <2>4, <1>4, <1>5 DEF FairApart
<1> HIDE DEF C
<1>11. CutsAreFair(C, extra)
  BY <1>10 DEF CutsAreFair
<1> QED BY <1>6, <1>7, <1>9, <1>11 DEF C

LEMMA PieceIs ==
  ASSUME NEW s, NEW C \in SUBSET Int, NEW who
  PROVE  /\ \A p \in Pieces(s, C, who) :
              \E a, b \in C : /\ b - a >= MinPiece /\ \A c \in C : c <= a \/ b <= c
                              /\ p = [from |-> a, to |-> b, win |-> s.open, state |-> s.state, by |-> who]
         /\ \A a, b \in C : b - a >= MinPiece /\ (\A c \in C : c <= a \/ b <= c) =>
              [from |-> a, to |-> b, win |-> s.open, state |-> s.state, by |-> who] \in Pieces(s, C, who)
<1> DEFINE good == {q \in C \X C : q[2] - q[1] >= MinPiece /\ \A c \in C : c <= q[1] \/ q[2] <= c}
<1>1. Pieces(s, C, who) =
        {[from |-> q[1], to |-> q[2], win |-> s.open, state |-> s.state, by |-> who] : q \in good}
  BY DEF Pieces
<1>2. \A q \in good : /\ q[1] \in C /\ q[2] \in C /\ q[2] - q[1] >= MinPiece
                      /\ \A c \in C : c <= q[1] \/ q[2] <= c
  OBVIOUS
<1>3. \A a, b \in C : b - a >= MinPiece /\ (\A c \in C : c <= a \/ b <= c) => <<a, b>> \in good
  OBVIOUS
<1> HIDE DEF good
<1>4. ASSUME NEW p \in Pieces(s, C, who)
      PROVE  \E a, b \in C : /\ b - a >= MinPiece /\ \A c \in C : c <= a \/ b <= c
                             /\ p = [from |-> a, to |-> b, win |-> s.open, state |-> s.state, by |-> who]
  <2>1. PICK q \in good : p = [from |-> q[1], to |-> q[2], win |-> s.open, state |-> s.state, by |-> who]
    BY <1>1
  <2> QED BY <2>1, <1>2
<1>5. ASSUME NEW a \in C, NEW b \in C, b - a >= MinPiece, \A c \in C : c <= a \/ b <= c
      PROVE  [from |-> a, to |-> b, win |-> s.open, state |-> s.state, by |-> who] \in Pieces(s, C, who)
  <2>1. <<a, b>> \in good /\ <<a, b>>[1] = a /\ <<a, b>>[2] = b
    BY <1>5, <1>3
  <2> QED BY <2>1, <1>1
<1> QED BY <1>4, <1>5

-----------------------------------------------------------------------------
\* The inductive invariant.
Wins == Window \cup {NoWindow}

AppTypes ==
  /\ second \in Nat /\ front \in Wins /\ doing \in Doing
  /\ service \in [life : Nat, open : Wins, at : Nat, state : Doing]
  /\ tick \in [life : Nat, win : Wins, at : Nat, state : Doing]
  /\ lives \in Nat /\ lives >= 1
  /\ DOMAIN seen \subseteq Nat /\ seen = [t \in DOMAIN seen |-> seen[t]]
  /\ \A t \in DOMAIN seen : seen[t] \in [win : Wins, state : Doing, life : Nat]
  /\ rows \subseteq [from : Nat, to : Nat, win : Wins, state : Doing, by : {"loop", "config"}]
  /\ lost \subseteq Nat

\* The lives of the services, and who was alive when.
LivesInv ==
  /\ service.life <= lives /\ tick.life <= lives
  /\ service.life = 0 => service = NoService
  /\ \A l \in lost : l <= lives
  /\ service.life \in lost => service.life = 0
  /\ \A t \in DOMAIN seen : t <= second /\ 1 <= seen[t].life /\ seen[t].life <= lives
  /\ tick # NoTick => /\ tick.life >= 1 /\ tick.at <= second
                      /\ \A t \in DOMAIN seen : t < tick.at

\* What is open is as it was seen since its start, which is less than a whole piece ago.
OpenInv ==
  service.open # NoWindow =>
    /\ service.at <= second
    /\ InHand => service.at <= tick.at
    /\ \A t \in DOMAIN seen :
         /\ t - service.at < MaxPiece
         /\ service.at <= t => seen[t].win = service.open /\ seen[t].state = service.state

\* A record is of a fair length, past, before what is open, and as it was seen.
RowIs(r) ==
  /\ r.to - r.from \in MinPiece .. MaxPiece
  /\ r.to <= second
  /\ InHand => r.to <= tick.at
  /\ service.open # NoWindow => r.to <= service.at
  /\ \A t \in DOMAIN seen : r.from <= t /\ t < r.to => seen[t].win = r.win /\ seen[t].state = r.state
RowsInv == \A r \in rows : RowIs(r)
ApartInv == raced \/ \A r, q \in rows : r # q => r.to <= q.from \/ q.to <= r.from

\* A tick that nothing has come between up to now: its window is the one that is open,
\* since no later than then, or some of it is recorded, or midnight has come.
Ongoing(t) ==
  /\ seen[t].life = service.life /\ seen[t].win # NoWindow /\ seen[t].state # "locked"
  /\ \A u \in DOMAIN seen : t <= u => seen[u] = seen[t]
Recorded(t) == \E r \in rows : r.from < t + MaxPiece /\ t < r.to
MidnightCame(t) == \E v \in DOMAIN seen : \E c \in t + 1 .. v : c % DateLength = 0
OngoingInv ==
  \A t \in DOMAIN seen : Ongoing(t) =>
    /\ service.open = seen[t].win /\ service.state = seen[t].state
    /\ service.at <= t \/ Recorded(t) \/ MidnightCame(t)

\* A stretch as long as the shortest record is recorded, open, or lost in one piece.
Held(t) ==
  service.life = seen[t].life /\ service.open = seen[t].win /\ service.at <= t
LostWhole(t) == seen[t].life \in lost /\ ~Stretch(t, MaxPiece)
KeptInv ==
  \A t \in DOMAIN seen : Stretch(t, MinPiece) => Recorded(t) \/ Held(t) \/ LostWhole(t)

AppInv == AppTypes /\ LivesInv /\ OpenInv /\ RowsInv /\ ApartInv /\ OngoingInv /\ KeptInv

AppRow == [from : Nat, to : Nat, win : Wins, state : Doing, by : {"loop", "config"}]

\* A piece of the stretch that is open up to an instant.
PieceOf(p, to) ==
  /\ p \in AppRow /\ service.at <= p.from /\ p.to <= to /\ p.to - p.from \in MinPiece .. MaxPiece
  /\ p.win = service.open /\ p.state = service.state

\* What none of the pieces holds is shortly before a midnight, or before the end.
Covering(P, C, to, extra) ==
  \A t \in Nat, y \in C : service.at <= t /\ t < y =>
    \/ \E p \in P : p.from <= t /\ t < p.to
    \/ \E c \in t + 1 .. t + MinPiece : c % DateLength = 0 /\ c <= to
    \/ to \in extra /\ to < t + MinPiece

\* The pieces of a stretch are of a fair length, do not overlap and leave little out.
LEMMA PieceFacts ==
  ASSUME AppTypes, NEW to \in Nat, service.at <= to, NEW extra, extra = {} \/ extra = {to},
         NEW who \in {"loop", "config"}
  PROVE  LET C == Cuts(service.at, to) \cup extra
             P == Pieces(service, C, who)
         IN  /\ \A p \in P : PieceOf(p, to) /\ (extra = {} => p.to <= Max(Cuts(service.at, to)))
             /\ \A p, q \in P : p # q => p.to <= q.from \/ q.to <= p.from
             /\ Covering(P, C, to, extra)
<1> USE AppConstants
<1> DEFINE at == service.at
           C == Cuts(at, to) \cup extra
           P == Pieces(service, C, who)
           Piece(a, b) == [from |-> a, to |-> b, win |-> service.open, state |-> service.state, by |-> who]
<1>1. at \in Nat /\ service.open \in Wins /\ service.state \in Doing
  BY DEF AppTypes
<1>2. /\ Cuts(at, to) \in SUBSET (at .. to) /\ at \in Cuts(at, to)
      /\ Max(Cuts(at, to)) \in Cuts(at, to)
      /\ \A c \in Cuts(at, to) : c <= Max(Cuts(at, to))
      /\ \A a, b \in C : Neighbours(C, a, b) => FairApart(a, b, extra)
  <2>1. at \in Nat /\ to \in Nat /\ at <= to /\ (extra = {} \/ extra = {to})
    BY <1>1
  <2> HIDE DEF at
  <2>2. CutsAreFair(Cuts(at, to) \cup extra, extra)
    BY <2>1, CutsOf
  <2>3. CutsAreFair(C, extra)
    BY <2>2
  <2>4. /\ Cuts(at, to) \in SUBSET (at .. to) /\ at \in Cuts(at, to)
        /\ Max(Cuts(at, to)) \in Cuts(at, to)
        /\ \A c \in Cuts(at, to) : c <= Max(Cuts(at, to))
    BY <2>1, CutsOf
  <2> QED BY <2>3, <2>4 DEF CutsAreFair
<1>3. C \in SUBSET Int /\ at \in C /\ (\A c \in C : c \in Nat /\ at <= c /\ c <= to)
      /\ (extra = {} => \A c \in C : c <= Max(Cuts(at, to)))
  BY <1>1, <1>2
<1>4. /\ \A p \in P : \E a, b \in C : /\ b - a >= MinPiece /\ \A c \in C : c <= a \/ b <= c
                                      /\ p = Piece(a, b)
      /\ \A a, b \in C : b - a >= MinPiece /\ (\A c \in C : c <= a \/ b <= c) => Piece(a, b) \in P
  BY <1>3, PieceIs
<1>5. \A c \in extra : c = to
  OBVIOUS
<1> HIDE DEF C, P, at
<1>6. ASSUME NEW p \in P
      PROVE  PieceOf(p, to) /\ (extra = {} => p.to <= Max(Cuts(at, to)))
  <2>1. PICK a, b \in C : /\ b - a >= MinPiece /\ \A c \in C : c <= a \/ b <= c
                          /\ p = Piece(a, b)
    BY <1>4
  <2>2. a \in Nat /\ b \in Nat /\ at <= a /\ b <= to /\ a < b
        /\ (extra = {} => b <= Max(Cuts(at, to)))
    BY <1>3, <2>1
  <2>3. b - a <= MaxPiece /\ b - a \in MinPiece .. MaxPiece
    <3>1. Neighbours(C, a, b)
      BY <2>1, <2>2 DEF Neighbours
    <3>2. FairApart(a, b, extra)
      BY <1>2, <3>1
    <3> QED BY <3>2, <2>1, <2>2 DEF FairApart
  <2>4. p \in AppRow /\ p.from = a /\ p.to = b /\ p.win = service.open /\ p.state = service.state
    BY <1>1, <2>1, <2>2 DEF AppRow
  <2> QED BY <2>2, <2>3, <2>4 DEF PieceOf, at
<1>7. ASSUME NEW p \in P, NEW q \in P, p # q
      PROVE  p.to <= q.from \/ q.to <= p.from
  <2>1. PICK a, b \in C : /\ b - a >= MinPiece /\ \A c \in C : c <= a \/ b <= c
                          /\ p = Piece(a, b)
    BY <1>4
  <2>2. PICK x, y \in C : /\ y - x >= MinPiece /\ \A c \in C : c <= x \/ y <= c
                          /\ q = Piece(x, y)
    BY <1>4
  <2>3. a \in Nat /\ b \in Nat /\ x \in Nat /\ y \in Nat
    BY <1>3
  <2>4. p.from = a /\ p.to = b /\ q.from = x /\ q.to = y /\ ~(a = x /\ b = y)
    BY <2>1, <2>2, <1>7
  <2>5. (x <= a \/ b <= x) /\ (y <= a \/ b <= y) /\ (a <= x \/ y <= a) /\ (b <= x \/ y <= b)
    BY <2>1, <2>2
  <2> QED BY <2>3, <2>4, <2>5
<1>8. ASSUME NEW t \in Nat, NEW y \in C, at <= t, t < y
      PROVE  \/ \E p \in P : p.from <= t /\ t < p.to
             \/ \E c \in t + 1 .. t + MinPiece : c % DateLength = 0 /\ c <= to
             \/ to \in extra /\ to < t + MinPiece
  <2>1. PICK a, b \in C : a <= t /\ t < b /\ \A c \in C : c <= a \/ b <= c
    <3>1. C \in SUBSET Int /\ t \in Int /\ at \in C /\ at <= t /\ y \in C /\ t < y
      BY <1>3, <1>8
    <3>2. \E a, b \in C : a <= t /\ t < b /\ Neighbours(C, a, b)
      BY <3>1, Between
    <3> QED BY <3>2 DEF Neighbours
  <2>2. a \in Nat /\ b \in Nat /\ a < b /\ b <= to
    BY <1>3, <2>1
  <2>3. CASE b - a >= MinPiece
    <3>1. Piece(a, b) \in P /\ Piece(a, b).from = a /\ Piece(a, b).to = b
      BY <2>1, <2>3, <1>4
    <3> QED BY <3>1, <2>1
  <2>4. CASE ~(b - a >= MinPiece) /\ b % DateLength = 0
    <3>1. b \in t + 1 .. t + MinPiece
      BY <2>1, <2>2, <2>4
    <3> QED BY <3>1, <2>2, <2>4
  <2>5. CASE ~(b - a >= MinPiece) /\ b \in extra
    BY <2>1, <2>2, <2>5, <1>5
  <2>6. Neighbours(C, a, b)
    BY <2>1, <2>2 DEF Neighbours
  <2>7. FairApart(a, b, extra)
    BY <2>6, <1>2
  <2> QED BY <2>3, <2>4, <2>5, <2>7 DEF FairApart
<1>9. Covering(P, C, to, extra)
  BY <1>8 DEF Covering, at
<1> QED BY <1>6, <1>7, <1>9 DEF C, P, at

\* The same for what a stretch that ends leaves behind.
LEMMA ClosingFacts ==
  ASSUME AppTypes, NEW to \in Nat, service.open # NoWindow => service.at <= to,
         NEW who \in {"loop", "config"}
  PROVE  /\ \A p \in Closing(service, to, who) : PieceOf(p, to) /\ service.open # NoWindow
         /\ \A p, q \in Closing(service, to, who) : p # q => p.to <= q.from \/ q.to <= p.from
         /\ \A t \in Nat :
              /\ service.open # NoWindow /\ service.at <= t /\ t + MinPiece <= to
              /\ \A c \in t + 1 .. t + MinPiece : c % DateLength # 0
              => \E p \in Closing(service, to, who) : p.from <= t /\ t < p.to
<1>1. CASE service.open = NoWindow
  <2>1. Closing(service, to, who) = {}
    BY <1>1 DEF Closing
  <2> QED BY <1>1, <2>1
<1>2. CASE service.open # NoWindow
  <2> DEFINE C == Cuts(service.at, to) \cup {to}
             P == Closing(service, to, who)
  <2>1. service.at <= to
    BY <1>2
  <2>2. P = Pieces(service, C, who)
    BY <1>2 DEF Closing
  <2>3. /\ \A p \in P : PieceOf(p, to)
        /\ \A p, q \in P : p # q => p.to <= q.from \/ q.to <= p.from
    BY <2>1, <2>2, PieceFacts
  <2>4. Covering(P, C, to, {to})
    BY <2>1, <2>2, PieceFacts
  <2>5. to \in C
    OBVIOUS
  <2> HIDE DEF C, P
  <2>6. ASSUME NEW t \in Nat, service.at <= t, t + MinPiece <= to,
               \A c \in t + 1 .. t + MinPiece : c % DateLength # 0
        PROVE  \E p \in P : p.from <= t /\ t < p.to
    <3>1. t < to /\ ~(to < t + MinPiece)
      BY <2>6, AppConstants
    <3>2. \/ \E p \in P : p.from <= t /\ t < p.to
          \/ \E c \in t + 1 .. t + MinPiece : c % DateLength = 0 /\ c <= to
          \/ to \in {to} /\ to < t + MinPiece
      BY <2>4, <2>5, <2>6, <3>1 DEF Covering
    <3> QED BY <2>6, <3>1, <3>2
  <2> QED BY <1>2, <2>3, <2>6 DEF P
<1> QED BY <1>1, <1>2

\* What is open and pieces of it were seen, and come after every record.
LEMMA PieceIsRow ==
  ASSUME AppInv, NEW to \in Nat, NEW p, PieceOf(p, to), service.open # NoWindow, to <= second
  PROVE  /\ p.to <= second
         /\ \A t \in DOMAIN seen : p.from <= t /\ t < p.to => seen[t].win = p.win /\ seen[t].state = p.state
         /\ \A r \in rows : r.to <= p.from
<1>1. p.from \in Nat /\ p.to \in Nat /\ service.at \in Nat /\ second \in Nat
      /\ service.at <= p.from /\ p.to <= to /\ p.win = service.open /\ p.state = service.state
  BY DEF AppInv, AppTypes, PieceOf, AppRow
<1>2. \A t \in DOMAIN seen : t \in Nat
  BY DEF AppInv, AppTypes
<1>3. \A t \in DOMAIN seen : service.at <= t => seen[t].win = service.open /\ seen[t].state = service.state
  BY DEF AppInv, OpenInv
<1>4. \A r \in rows : r.to <= service.at
  BY DEF AppInv, RowsInv, RowIs
<1>5. \A r \in rows : r.to \in Nat
  BY DEF AppInv, AppTypes
<1> QED BY <1>1, <1>2, <1>3, <1>4, <1>5

\* A service is let go, with what is open recorded, or not.
Ending ==
  /\ UNCHANGED <<second, front, doing, seen>> /\ (tick' = tick \/ tick' = NoTick)
  /\ service' = NoService \/ service' = NewService
  /\ lives' \in {lives, lives + 1} /\ service'.life <= lives'
  /\ \/ CloseAll /\ lost' = lost
     \/ /\ UNCHANGED <<rows, raced>>
        /\ \/ service.open = NoWindow /\ lost' = lost
           \/ lost' = lost \cup {service.life}

LEMMA NewIs ==
  ASSUME lives \in Nat
  PROVE  /\ NoService = [life |-> 0, open |-> NoWindow, at |-> 0, state |-> "active"]
         /\ NewService = [life |-> lives + 1, open |-> NoWindow, at |-> 0, state |-> "active"]
BY DEF NoService, NewService

LEMMA EndingStep == AppInv /\ Ending => AppInv'
<1> SUFFICES ASSUME AppInv, Ending PROVE AppInv'
  OBVIOUS
<1> USE AppConstants
<1>1. /\ second' = second /\ front' = front /\ doing' = doing /\ seen' = seen
      /\ tick' = tick \/ tick' = NoTick
      /\ service' = NoService \/ service' = NewService
      /\ lives' \in {lives, lives + 1} /\ service'.life <= lives'
      /\ lost' = lost \/ lost' = lost \cup {service.life}
  BY DEF Ending
<1>2. AppTypes /\ LivesInv /\ OpenInv /\ RowsInv /\ ApartInv /\ KeptInv
  BY DEF AppInv
<1>3. /\ second \in Nat /\ lives \in Nat /\ lives >= 1 /\ service.life \in Nat /\ tick.life \in Nat
      /\ tick.at \in Nat /\ service.at \in Nat
      /\ service.life <= lives /\ tick.life <= lives
      /\ \A t \in DOMAIN seen : t \in Nat /\ seen[t].life \in Nat /\ 1 <= seen[t].life /\ seen[t].life <= lives
      /\ \A l \in lost : l \in Nat /\ l <= lives
      /\ tick # NoTick => tick.life >= 1 /\ tick.at <= second
  BY <1>2 DEF AppTypes, LivesInv
<1>4. /\ service'.open = NoWindow /\ service'.life \in {0, lives + 1} /\ lives' \in Nat /\ lives <= lives'
      /\ service' \in [life : Nat, open : Wins, at : Nat, state : Doing]
  BY <1>1, <1>3, NewIs DEF Wins, Doing
<1>5. /\ ~InHand'
      /\ tick' \in [life : Nat, win : Wins, at : Nat, state : Doing] /\ tick'.life <= lives'
  <2>1. NoTick.life = 0 /\ NoTick \in [life : Nat, win : Wins, at : Nat, state : Doing]
    BY DEF NoTick, Wins, Doing
  <2>2. tick \in [life : Nat, win : Wins, at : Nat, state : Doing]
    BY <1>2 DEF AppTypes
  <2> QED BY <1>1, <1>3, <1>4, <2>1, <2>2 DEF InHand
<1>6. /\ rows \subseteq rows'
      /\ \A p \in rows' \ rows :
           /\ service.open # NoWindow
           /\ \E to \in Nat : to <= second /\ PieceOf(p, to)
      /\ ~raced' => ~raced /\ \A p, q \in rows' \ rows : p # q => p.to <= q.from \/ q.to <= p.from
      /\ \/ lost' = lost /\ \A t \in Nat :
              /\ service.open # NoWindow /\ service.at <= t /\ t + MinPiece <= second
              /\ \A c \in t + 1 .. t + MinPiece : c % DateLength # 0
              => \E p \in rows' : p.from <= t /\ t < p.to
         \/ lost' = lost \cup {service.life}
  <2>1. CASE /\ UNCHANGED <<rows, raced>>
             /\ \/ service.open = NoWindow /\ lost' = lost
                \/ lost' = lost \cup {service.life}
    BY <2>1
  <2>2. CASE CloseAll /\ lost' = lost
    <3>1. service.open # NoWindow => service.at <= second
      BY <1>2 DEF OpenInv
    <3> DEFINE P == Closing(service, second, "config")
    <3>2. /\ \A p \in P : PieceOf(p, second) /\ service.open # NoWindow
          /\ \A p, q \in P : p # q => p.to <= q.from \/ q.to <= p.from
          /\ \A t \in Nat :
               /\ service.open # NoWindow /\ service.at <= t /\ t + MinPiece <= second
               /\ \A c \in t + 1 .. t + MinPiece : c % DateLength # 0
               => \E p \in P : p.from <= t /\ t < p.to
      BY <1>2, <1>3, <3>1, ClosingFacts
    <3>3. CASE rows' = rows \cup P /\ UNCHANGED raced
      <4> HIDE DEF P
      <4>1. second <= second
        BY <1>3
      <4> QED BY <2>2, <3>2, <3>3, <4>1, <1>3
    <3>4. CASE InHand /\ rows' = rows \cup P \cup Closing(service, tick.at, "loop") /\ raced' = TRUE
      <4> DEFINE Q == Closing(service, tick.at, "loop")
      <4>1. service.open # NoWindow => service.at <= tick.at
        BY <1>2, <3>4 DEF OpenInv
      <4>2. \A p \in Q : PieceOf(p, tick.at) /\ service.open # NoWindow
        BY <1>2, <1>3, <4>1, ClosingFacts
      <4>3. tick.at <= second /\ second <= second
        BY <1>3, <3>4 DEF InHand
      <4> HIDE DEF P, Q
      <4>4. rows' = rows \cup P \cup Q
        BY <3>4 DEF Q
      <4>5. \A p \in rows' \ rows :
              service.open # NoWindow /\ \E to \in Nat : to <= second /\ PieceOf(p, to)
        BY <3>2, <4>2, <4>3, <4>4, <1>3
      <4> QED BY <2>2, <3>2, <3>4, <4>4, <4>5
    <3> QED BY <2>2, <3>3, <3>4 DEF CloseAll
  <2> QED BY <2>1, <2>2 DEF Ending
<1>7. ASSUME NEW p \in rows' \ rows
      PROVE  /\ p \in AppRow /\ p.to - p.from \in MinPiece .. MaxPiece /\ p.to <= second
             /\ \A t \in DOMAIN seen : p.from <= t /\ t < p.to => seen[t].win = p.win /\ seen[t].state = p.state
             /\ \A r \in rows : r.to <= p.from
  <2>1. PICK to \in Nat : to <= second /\ PieceOf(p, to) /\ service.open # NoWindow
    BY <1>6
  <2>2. p \in AppRow /\ p.to - p.from \in MinPiece .. MaxPiece
    BY <2>1 DEF PieceOf
  <2> QED BY <2>1, <2>2, PieceIsRow
<1>8. AppTypes'
  <2>1. rows' \subseteq AppRow
    BY <1>2, <1>7 DEF AppTypes, AppRow
  <2>2. lost' \subseteq Nat
    BY <1>1, <1>3
  <2>3. lives' >= 1
    BY <1>3, <1>4
  <2> QED BY <1>1, <1>2, <1>4, <1>5, <2>1, <2>2, <2>3 DEF AppTypes, AppRow
<1>9. LivesInv'
  <2>1. \A l \in lost' : l \in Nat /\ l <= lives
    BY <1>1, <1>3
  <2>2. service'.life \in lost' => service'.life = 0
    BY <1>3, <1>4, <2>1
  <2>3. \A l \in lost' : l <= lives'
    BY <1>3, <1>4, <2>1
  <2>4. \A t \in DOMAIN seen : t <= second /\ 1 <= seen[t].life /\ seen[t].life <= lives'
    BY <1>2, <1>3, <1>4 DEF LivesInv
  <2>5. tick' # NoTick => /\ tick'.life >= 1 /\ tick'.at <= second
                          /\ \A t \in DOMAIN seen : t < tick'.at
    BY <1>1, <1>2 DEF LivesInv
  <2>6. service'.life = 0 => service' = NoService
    BY <1>1, <1>3, NewIs
  <2> QED BY <1>1, <1>4, <1>5, <2>2, <2>3, <2>4, <2>5, <2>6 DEF LivesInv
<1>10. OpenInv'
  BY <1>4 DEF OpenInv
<1>11. RowsInv'
  <2> SUFFICES ASSUME NEW r \in rows' PROVE RowIs(r)'
    BY DEF RowsInv
  <2>1. CASE r \in rows
    BY <1>1, <1>2, <1>4, <1>5, <2>1 DEF RowsInv, RowIs
  <2>2. CASE r \notin rows
    BY <1>1, <1>4, <1>5, <1>7, <2>2 DEF RowIs
  <2> QED BY <2>1, <2>2
<1>12. ApartInv'
  <2> SUFFICES ASSUME ~raced', NEW r \in rows', NEW q \in rows', r # q
               PROVE  r.to <= q.from \/ q.to <= r.from
    BY DEF ApartInv
  <2>1. CASE r \in rows /\ q \in rows
    BY <1>2, <1>6, <2>1 DEF ApartInv
  <2>2. CASE r \in rows /\ q \notin rows
    BY <1>7, <2>2
  <2>3. CASE r \notin rows /\ q \in rows
    BY <1>7, <2>3
  <2>4. CASE r \notin rows /\ q \notin rows
    BY <1>6, <2>4
  <2> QED BY <2>1, <2>2, <2>3, <2>4
<1>13. OngoingInv'
  <2>1. \A t \in DOMAIN seen : seen[t].life # service'.life
    BY <1>3, <1>4
  <2>2. \A t \in DOMAIN seen' : ~Ongoing(t)'
    BY <1>1, <2>1 DEF Ongoing
  <2> QED BY <2>2 DEF OngoingInv
<1>14. KeptInv'
  <2> SUFFICES ASSUME NEW t \in DOMAIN seen, Stretch(t, MinPiece)
               PROVE  Recorded(t)' \/ LostWhole(t)'
    BY <1>1 DEF KeptInv, Stretch
  <2>1. t \in Nat /\ \A l \in Nat : t + l \in t .. t + l
    BY <1>3
  <2>2. CASE Recorded(t)
    BY <1>6, <2>2 DEF Recorded
  <2>3. CASE LostWhole(t)
    BY <1>1, <2>3 DEF LostWhole, Stretch
  <2>4. CASE Held(t)
    <3>1. /\ service.life = seen[t].life /\ service.open = seen[t].win /\ service.at <= t
          /\ service.open # NoWindow
      BY <2>4 DEF Held, Stretch
    <3>2. /\ t + MinPiece \in DOMAIN seen
          /\ \A c \in t + 1 .. t + MinPiece : c % DateLength # 0
      BY <2>1 DEF Stretch
    <3>3. CASE lost' = lost /\ \E p \in rows' : p.from <= t /\ t < p.to
      <4>1. PICK p \in rows' : p.from <= t /\ t < p.to
        BY <3>3
      <4>2. p.from \in Nat
        BY <1>8 DEF AppTypes
      <4>3. p.from < t + MaxPiece
        BY <2>1, <4>1, <4>2
      <4> QED BY <4>1, <4>3 DEF Recorded
    <3>4. CASE lost' = lost \cup {service.life}
      <4>1. \A u \in DOMAIN seen : u - service.at < MaxPiece
        BY <1>2, <3>1 DEF OpenInv
      <4>2. t + MaxPiece \notin DOMAIN seen
        BY <2>1, <3>1, <4>1, <1>3
      <4>3. ~Stretch(t, MaxPiece)
        BY <2>1, <4>2 DEF Stretch
      <4> QED BY <1>1, <3>1, <3>4, <4>3 DEF LostWhole, Stretch
    <3>5. t + MinPiece <= second
      BY <1>2, <3>2 DEF LivesInv
    <3> QED BY <1>6, <2>1, <3>1, <3>2, <3>3, <3>4, <3>5
  <2> QED BY <1>2, <2>2, <2>3, <2>4 DEF KeptInv
<1> QED BY <1>8, <1>9, <1>10, <1>11, <1>12, <1>13, <1>14 DEF AppInv

\* Nothing is recorded: the clock goes on, or the loop takes or drops a sample.
Quiet ==
  /\ UNCHANGED <<service, lives, seen, rows, lost, raced>>
  /\ second' \in {second, second + 1} /\ front' \in Wins /\ doing' \in Doing
  /\ \/ tick' = tick \/ tick' = NoTick
     \/ /\ second' = second /\ second \notin DOMAIN seen /\ service # NoService /\ lives' = lives
        /\ tick' = [life |-> service.life, win |-> front, at |-> second, state |-> doing]

LEMMA QuietStep == AppInv /\ Quiet => AppInv'
<1> SUFFICES ASSUME AppInv, Quiet PROVE AppInv'
  OBVIOUS
<1>1. /\ service' = service /\ lives' = lives /\ seen' = seen /\ rows' = rows /\ lost' = lost
      /\ raced' = raced /\ second' \in {second, second + 1} /\ front' \in Wins /\ doing' \in Doing
      /\ \/ tick' = tick \/ tick' = NoTick
         \/ /\ second' = second /\ second \notin DOMAIN seen /\ service # NoService
            /\ tick' = [life |-> service.life, win |-> front, at |-> second, state |-> doing]
  BY DEF Quiet
<1>2. AppTypes /\ LivesInv /\ OpenInv /\ RowsInv /\ ApartInv /\ OngoingInv /\ KeptInv
  BY DEF AppInv
<1>3. /\ second \in Nat /\ second' \in Nat /\ second <= second' /\ lives \in Nat /\ service.life \in Nat
      /\ front \in Wins /\ doing \in Doing /\ tick.at \in Nat /\ service.at \in Nat
      /\ \A t \in DOMAIN seen : t \in Nat /\ t <= second
      /\ \A r \in rows : r.to \in Nat /\ r.to <= second
  BY <1>1, <1>2 DEF AppTypes, LivesInv, RowsInv, RowIs
<1>4. /\ tick' \in [life : Nat, win : Wins, at : Nat, state : Doing] /\ tick'.life <= lives
      /\ tick' # NoTick => /\ tick'.life >= 1 /\ tick'.at <= second'
                          /\ \A t \in DOMAIN seen : t < tick'.at
      /\ InHand' => tick'.at = second \/ (InHand /\ tick'.at = tick.at)
  <2>1. CASE tick' = tick
    BY <1>1, <1>2, <1>3, <2>1 DEF AppTypes, LivesInv, InHand
  <2>2. CASE tick' = NoTick
    <3>1. NoTick.life = 0 /\ NoTick \in [life : Nat, win : Wins, at : Nat, state : Doing]
      BY DEF NoTick, Wins, Doing
    <3> QED BY <1>1, <1>3, <2>2, <3>1 DEF InHand
  <2>3. CASE /\ second' = second /\ second \notin DOMAIN seen /\ service # NoService
             /\ tick' = [life |-> service.life, win |-> front, at |-> second, state |-> doing]
    <3>1. tick'.life = service.life /\ tick'.at = second /\ service.life >= 1
      <4>1. service.life # 0
        BY <1>2, <2>3 DEF LivesInv
      <4> QED BY <1>3, <2>3, <4>1
    <3>2. \A t \in DOMAIN seen : t < second
      BY <1>3, <2>3
    <3>3. service.life <= lives
      BY <1>2 DEF LivesInv
    <3>4. tick' \in [life : Nat, win : Wins, at : Nat, state : Doing]
      BY <1>3, <2>3
    <3>5. second <= second'
      BY <1>3
    <3> QED BY <3>1, <3>2, <3>3, <3>4, <3>5
  <2> QED BY <1>1, <2>1, <2>2, <2>3
<1>5. AppTypes'
  BY <1>1, <1>2, <1>3, <1>4 DEF AppTypes
<1>6. LivesInv'
  <2>1. \A t \in DOMAIN seen : t <= second'
    BY <1>3
  <2> QED BY <1>1, <1>2, <1>4, <2>1 DEF LivesInv
<1>7. OpenInv'
  <2>1. service.open # NoWindow => service.at <= second' /\ (InHand' => service.at <= tick'.at)
    BY <1>2, <1>3, <1>4 DEF OpenInv
  <2> QED BY <1>1, <1>2, <2>1 DEF OpenInv
<1>8. RowsInv'
  <2>1. \A r \in rows : r.to <= second' /\ (InHand' => r.to <= tick'.at)
    BY <1>2, <1>3, <1>4 DEF RowsInv, RowIs
  <2> QED BY <1>1, <1>2, <2>1 DEF RowsInv, RowIs
<1>9. ApartInv' /\ OngoingInv' /\ KeptInv'
  <2>1. ApartInv'
    BY <1>1, <1>2 DEF ApartInv
  <2>2. OngoingInv'
    BY <1>1, <1>2 DEF OngoingInv, Ongoing, Recorded, MidnightCame
  <2>3. KeptInv'
    BY <1>1, <1>2 DEF KeptInv, Stretch, Recorded, Held, LostWhole
  <2> QED BY <2>1, <2>2, <2>3
<1> QED BY <1>5, <1>6, <1>7, <1>8, <1>9 DEF AppInv

-----------------------------------------------------------------------------
\* A look at the screen.
Looked == [win |-> tick.win, state |-> tick.state, life |-> tick.life]
LookFacts ==
  /\ DOMAIN seen' = DOMAIN seen \cup {tick.at} /\ seen'[tick.at] = Looked
  /\ seen' = [t \in DOMAIN seen \cup {tick.at} |-> IF t = tick.at THEN Looked ELSE seen[t]]
  /\ \A t \in DOMAIN seen : seen'[t] = seen[t] /\ t < tick.at /\ t \in Nat
  /\ tick' = NoTick /\ UNCHANGED <<second, front, doing, lives, lost, raced>>
  /\ tick # NoTick /\ tick.life = service.life /\ tick.life >= 1 /\ tick.at <= second
  /\ tick \in [life : Nat, win : Wins, at : Nat, state : Doing]
  /\ second \in Nat /\ service.at \in Nat

LEMMA Looking == AppInv /\ Observe => LookFacts
<1> SUFFICES ASSUME AppInv, Observe PROVE LookFacts
  OBVIOUS
<1>1. /\ tick # NoTick /\ tick.life = service.life /\ tick' = NoTick
      /\ seen' = [t \in DOMAIN seen \cup {tick.at} |->
                    IF t = tick.at THEN [win |-> tick.win, state |-> tick.state, life |-> tick.life] ELSE seen[t]]
      /\ UNCHANGED <<second, front, doing, lives, lost, raced>>
  BY DEF Observe, deskVars
<1>2. /\ tick.life >= 1 /\ tick.at <= second /\ second \in Nat /\ service.at \in Nat
      /\ tick \in [life : Nat, win : Wins, at : Nat, state : Doing]
      /\ \A t \in DOMAIN seen : t < tick.at /\ t \in Nat
  BY <1>1 DEF AppInv, AppTypes, LivesInv
<1>3. seen' = [t \in DOMAIN seen \cup {tick.at} |-> IF t = tick.at THEN Looked ELSE seen[t]]
  BY <1>1 DEF Looked
<1>4. DOMAIN seen' = DOMAIN seen \cup {tick.at} /\ seen'[tick.at] = Looked
      /\ \A t \in DOMAIN seen : seen'[t] = seen[t]
  <2>1. \A t \in DOMAIN seen : t # tick.at
    BY <1>2
  <2> QED BY <1>3, <2>1
<1> QED BY <1>1, <1>2, <1>3, <1>4 DEF LookFacts

\* What the three cases come to: the records that are new, and what is open then.
LookCases ==
  \/ /\ NothingToSee /\ service'.open = NoWindow
     /\ rows' = rows \cup Closing(service, tick.at, "loop")
  \/ /\ ~NothingToSee /\ Continues
     /\ service.open # NoWindow
     /\ service'.open = service.open /\ service'.state = service.state
     /\ service'.at = Max(Cuts(service.at, tick.at))
     /\ rows' = rows \cup Pieces(service, Cuts(service.at, tick.at), "loop")
  \/ /\ ~NothingToSee /\ ~Continues
     /\ service'.open = tick.win /\ service'.at = tick.at /\ service'.state = tick.state
     /\ rows' = rows \cup Closing(service, tick.at, "loop")

LEMMA LookingCases ==
  AppInv /\ Observe => LookCases /\ service' = [life |-> service.life, open |-> service'.open,
                                               at |-> service'.at, state |-> service'.state]
<1> SUFFICES ASSUME AppInv, Observe
             PROVE  LookCases /\ service' = [life |-> service.life, open |-> service'.open,
                                            at |-> service'.at, state |-> service'.state]
  OBVIOUS
<1>1. service \in [life : Nat, open : Wins, at : Nat, state : Doing]
  BY DEF AppInv, AppTypes
<1>2. \/ /\ NothingToSee
         /\ rows' = rows \cup Closing(service, tick.at, "loop")
         /\ service' = [service EXCEPT !.open = NoWindow]
      \/ /\ ~NothingToSee /\ Continues
         /\ rows' = rows \cup Pieces(service, Cuts(service.at, tick.at), "loop")
         /\ service' = [service EXCEPT !.at = Max(Cuts(service.at, tick.at))]
      \/ /\ ~NothingToSee /\ ~Continues
         /\ rows' = rows \cup Closing(service, tick.at, "loop")
         /\ service' = [service EXCEPT !.open = tick.win, !.at = tick.at, !.state = tick.state]
  <2> HIDE DEF NothingToSee, Continues
  <2>1. CASE NothingToSee
    BY <2>1 DEF Observe
  <2>2. CASE ~NothingToSee /\ Continues
    BY <2>2 DEF Observe
  <2>3. CASE ~NothingToSee /\ ~Continues
    BY <2>3 DEF Observe
  <2> QED BY <2>1, <2>2, <2>3
<1>3. CASE /\ NothingToSee
           /\ rows' = rows \cup Closing(service, tick.at, "loop")
           /\ service' = [service EXCEPT !.open = NoWindow]
  <2>1. service' = [life |-> service.life, open |-> NoWindow, at |-> service.at, state |-> service.state]
    BY <1>1, <1>3
  <2> QED BY <1>3, <2>1 DEF LookCases
<1>4. CASE /\ ~NothingToSee /\ Continues
           /\ rows' = rows \cup Pieces(service, Cuts(service.at, tick.at), "loop")
           /\ service' = [service EXCEPT !.at = Max(Cuts(service.at, tick.at))]
  <2>1. service' = [life |-> service.life, open |-> service.open,
                    at |-> Max(Cuts(service.at, tick.at)), state |-> service.state]
    BY <1>1, <1>4
  <2>2. service.open # NoWindow
    BY <1>4 DEF NothingToSee, Continues
  <2> QED BY <1>4, <2>1, <2>2 DEF LookCases
<1>5. CASE /\ ~NothingToSee /\ ~Continues
           /\ rows' = rows \cup Closing(service, tick.at, "loop")
           /\ service' = [service EXCEPT !.open = tick.win, !.at = tick.at, !.state = tick.state]
  <2>1. service' = [life |-> service.life, open |-> tick.win, at |-> tick.at, state |-> tick.state]
    BY <1>1, <1>5
  <2> QED BY <1>5, <2>1 DEF LookCases
<1> QED BY <1>2, <1>3, <1>4, <1>5

\* What a look records, and from when it leaves something open.
LookRows ==
  /\ rows \subseteq rows'
  /\ \A p \in rows' \ rows :
       /\ PieceOf(p, tick.at) /\ service.open # NoWindow
       /\ service'.open # NoWindow => p.to <= service'.at
  /\ \A p, q \in rows' \ rows : p # q => p.to <= q.from \/ q.to <= p.from
  /\ service' \in [life : Nat, open : Wins, at : Nat, state : Doing]
  /\ service'.open # NoWindow =>
       /\ service'.at <= tick.at /\ tick.at - service'.at < MaxPiece
       /\ \A r \in rows : r.to <= service'.at
  /\ ~NothingToSee /\ Continues =>
       /\ service.open # NoWindow /\ service.at <= service'.at
       /\ service'.open = service.open /\ service'.state = service.state
       /\ \A t \in Nat : service.at <= t /\ t < service'.at =>
            \/ \E p \in rows' : p.from <= t /\ t < p.to
            \/ \E c \in t + 1 .. t + MinPiece : c % DateLength = 0 /\ c <= tick.at
  /\ NothingToSee \/ ~Continues =>
       /\ \A t \in Nat :
            /\ service.open # NoWindow /\ service.at <= t /\ t + MinPiece <= tick.at
            /\ \A c \in t + 1 .. t + MinPiece : c % DateLength # 0
            => \E p \in rows' : p.from <= t /\ t < p.to
  /\ NothingToSee => service'.open = NoWindow
  /\ ~NothingToSee => /\ service'.open = tick.win /\ service'.state = tick.state
                      /\ ~Continues => service'.at = tick.at

LEMMA LookingRows == AppInv /\ Observe => LookRows
<1> SUFFICES ASSUME AppInv, Observe PROVE LookRows
  OBVIOUS
<1> USE AppConstants
<1> DEFINE v == tick.at
<1>1. LookFacts /\ LookCases
      /\ service' = [life |-> service.life, open |-> service'.open,
                     at |-> service'.at, state |-> service'.state]
  BY Looking, LookingCases
<1>2. AppTypes /\ OpenInv /\ RowsInv
  BY DEF AppInv
<1>3. /\ v \in Nat /\ service.at \in Nat /\ service.open \in Wins /\ service.state \in Doing
      /\ service.life \in Nat /\ tick.win \in Wins /\ tick.state \in Doing
      /\ \A r \in rows : r.to \in Nat
  BY <1>1, <1>2 DEF LookFacts, AppTypes
<1>4. InHand
  BY <1>1 DEF InHand, LookFacts
<1>5. service.open # NoWindow => service.at <= v /\ \A r \in rows : r.to <= service.at
  BY <1>2, <1>4 DEF OpenInv, RowsInv, RowIs
<1>6. \A r \in rows : r.to <= v
  BY <1>2, <1>4 DEF RowsInv, RowIs
<1> DEFINE P == Closing(service, v, "loop")
<1>7. /\ \A p \in P : PieceOf(p, v) /\ service.open # NoWindow
      /\ \A p, q \in P : p # q => p.to <= q.from \/ q.to <= p.from
      /\ \A t \in Nat :
           /\ service.open # NoWindow /\ service.at <= t /\ t + MinPiece <= v
           /\ \A c \in t + 1 .. t + MinPiece : c % DateLength # 0
           => \E p \in P : p.from <= t /\ t < p.to
  <2>1. service.open # NoWindow => service.at <= v
    BY <1>5
  <2> HIDE DEF v
  <2> QED BY <1>2, <1>3, <2>1, ClosingFacts
<1>8. \A p : PieceOf(p, v) => p.to <= v
  BY DEF PieceOf
<1>9. CASE /\ NothingToSee /\ service'.open = NoWindow
           /\ rows' = rows \cup P
  <2>1. service' \in [life : Nat, open : Wins, at : Nat, state : Doing]
    <3>1. service' = [service EXCEPT !.open = NoWindow]
      BY <1>9 DEF Observe
    <3>2. service \in [life : Nat, open : Wins, at : Nat, state : Doing] /\ NoWindow \in Wins
      BY <1>2 DEF AppTypes, Wins
    <3> QED BY <3>1, <3>2
  <2> HIDE DEF P, v
  <2> QED BY <1>7, <1>9, <2>1 DEF LookRows, v
<1>10. CASE /\ ~NothingToSee /\ ~Continues
            /\ service'.open = tick.win /\ service'.at = v /\ service'.state = tick.state
            /\ rows' = rows \cup P
  <2>1. service' \in [life : Nat, open : Wins, at : Nat, state : Doing]
    BY <1>1, <1>3, <1>10
  <2> HIDE DEF P
  <2>2. \A p \in rows' \ rows : PieceOf(p, v) /\ service.open # NoWindow /\ p.to <= service'.at
    BY <1>7, <1>8, <1>10
  <2>3. service'.at <= v /\ v - service'.at < MaxPiece /\ \A r \in rows : r.to <= service'.at
    BY <1>3, <1>6, <1>10
  <2> HIDE DEF v
  <2> QED BY <1>7, <1>10, <2>1, <2>2, <2>3 DEF LookRows, v
<1>11. CASE /\ ~NothingToSee /\ Continues
            /\ service.open # NoWindow
            /\ service'.open = service.open /\ service'.state = service.state
            /\ service'.at = Max(Cuts(service.at, v))
            /\ rows' = rows \cup Pieces(service, Cuts(service.at, v), "loop")
  <2> DEFINE C == Cuts(service.at, v)
             Q == Pieces(service, C, "loop")
  <2>1. service.at <= v
    BY <1>5, <1>11
  <2>2. /\ C \in SUBSET (service.at .. v) /\ service.at \in C
        /\ Max(C) \in C /\ \A c \in C : c <= Max(C)
    <3> DEFINE at == service.at
    <3>1. at \in Nat /\ v \in Nat /\ at <= v
      BY <1>3, <2>1
    <3> HIDE DEF at, v
    <3>2. /\ Cuts(at, v) \in SUBSET (at .. v) /\ at \in Cuts(at, v)
          /\ Max(Cuts(at, v)) \in Cuts(at, v)
      BY <3>1, CutsOf
    <3>3. \A c \in Cuts(at, v) : c <= Max(Cuts(at, v))
      BY <3>1, CutsOf
    <3> QED BY <3>2, <3>3 DEF at
  <2>3. v - Max(C) < MaxPiece
    <3> DEFINE at == service.at
    <3>1. at \in Nat /\ v \in Nat /\ at <= v
      BY <1>3, <2>1
    <3> HIDE DEF at, v
    <3>2. v - Max(Cuts(at, v)) < MaxPiece
      BY <3>1, CutsOf
    <3> QED BY <3>2 DEF at
  <2>4. C \cup {} = C
    OBVIOUS
  <2>5. \A p \in Q : PieceOf(p, v) /\ p.to <= Max(C)
    <3>1. \A p \in Pieces(service, C \cup {}, "loop") : PieceOf(p, v) /\ p.to <= Max(C)
      <4> HIDE DEF v
      <4> QED BY <1>2, <1>3, <2>1, PieceFacts
    <3> HIDE DEF C
    <3> QED BY <2>4, <3>1
  <2>6. \A p, q \in Q : p # q => p.to <= q.from \/ q.to <= p.from
    <3>1. \A p, q \in Pieces(service, C \cup {}, "loop") : p # q => p.to <= q.from \/ q.to <= p.from
      <4> HIDE DEF v
      <4> QED BY <1>2, <1>3, <2>1, PieceFacts
    <3> HIDE DEF C
    <3> QED BY <2>4, <3>1
  <2>7. Covering(Q, C, v, {})
    <3>1. Covering(Pieces(service, C \cup {}, "loop"), C \cup {}, v, {})
      <4> HIDE DEF v
      <4> QED BY <1>2, <1>3, <2>1, PieceFacts
    <3> HIDE DEF C
    <3> QED BY <2>4, <3>1
  <2>8. rows' = rows \cup Q /\ service'.at = Max(C)
    BY <1>11
  <2>9. service'.at \in Nat /\ service'.at <= v /\ service.at <= service'.at /\ service'.at \in C
    BY <1>3, <2>2, <2>8
  <2> HIDE DEF C, Q, v
  <2>10. service' \in [life : Nat, open : Wins, at : Nat, state : Doing]
    BY <1>1, <1>3, <1>11, <2>9
  <2>11. \A p \in rows' \ rows : PieceOf(p, v) /\ p.to <= service'.at
    BY <2>5, <2>8
  <2>12. \A r \in rows : r.to <= service'.at
    BY <1>3, <1>5, <1>11, <2>9
  <2>13. \A t \in Nat : service.at <= t /\ t < service'.at =>
           \/ \E p \in rows' : p.from <= t /\ t < p.to
           \/ \E c \in t + 1 .. t + MinPiece : c % DateLength = 0 /\ c <= v
    BY <2>7, <2>8, <2>9 DEF Covering
  <2>14. tick.win = service'.open /\ tick.state = service'.state
    BY <1>11 DEF Continues
  <2>15. v - service'.at < MaxPiece
    BY <2>3, <2>8
  <2>16. \A p, q \in rows' \ rows : p # q => p.to <= q.from \/ q.to <= p.from
    BY <2>6, <2>8
  <2> HIDE DEF NothingToSee, Continues
  <2> QED BY <1>11, <2>8, <2>9, <2>10, <2>11, <2>12, <2>13, <2>14, <2>15, <2>16 DEF LookRows, v
<1> QED BY <1>1, <1>9, <1>10, <1>11 DEF LookCases

\* A stretch that a look completes goes on up to it.
LEMMA NewStretch ==
  ASSUME LookFacts, NEW len \in Nat, len >= 1, NEW t \in DOMAIN seen', Stretch(t, len)'
  PROVE  /\ t \in DOMAIN seen
         /\ Stretch(t, len) \/ (t + len = tick.at /\ seen[t] = Looked)
<1>1. /\ t .. t + len \subseteq DOMAIN seen' /\ \A u \in t .. t + len : seen'[u] = seen'[t]
      /\ seen'[t].win # NoWindow /\ seen'[t].state # "locked"
      /\ \A c \in t + 1 .. t + len : c % DateLength # 0
  BY DEF Stretch
<1>2. /\ DOMAIN seen' = DOMAIN seen \cup {tick.at} /\ seen'[tick.at] = Looked /\ tick.at \in Nat
      /\ \A u \in DOMAIN seen : seen'[u] = seen[u] /\ u < tick.at /\ u \in Nat
  BY DEF LookFacts
<1>3. t \in Nat /\ t \in t .. t + len /\ t + len \in t .. t + len /\ t + len \in Nat /\ t < t + len
  BY <1>2
<1>4. t + len <= tick.at
  BY <1>1, <1>2, <1>3
<1>5. t \in DOMAIN seen
  BY <1>2, <1>3, <1>4
<1>6. CASE t + len = tick.at
  BY <1>1, <1>2, <1>3, <1>5, <1>6
<1>7. CASE t + len < tick.at
  <2>1. \A u \in t .. t + len : u \in DOMAIN seen /\ seen[u] = seen[t]
    BY <1>1, <1>2, <1>3, <1>5, <1>7
  <2>2. seen[t].win # NoWindow /\ seen[t].state # "locked"
    BY <1>1, <1>2, <1>5
  <2> QED BY <1>1, <1>5, <2>1, <2>2 DEF Stretch
<1> QED BY <1>3, <1>4, <1>5, <1>6, <1>7, <1>2

LEMMA LookStep == AppInv /\ Observe => AppInv'
<1> SUFFICES ASSUME AppInv, Observe PROVE AppInv'
  OBVIOUS
<1> USE AppConstants
<1> DEFINE v == tick.at
<1>1. LookFacts /\ LookRows /\ service'.life = service.life
  <2>1. service' = [life |-> service.life, open |-> service'.open,
                    at |-> service'.at, state |-> service'.state]
    BY LookingCases
  <2>2. service'.life = service.life
    BY <2>1
  <2> QED BY <2>2, Looking, LookingRows
<1>2. AppTypes /\ LivesInv /\ OpenInv /\ RowsInv /\ ApartInv /\ OngoingInv /\ KeptInv
  BY DEF AppInv
<1>3. /\ DOMAIN seen' = DOMAIN seen \cup {v} /\ seen'[v] = Looked
      /\ \A t \in DOMAIN seen : seen'[t] = seen[t] /\ t < v /\ t \in Nat
      /\ tick' = NoTick /\ second' = second /\ front' = front /\ doing' = doing
      /\ lives' = lives /\ lost' = lost /\ raced' = raced
      /\ tick.life = service.life /\ tick.life >= 1 /\ v <= second
      /\ v \in Nat /\ second \in Nat /\ service.at \in Nat
      /\ tick \in [life : Nat, win : Wins, at : Nat, state : Doing]
  BY <1>1 DEF LookFacts
<1>4. Looked \in [win : Wins, state : Doing, life : Nat]
      /\ Looked.win = tick.win /\ Looked.state = tick.state /\ Looked.life = service.life
  BY <1>3 DEF Looked
<1>5. /\ service' \in [life : Nat, open : Wins, at : Nat, state : Doing] /\ service'.at \in Nat
      /\ rows \subseteq rows'
      /\ service'.open # NoWindow =>
           /\ service'.at <= v /\ v - service'.at < MaxPiece
           /\ \A r \in rows : r.to <= service'.at
      /\ NothingToSee => service'.open = NoWindow
      /\ ~NothingToSee => /\ service'.open = tick.win /\ service'.state = tick.state
                          /\ ~Continues => service'.at = v
  BY <1>1 DEF LookRows
<1>6. ASSUME NEW p \in rows' \ rows
      PROVE  /\ p \in AppRow /\ p.to - p.from \in MinPiece .. MaxPiece /\ p.to <= second /\ p.to <= v
             /\ \A t \in DOMAIN seen : p.from <= t /\ t < p.to => seen[t].win = p.win /\ seen[t].state = p.state
             /\ \A r \in rows : r.to <= p.from
             /\ service'.open # NoWindow => p.to <= service'.at
  <2>1. PieceOf(p, v) /\ service.open # NoWindow /\ (service'.open # NoWindow => p.to <= service'.at)
    BY <1>1 DEF LookRows
  <2>2. p \in AppRow /\ p.to - p.from \in MinPiece .. MaxPiece /\ p.to <= v
    BY <2>1 DEF PieceOf
  <2> HIDE DEF v
  <2> QED BY <1>3, <2>1, <2>2, PieceIsRow
<1>7. ~InHand' /\ NoTick.life = 0 /\ NoTick \in [life : Nat, win : Wins, at : Nat, state : Doing]
  BY <1>3 DEF InHand, NoTick, Wins, Doing
<1>8. service.life <= lives /\ lives \in Nat /\ service.life \in Nat /\ service.life >= 1
      /\ service.life \notin lost
  BY <1>2, <1>3 DEF AppTypes, LivesInv
<1>9. AppTypes'
  <2>1. rows' \subseteq AppRow
    BY <1>2, <1>6 DEF AppTypes, AppRow
  <2>2. DOMAIN seen' \subseteq Nat /\ \A t \in DOMAIN seen' : seen'[t] \in [win : Wins, state : Doing, life : Nat]
    BY <1>2, <1>3, <1>4 DEF AppTypes
  <2>3. seen' = [t \in DOMAIN seen' |-> seen'[t]]
    <3>1. seen' = [t \in DOMAIN seen \cup {v} |-> IF t = v THEN Looked ELSE seen[t]]
      BY <1>1 DEF LookFacts
    <3> QED BY <3>1
  <2> QED BY <1>2, <1>3, <1>5, <1>7, <2>1, <2>2, <2>3 DEF AppTypes, AppRow
<1>10. LivesInv'
  <2>1. \A t \in DOMAIN seen' : t <= second /\ 1 <= seen'[t].life /\ seen'[t].life <= lives
    BY <1>2, <1>3, <1>4, <1>8 DEF LivesInv
  <2>2. NoTick.life <= lives
    BY <1>7, <1>8
  <2>3. service'.life # 0 /\ service'.life <= lives' /\ service'.life \notin lost'
    BY <1>1, <1>3, <1>8
  <2>4. \A l \in lost' : l <= lives'
    BY <1>2, <1>3 DEF LivesInv
  <2> QED BY <1>3, <1>7, <2>1, <2>2, <2>3, <2>4 DEF LivesInv
<1>11. ASSUME NEW t \in DOMAIN seen, service'.open # NoWindow, service'.at <= t
       PROVE  /\ ~NothingToSee /\ Continues /\ service.at <= t
              /\ service'.open = service.open /\ service'.state = service.state
  <2>1. t < v /\ t \in Nat
    BY <1>3
  <2>2. ~NothingToSee /\ Continues
    BY <1>5, <1>11, <2>1, <1>3
  <2>3. service.at <= service'.at /\ service'.open = service.open /\ service'.state = service.state
    BY <1>1, <2>2 DEF LookRows
  <2>4. service.at <= t
    BY <1>3, <1>5, <1>11, <2>1, <2>3
  <2> QED BY <2>2, <2>3, <2>4
<1>12. OpenInv'
  <2> SUFFICES ASSUME service'.open # NoWindow
               PROVE  /\ service'.at <= second'
                      /\ \A t \in DOMAIN seen' :
                           /\ t - service'.at < MaxPiece
                           /\ service'.at <= t => seen'[t].win = service'.open /\ seen'[t].state = service'.state
    BY <1>7 DEF OpenInv
  <2>1. service'.at <= second'
    BY <1>3, <1>5
  <2>2. ASSUME NEW t \in DOMAIN seen
        PROVE  /\ t - service'.at < MaxPiece
               /\ service'.at <= t => seen'[t].win = service'.open /\ seen'[t].state = service'.state
    <3>1. t - service'.at < MaxPiece
      BY <1>3, <1>5
    <3>2. ASSUME service'.at <= t PROVE seen'[t].win = service'.open /\ seen'[t].state = service'.state
      BY <1>2, <1>3, <1>11, <3>2 DEF OpenInv
    <3> QED BY <3>1, <3>2
  <2>3. /\ v - service'.at < MaxPiece
        /\ seen'[v].win = service'.open /\ seen'[v].state = service'.state
    BY <1>3, <1>4, <1>5
  <2> QED BY <1>3, <2>1, <2>2, <2>3
<1>13. RowsInv'
  <2> SUFFICES ASSUME NEW r \in rows' PROVE RowIs(r)'
    BY DEF RowsInv
  <2>1. CASE r \in rows
    <3>1. /\ r.to - r.from \in MinPiece .. MaxPiece /\ r.to <= second /\ r.to <= v /\ r.to \in Nat
          /\ \A t \in DOMAIN seen : r.from <= t /\ t < r.to => seen[t].win = r.win /\ seen[t].state = r.state
      <4>1. RowIs(r) /\ InHand /\ r.to \in Nat
        BY <1>1, <1>2, <2>1 DEF RowsInv, AppTypes, InHand, LookFacts
      <4> QED BY <4>1 DEF RowIs
    <3>2. ~(v < r.to)
      BY <1>3, <3>1
    <3> QED BY <1>3, <1>5, <1>7, <2>1, <3>1, <3>2 DEF RowIs
  <2>2. CASE r \notin rows
    <3>1. r.to \in Nat /\ ~(v < r.to)
      BY <1>3, <1>6, <2>2 DEF AppRow
    <3> QED BY <1>3, <1>6, <1>7, <2>2, <3>1 DEF RowIs
  <2> QED BY <2>1, <2>2
<1>14. ApartInv'
  <2> SUFFICES ASSUME ~raced', NEW r \in rows', NEW q \in rows', r # q
               PROVE  r.to <= q.from \/ q.to <= r.from
    BY DEF ApartInv
  <2>1. CASE r \in rows /\ q \in rows
    BY <1>2, <1>3, <2>1 DEF ApartInv
  <2>2. CASE r \in rows /\ q \notin rows
    BY <1>6, <2>2
  <2>3. CASE r \notin rows /\ q \in rows
    BY <1>6, <2>3
  <2>4. CASE r \notin rows /\ q \notin rows
    BY <1>1, <2>4 DEF LookRows
  <2> QED BY <2>1, <2>2, <2>3, <2>4
<1>15. \A t \in DOMAIN seen : Recorded(t) => Recorded(t)'
  BY <1>5 DEF Recorded
<1>16. ASSUME NEW t \in DOMAIN seen, \E p \in rows' : p.from <= t /\ t < p.to
       PROVE  Recorded(t)'
  <2>1. PICK p \in rows' : p.from <= t /\ t < p.to
    BY <1>16
  <2>2. p.from \in Nat /\ t \in Nat
    BY <1>3, <1>9 DEF AppTypes
  <2>3. p.from < t + MaxPiece
    BY <2>1, <2>2
  <2> QED BY <2>1, <2>3 DEF Recorded
<1>17. OngoingInv'
  <2> SUFFICES ASSUME NEW t \in DOMAIN seen', Ongoing(t)'
               PROVE  /\ service'.open = seen'[t].win /\ service'.state = seen'[t].state
                      /\ service'.at <= t \/ Recorded(t)' \/ MidnightCame(t)'
    BY DEF OngoingInv
  <2>1. /\ seen'[t].life = service.life /\ seen'[t].win # NoWindow /\ seen'[t].state # "locked"
        /\ \A u \in DOMAIN seen' : t <= u => seen'[u] = seen'[t]
    BY <1>1 DEF Ongoing
  <2>2. v \in DOMAIN seen' /\ t <= v
    BY <1>3
  <2>3. seen'[t] = Looked
    BY <1>3, <2>1, <2>2
  <2>4. ~NothingToSee /\ service'.open = seen'[t].win /\ service'.state = seen'[t].state
    BY <1>4, <1>5, <2>1, <2>3 DEF NothingToSee
  <2>5. service'.open # NoWindow
    BY <2>1, <2>4
  <2>6. CASE t = v
    BY <1>5, <2>4, <2>5, <2>6
  <2>7. CASE t \in DOMAIN seen
    <3>1. seen[t] = Looked /\ Ongoing(t)
      <4>1. seen[t] = seen'[t] /\ \A u \in DOMAIN seen : t <= u => seen[u] = seen[t]
        BY <1>3, <2>1, <2>7
      <4> QED BY <2>1, <2>3, <4>1 DEF Ongoing
    <3>2. /\ service.open = seen[t].win /\ service.state = seen[t].state
          /\ service.at <= t \/ Recorded(t) \/ MidnightCame(t)
      BY <1>2, <2>7, <3>1 DEF OngoingInv
    <3>3. Continues
      BY <1>4, <3>1, <3>2 DEF Continues
    <3>4. CASE Recorded(t)
      BY <1>15, <2>4, <2>7, <3>4
    <3>5. CASE MidnightCame(t)
      BY <1>3, <2>4, <3>5 DEF MidnightCame
    <3>6. CASE service.at <= t /\ service'.at <= t
      BY <2>4, <3>6
    <3>7. CASE service.at <= t /\ ~(service'.at <= t)
      <4>1. t < service'.at /\ t \in Nat
        BY <1>3, <1>5, <2>7, <3>7
      <4>2. \/ \E p \in rows' : p.from <= t /\ t < p.to
            \/ \E c \in t + 1 .. t + MinPiece : c % DateLength = 0 /\ c <= v
        BY <1>1, <2>4, <3>3, <3>7, <4>1 DEF LookRows
      <4>3. CASE \E p \in rows' : p.from <= t /\ t < p.to
        BY <1>16, <2>4, <2>7, <4>3
      <4>4. CASE \E c \in t + 1 .. t + MinPiece : c % DateLength = 0 /\ c <= v
        <5>1. \E c \in t + 1 .. v : c % DateLength = 0
          BY <1>3, <4>1, <4>4
        <5> QED BY <2>2, <2>4, <5>1 DEF MidnightCame
      <4> QED BY <4>2, <4>3, <4>4
    <3> QED BY <3>2, <3>4, <3>5, <3>6, <3>7
  <2> QED BY <1>3, <2>6, <2>7
<1>18. KeptInv'
  <2> SUFFICES ASSUME NEW t \in DOMAIN seen', Stretch(t, MinPiece)'
               PROVE  Recorded(t)' \/ Held(t)' \/ LostWhole(t)'
    BY DEF KeptInv
  <2>1. t \in DOMAIN seen /\ (Stretch(t, MinPiece) \/ (t + MinPiece = v /\ seen[t] = Looked))
    BY <1>1, NewStretch
  <2>2. t \in Nat /\ seen'[t] = seen[t] /\ t < v
    BY <1>3, <2>1
  <2>3. /\ seen[t].win # NoWindow /\ seen[t].state # "locked"
        /\ \A u \in t .. t + MinPiece : u \in DOMAIN seen' /\ seen'[u] = seen'[t]
        /\ \A c \in t + 1 .. t + MinPiece : c % DateLength # 0
    BY <2>2 DEF Stretch
  <2>4. CASE Stretch(t, MinPiece)
    <3>1. t + MinPiece \in DOMAIN seen /\ t + MinPiece <= v
      <4>1. t + MinPiece \in t .. t + MinPiece
        BY <2>2
      <4>2. t + MinPiece \in DOMAIN seen
        BY <2>4, <4>1 DEF Stretch
      <4> QED BY <1>3, <4>2
    <3>2. CASE Recorded(t)
      BY <1>15, <2>1, <3>2
    <3>3. CASE LostWhole(t)
      <4>1. seen[t].life \in lost /\ ~Stretch(t, MaxPiece)
        BY <3>3 DEF LostWhole
      <4>2. ~Stretch(t, MaxPiece)'
        <5>1. ASSUME Stretch(t, MaxPiece)' PROVE FALSE
          <6>1. Stretch(t, MaxPiece) \/ seen[t] = Looked
            BY <1>1, <5>1, NewStretch
          <6> QED BY <1>4, <1>8, <4>1, <6>1
        <5> QED BY <5>1
      <4> QED BY <1>3, <2>2, <4>1, <4>2 DEF LostWhole
    <3>4. CASE Held(t)
      <4>1. service.life = seen[t].life /\ service.open = seen[t].win /\ service.at <= t
            /\ service.open # NoWindow
        BY <2>3, <3>4 DEF Held
      <4>2. CASE NothingToSee \/ ~Continues
        <5>1. \E p \in rows' : p.from <= t /\ t < p.to
          BY <1>1, <2>2, <2>3, <3>1, <4>1, <4>2 DEF LookRows
        <5> QED BY <1>16, <2>1, <5>1
      <4>3. CASE ~NothingToSee /\ Continues
        <5>1. /\ service'.open = service.open
              /\ t < service'.at =>
                   \/ \E p \in rows' : p.from <= t /\ t < p.to
                   \/ \E c \in t + 1 .. t + MinPiece : c % DateLength = 0 /\ c <= v
          BY <1>1, <2>2, <4>1, <4>3 DEF LookRows
        <5>2. CASE t < service'.at
          BY <1>16, <2>1, <2>3, <5>1, <5>2
        <5>3. CASE ~(t < service'.at)
          <6>1. service'.at <= t
            BY <1>5, <2>2, <5>3
          <6> QED BY <1>1, <2>2, <4>1, <5>1, <6>1 DEF Held
        <5> QED BY <5>2, <5>3
      <4> QED BY <4>2, <4>3
    <3> QED BY <1>2, <2>1, <2>4, <3>2, <3>3, <3>4 DEF KeptInv
  <2>5. CASE t + MinPiece = v /\ seen[t] = Looked
    <3>1. Ongoing(t)'
      <4>1. \A u \in DOMAIN seen' : t <= u => u \in t .. t + MinPiece
        BY <1>3, <2>2, <2>5
      <4>2. \A u \in DOMAIN seen' : t <= u => seen'[u] = seen'[t]
        BY <2>3, <4>1
      <4>3. seen'[t].life = service'.life /\ seen'[t].win # NoWindow /\ seen'[t].state # "locked"
        BY <1>1, <1>4, <2>2, <2>3, <2>5
      <4> QED BY <4>2, <4>3 DEF Ongoing
    <3>2. /\ service'.open = seen'[t].win
          /\ service'.at <= t \/ Recorded(t)' \/ MidnightCame(t)'
      BY <1>17, <3>1 DEF OngoingInv
    <3>3. ~MidnightCame(t)'
      <4>1. ASSUME NEW w \in DOMAIN seen', NEW c \in t + 1 .. w PROVE c \in t + 1 .. t + MinPiece
        BY <1>3, <2>2, <2>5
      <4> QED BY <2>3, <4>1 DEF MidnightCame
    <3>4. CASE service'.at <= t
      BY <1>1, <1>4, <2>2, <2>5, <3>2, <3>4 DEF Held
    <3> QED BY <3>2, <3>3, <3>4
  <2> QED BY <2>1, <2>4, <2>5
<1> QED BY <1>9, <1>10, <1>12, <1>13, <1>14, <1>17, <1>18 DEF AppInv

LEMMA AppStarts == AppInit => AppInv
<1> SUFFICES ASSUME AppInit PROVE AppInv
  OBVIOUS
<1> USE AppConstants
<1>1. /\ second = 0 /\ front \in Wins /\ doing \in Doing /\ lives = 1 /\ tick = NoTick /\ rows = {}
      /\ DOMAIN seen = {} /\ seen = [t \in DOMAIN seen |-> seen[t]] /\ lost = {} /\ raced = FALSE
  BY DEF AppInit, Wins
<1>2. /\ NoTick = [life |-> 0, win |-> NoWindow, at |-> 0, state |-> "active"]
      /\ service = [life |-> 1, open |-> NoWindow, at |-> 0, state |-> "active"]
  BY DEF AppInit, NoTick, NoService
<1>3. AppTypes
  BY <1>1, <1>2 DEF AppTypes, Wins, Doing
<1>4. LivesInv
  BY <1>1, <1>2 DEF LivesInv
<1>5. OpenInv /\ RowsInv /\ ApartInv /\ OngoingInv /\ KeptInv
  BY <1>1, <1>2 DEF OpenInv, RowsInv, ApartInv, OngoingInv, KeptInv
<1> QED BY <1>3, <1>4, <1>5 DEF AppInv

LEMMA AppStep == AppInv /\ [AppNext]_appVars => AppInv'
<1> SUFFICES ASSUME AppInv, [AppNext]_appVars PROVE AppInv'
  OBVIOUS
<1>1. /\ front \in Wins /\ doing \in Doing /\ lives \in Nat /\ lives >= 1 /\ second \in Nat
      /\ service.life \in Nat /\ service.life <= lives
  BY DEF AppInv, AppTypes, LivesInv
<1>2. NoService.life = 0 /\ NewService.life = lives + 1 /\ NoService.open = NoWindow
  BY <1>1, NewIs
<1>3. CASE TickRead
  BY <1>1, <1>3, QuietStep DEF TickRead, Quiet, deskVars
<1>4. CASE Observe
  BY <1>4, LookStep
<1>5. CASE ObserveOrphan
  BY <1>1, <1>5, QuietStep DEF ObserveOrphan, Quiet, deskVars
<1>6. CASE TurnOff
  <2>1. Ending
    BY <1>1, <1>2, <1>6 DEF TurnOff, Ending, deskVars
  <2> QED BY <2>1, EndingStep
<1>7. CASE TurnOn
  <2>1. Ending
    BY <1>1, <1>2, <1>7 DEF TurnOn, Ending, deskVars
  <2> QED BY <2>1, EndingStep
<1>8. CASE Replace
  <2>1. Ending
    BY <1>1, <1>2, <1>8 DEF Replace, Ending, deskVars
  <2> QED BY <2>1, EndingStep
<1>9. CASE Revoked
  <2>1. Ending
    BY <1>1, <1>2, <1>9 DEF Revoked, Ending
  <2> QED BY <2>1, EndingStep
<1>10. ASSUME NEW crash \in BOOLEAN, Ends(crash) PROVE AppInv'
  <2>1. Ending
    <3>1. UNCHANGED <<second, front, doing, seen>> /\ tick' = NoTick
      BY <1>10 DEF Ends, deskVars
    <3>2. /\ service' = NoService \/ service' = NewService
          /\ lives' \in {lives, lives + 1} /\ service'.life <= lives'
      BY <1>1, <1>2, <1>10 DEF Ends
    <3>3. \/ CloseAll /\ lost' = lost
          \/ /\ UNCHANGED <<rows, raced>>
             /\ \/ service.open = NoWindow /\ lost' = lost
                \/ lost' = lost \cup {service.life}
      <4>1. CASE crash
        BY <1>10, <4>1 DEF Ends
      <4>2. CASE ~crash /\ service = NoService
        BY <1>2, <1>10, <4>2 DEF Ends
      <4>3. CASE ~crash /\ service # NoService
        BY <1>10, <4>3 DEF Ends
      <4> QED BY <4>1, <4>2, <4>3
    <3> QED BY <3>1, <3>2, <3>3 DEF Ending
  <2> QED BY <2>1, EndingStep
<1>11. CASE Second
  <2>1. front' \in Wins /\ doing' \in Doing
    BY <1>11, AppConstants DEF Second, Wins
  <2>2. Quiet
    BY <1>1, <1>11, <2>1 DEF Second, Quiet
  <2> QED BY <2>2, QuietStep
<1>12. CASE SignInOrOut
  BY <1>1, <1>12, QuietStep DEF SignInOrOut, Quiet
<1>13. CASE UNCHANGED appVars
  BY <1>1, <1>13, QuietStep DEF appVars, deskVars, Quiet
<1> QED BY <1>3, <1>4, <1>5, <1>6, <1>7, <1>8, <1>9, <1>10, <1>11, <1>12, <1>13 DEF AppNext

\* No second is recorded twice, unless both threads closed one stretch; no record is
\* longer or shorter than it may be, or half active and half idle; and of a stretch that
\* was looked at throughout, nothing is lost but by a crash or a revocation, and then less
\* than a whole piece (AppUsageTracker).
THEOREM StretchesRecorded == AppSpec => []AppsSound
<1>1. AppInv => AppsSound
  <2> SUFFICES ASSUME AppInv PROVE AppsSound
    OBVIOUS
  <2>1. OncePerSecond
    <3>1. \A r \in rows : r.to - r.from \in MinPiece .. MaxPiece
      BY DEF AppInv, RowsInv, RowIs
    <3>2. \A r, q \in rows : r # q => raced \/ r.to <= q.from \/ q.to <= r.from
      BY DEF AppInv, ApartInv
    <3> QED BY <3>1, <3>2 DEF OncePerSecond
  <2>2. RowsAsSeen
    BY DEF AppInv, RowsInv, RowIs, RowsAsSeen
  <2>3. StretchesKept
    <3> SUFFICES ASSUME NEW t \in DOMAIN seen,
                        Stretch(t, IF seen[t].life \in lost THEN MaxPiece ELSE MinPiece)
                 PROVE  Recorded(t) \/ Held(t)
      BY DEF StretchesKept, Recorded, Held
    <3>1. Stretch(t, MinPiece)
      <4>1. CASE seen[t].life \in lost
        <5>1. Stretch(t, MaxPiece) /\ t \in Nat
          BY <4>1 DEF AppInv, AppTypes
        <5>2. t .. t + MinPiece \subseteq t .. t + MaxPiece
              /\ t + 1 .. t + MinPiece \subseteq t + 1 .. t + MaxPiece
          BY <5>1, AppConstants
        <5> QED BY <5>1, <5>2 DEF Stretch
      <4>2. CASE seen[t].life \notin lost
        BY <4>2
      <4> QED BY <4>1, <4>2
    <3>2. ~LostWhole(t)
      BY DEF LostWhole
    <3> QED BY <3>1, <3>2 DEF AppInv, KeptInv
  <2> QED BY <2>1, <2>2, <2>3 DEF AppsSound
<1> QED BY <1>1, AppStarts, AppStep, PTL DEF AppSpec

\* What the types of AppUsage say beyond those of the invariant: the bounds, and that nothing
\* is open or recorded of no window, or of a locked PC.
FurtherTypes ==
  /\ second <= MaxSecond /\ enrolled \in BOOLEAN /\ ticker \in {"ticks", "gone"}
  /\ turns \in 0 .. MaxTurns /\ lives <= 1 + turns
  /\ service.at <= second /\ (service.open # NoWindow => service.state # "locked")
  /\ \A r \in rows : r.win # NoWindow /\ r.state # "locked"

LEMMA TurnCounts == ASSUME FurtherTypes, Turn PROVE turns' \in 0 .. MaxTurns /\ turns' = turns + 1
BY RowAssumption DEF FurtherTypes, Turn

\* What a thread records as it closes is of the window that was open.
LEMMA ClosedOf ==
  ASSUME NEW to, NEW who, NEW r \in Closing(service, to, who)
  PROVE  service.open # NoWindow /\ r.win = service.open /\ r.state = service.state
BY DEF Closing, Pieces

LEMMA CloseTyped ==
  ASSUME FurtherTypes, CloseAll
  PROVE  \A r \in rows' : r.win # NoWindow /\ r.state # "locked"
<1>1. \A r \in rows' : r \in rows \/ r \in Closing(service, second, "config")
                         \/ r \in Closing(service, tick.at, "loop")
  BY DEF CloseAll
<1> QED
  BY <1>1, ClosedOf DEF FurtherTypes

\* A step of the tracker's thread, or an end: the service goes, and may come anew.
LEMMA ServiceGoesTyped ==
  ASSUME AppInv, FurtherTypes,
         TurnOff \/ TurnOn \/ Replace \/ Revoked \/ \E crash \in BOOLEAN : Ends(crash)
  PROVE  FurtherTypes'
<1>1. Turn /\ UNCHANGED second /\ enrolled' \in BOOLEAN /\ ticker' \in {"ticks", "gone"}
  BY DEF TurnOff, TurnOn, Replace, Revoked, Ends, deskVars, FurtherTypes
<1>2. turns \in Nat /\ turns' = turns + 1 /\ turns' \in 0 .. MaxTurns /\ lives \in Nat /\ second \in Nat
  BY <1>1, TurnCounts, RowAssumption DEF FurtherTypes, AppInv, AppTypes
<1>3. lives' <= 1 + turns'
  <2>1. lives' = lives \/ lives' = lives + 1
    BY DEF TurnOff, TurnOn, Replace, Revoked, Ends
  <2> QED
    BY <1>2, <2>1 DEF FurtherTypes
<1>4. service'.at <= second /\ service'.open = NoWindow
  <2>1. service' \in {NoService, NewService}
    BY DEF TurnOff, TurnOn, Replace, Revoked, Ends
  <2> QED
    BY <1>2, <2>1, NewIs
<1>5. \A r \in rows' : r.win # NoWindow /\ r.state # "locked"
  <2>1. CloseAll \/ rows' = rows
    BY DEF TurnOff, TurnOn, Replace, Revoked, Ends
  <2> QED
    BY <2>1, CloseTyped DEF FurtherTypes
<1> QED
  BY <1>1, <1>2, <1>3, <1>4, <1>5 DEF FurtherTypes

LEMMA ObserveTyped == ASSUME AppInv, FurtherTypes, Observe PROVE FurtherTypes'
<1>1. LookFacts /\ LookRows /\ UNCHANGED <<second, enrolled, ticker, turns, lives>>
  BY Looking, LookingRows DEF Observe, deskVars
<1>2. tick.at \in Nat /\ tick.at <= second /\ second \in Nat /\ service.at \in Nat
  <2>1. tick # NoTick
    BY DEF Observe
  <2> QED
    BY <2>1 DEF AppInv, AppTypes, LivesInv
<1>3. service' \in [life : Nat, open : Wins, at : Nat, state : Doing]
  BY <1>1 DEF LookRows
<1>4. service'.at <= second
  <2>1. CASE NothingToSee
    <3>1. service'.at = service.at
      BY <2>1 DEF Observe, AppInv, AppTypes
    <3> QED
      BY <3>1 DEF FurtherTypes
  <2>2. CASE ~NothingToSee
    <3>1. service'.open # NoWindow
      BY <1>1, <2>2 DEF LookRows, NothingToSee
    <3> QED
      BY <1>1, <1>2, <1>3, <3>1 DEF LookRows
  <2> QED
    BY <2>1, <2>2
<1>5. service'.open # NoWindow => service'.state # "locked"
  BY <1>1 DEF LookRows, NothingToSee
<1>6. \A r \in rows' : r.win # NoWindow /\ r.state # "locked"
  <2>1. \A r \in rows' \ rows : r.win = service.open /\ r.state = service.state
                                  /\ service.open # NoWindow
    BY <1>1 DEF LookRows, PieceOf
  <2> QED
    BY <2>1 DEF FurtherTypes
<1> QED
  BY <1>1, <1>4, <1>5, <1>6 DEF FurtherTypes

LEMMA DeskTyped ==
  ASSUME AppInv, FurtherTypes, TickRead \/ ObserveOrphan \/ Second \/ SignInOrOut
  PROVE  FurtherTypes'
<1>1. UNCHANGED <<service, ticker, rows, lives>> /\ enrolled' \in BOOLEAN
  BY DEF TickRead, ObserveOrphan, Second, SignInOrOut, deskVars, FurtherTypes
<1>2. turns' \in 0 .. MaxTurns /\ turns <= turns' /\ turns \in Nat
  <2>1. turns' = turns \/ Turn
    BY DEF TickRead, ObserveOrphan, Second, SignInOrOut
  <2>2. turns \in Nat /\ turns \in 0 .. MaxTurns
    BY RowAssumption DEF FurtherTypes
  <2> QED
    BY <2>1, <2>2, TurnCounts
<1>3. second' <= MaxSecond /\ second <= second'
  BY RowAssumption
     DEF TickRead, ObserveOrphan, Second, SignInOrOut, deskVars, FurtherTypes, AppInv, AppTypes
<1>4. lives \in Nat /\ second \in Nat /\ second' \in Nat /\ service.at \in Nat
  BY DEF TickRead, ObserveOrphan, Second, SignInOrOut, deskVars, AppInv, AppTypes
<1>5. lives' <= 1 + turns' /\ service'.at <= second'
  <2>1. lives <= 1 + turns /\ service.at <= second /\ turns' \in Nat
    BY <1>2, RowAssumption DEF FurtherTypes
  <2>2. lives <= 1 + turns'
    <3>1. \A a, b, c \in Nat : a <= b /\ c <= 1 + a => c <= 1 + b
      OBVIOUS
    <3> QED
      BY <1>2, <1>4, <2>1, <3>1
  <2>3. service.at <= second'
    BY <1>3, <1>4, <2>1
  <2> QED
    BY <1>1, <2>2, <2>3
<1> QED
  BY <1>1, <1>2, <1>3, <1>5 DEF FurtherTypes

\* The shapes of the record of applications, within its bounds; and nothing is recorded, or
\* open, of no window or of a locked PC.
THEOREM AppsTyped == AppSpec => []AppTypeOK
<1>1. AppInit => FurtherTypes
  <2> SUFFICES ASSUME AppInit PROVE FurtherTypes
    OBVIOUS
  <2>1. service.open = NoWindow /\ service.at = 0
    BY DEF AppInit, NoService
  <2> QED
    BY <2>1, RowAssumption DEF AppInit, FurtherTypes
<1>2. AppInv /\ FurtherTypes /\ [AppNext]_appVars => FurtherTypes'
  <2>1. FurtherTypes /\ UNCHANGED appVars => FurtherTypes'
    BY DEF appVars, deskVars, FurtherTypes
  <2> QED
    BY <2>1, ServiceGoesTyped, ObserveTyped, DeskTyped DEF AppNext
<1>3. AppInv /\ FurtherTypes => AppTypeOK
  <2> SUFFICES ASSUME AppInv, FurtherTypes PROVE AppTypeOK
    OBVIOUS
  <2>1. /\ second \in 0 .. MaxSecond /\ front \in Window \cup {NoWindow} /\ doing \in Doing
        /\ lives \in 1 .. 1 + MaxTurns
    BY RowAssumption DEF AppInv, AppTypes, FurtherTypes, Wins
  <2>2. service \in [life : 0 .. 1 + MaxTurns, open : Window \cup {NoWindow}, at : 0 .. MaxSecond,
                     state : Doing]
    <3>1. service \in [life : Nat, open : Wins, at : Nat, state : Doing]
          /\ service.life <= lives /\ service.at <= second
      BY DEF AppInv, AppTypes, LivesInv, FurtherTypes
    <3>2. service.life \in 0 .. 1 + MaxTurns /\ service.at \in 0 .. MaxSecond
      BY <2>1, <3>1, RowAssumption
    <3> QED
      BY <3>1, <3>2 DEF Wins
  <2>3. ASSUME NEW r \in rows
        PROVE  r \in [from : 0 .. MaxSecond, to : 0 .. MaxSecond, win : Window,
                      state : {"active", "idle"}, by : {"loop", "config"}]
    <3>1. r \in [from : Nat, to : Nat, win : Wins, state : Doing, by : {"loop", "config"}]
      BY DEF AppInv, AppTypes
    <3>2. r.to - r.from \in MinPiece .. MaxPiece /\ r.to <= second
      BY DEF AppInv, RowsInv, RowIs
    <3>3. r.from \in 0 .. MaxSecond /\ r.to \in 0 .. MaxSecond
      BY <2>1, <3>1, <3>2, RowAssumption
    <3>4. r.win \in Window /\ r.state \in {"active", "idle"}
      BY <3>1 DEF FurtherTypes, Wins, Doing
    <3> QED
      BY <3>1, <3>3, <3>4
  <2> QED
    BY <2>1, <2>2, <2>3 DEF AppTypeOK, FurtherTypes
<1> QED
  BY AppStarts, AppStep, <1>1, <1>2, <1>3, PTL DEF AppSpec

-----------------------------------------------------------------------------
(***************************************************************************)
(* The tabs of the web application (IdleTabs): the screen signs out in     *)
(* time, and the cookie says the same.                                     *)
(***************************************************************************)
ClockTypes == IdleTypeOK /\ early = FALSE

\* No tab is further behind the last touch that counts than two throttles: while a tab that
\* is heard may not write again, the others have heard it at the beginning of that time, and
\* while it only notes the touches for itself, at most a throttle before.
HeardInv ==
  \A t \in user :
    /\ quiet[t] <= voiced + 2 * Throttle
    /\ \A u \in Tab \ mute : /\ told[u] > 0 => quiet[t] <= Throttle - told[u]
                             /\ throttle[u] > 0 => quiet[t] <= 2 * Throttle - throttle[u]

\* What a tab heard was a touch; one that is expired is about to notice; and where a sleep
\* carried it past the end, the last touch is no further back than the cookie allows.
TouchInv ==
  \A t \in user : /\ t \notin due => quiet[t] < Timeout
                  /\ \/ touch <= quiet[t]
                     \/ quiet[t] = Timeout /\ slept /\ (Alive => touch < 2 * Timeout)

\* A tab used since its last ping has pinged in time, or is warning.
PingInv ==
  \A t \in user \ due :
    quiet[t] <= pinged[t] => pinged[t] < PingEvery \/ quiet[t] >= Timeout - WarnBefore

\* The cookie is renewed for no longer than somebody is there, and at every ping that
\* reaches the server.
CookieInv ==
  Alive => /\ touch <= cookie + 2 * Timeout /\ (~slept => touch <= cookie + Timeout)
           /\ \A t \in user \ missed : cookie <= pinged[t] + PingEvery

TabInv == ClockTypes /\ HeardInv /\ TouchInv /\ PingInv /\ CookieInv

LEMMA TabConstants ==
  /\ Timeout \in Nat /\ WarnBefore \in Nat /\ Throttle \in Nat /\ PingEvery \in Nat
  /\ Timeout > 0 /\ WarnBefore > 0 /\ Throttle > 0 /\ PingEvery > 0 /\ RefreshAfter = PingEvery
  /\ WarnBefore <= PingEvery /\ 2 * PingEvery < Timeout /\ 2 * Throttle < Timeout
BY IdleAssumption

LEMMA TabTypes ==
  ASSUME ClockTypes
  PROVE  /\ user \subseteq Tab /\ due \subseteq Tab
         /\ quiet \in [Tab -> 0 .. Timeout] /\ pinged \in [Tab -> 0 .. Timeout]
         /\ throttle \in [Tab -> 0 .. Throttle] /\ told \in [Tab -> 0 .. Throttle]
         /\ cookie \in NoCookie .. Timeout /\ mute \subseteq Tab /\ missed \subseteq Tab
         /\ touch \in 0 .. 3 * Timeout /\ voiced \in 0 .. Timeout /\ slept \in BOOLEAN
         /\ early = FALSE
BY DEF ClockTypes, IdleTypeOK

LEMMA OlderIs ==
  ASSUME NEW max \in Nat, NEW age \in 0 .. max, NEW n \in Nat
  PROVE  /\ Older(age, n, max) \in 0 .. max
         /\ Older(age, n, max) = age + n \/ (Older(age, n, max) = max /\ max <= age + n)
BY DEF Older

LEMMA LessIs ==
  ASSUME NEW left \in Nat, NEW n \in Nat
  PROVE  Less(left, n) \in 0 .. left /\ (Less(left, n) > 0 => Less(left, n) = left - n)
BY DEF Less

\* A request renews the cookie of somebody who is there.
LEMMA RenewedIs ==
  ASSUME ClockTypes, Alive
  PROVE  /\ Renewed \in 0 .. PingEvery /\ Renewed \in 0 .. Timeout - 1
         /\ Renewed = 0 \/ Renewed = cookie
<1>1. cookie \in -1 .. Timeout
  BY TabTypes DEF NoCookie
<1> QED BY <1>1, TabConstants DEF Renewed, Alive, NoCookie

LEMMA TabsStart == IdleInit => TabInv
<1> SUFFICES ASSUME IdleInit PROVE TabInv
  OBVIOUS
<1>1. ClockTypes
  <2>1. 0 \in 0 .. Timeout /\ 0 \in 0 .. Throttle /\ 0 \in 0 .. 3 * Timeout /\ -1 \in -1 .. Timeout
    BY TabConstants
  <2> QED BY <2>1 DEF IdleInit, ClockTypes, IdleTypeOK, NoCookie
<1>2. HeardInv /\ TouchInv /\ PingInv /\ CookieInv
  BY DEF IdleInit, HeardInv, TouchInv, PingInv, CookieInv, Alive, NoCookie
<1> QED BY <1>1, <1>2 DEF TabInv

\* Where the cookie is renewed, or kept: what it says of the last touch.
LEMMA CookieTouched ==
  ASSUME TabInv, NEW t \in user, Alive, cookie' = Renewed, UNCHANGED <<user, touch, quiet, slept>>
  PROVE  /\ cookie' \in 0 .. Timeout - 1 /\ Alive'
         /\ touch' <= cookie' + 2 * Timeout /\ (~slept' => touch' <= cookie' + Timeout)
<1> USE TabConstants, TabTypes
<1>1. /\ Renewed \in 0 .. PingEvery /\ Renewed \in 0 .. Timeout - 1
      /\ Renewed = 0 \/ Renewed = cookie
  BY RenewedIs DEF TabInv
<1>2. Alive'
  BY <1>1 DEF Alive, NoCookie
<1>3. /\ touch <= cookie + 2 * Timeout /\ (~slept => touch <= cookie + Timeout)
      /\ \/ touch <= quiet[t]
         \/ quiet[t] = Timeout /\ slept /\ touch < 2 * Timeout
  BY DEF TabInv, TouchInv, CookieInv
<1>4. touch \in Nat /\ quiet[t] \in 0 .. Timeout
  BY DEF TabInv
<1>5. CASE Renewed = cookie
  BY <1>1, <1>2, <1>3, <1>5
<1>6. CASE Renewed = 0
  BY <1>1, <1>2, <1>3, <1>4, <1>6
<1> QED BY <1>1, <1>5, <1>6

LEMMA AsksKept == ASSUME TabInv, NEW t \in Tab, Asks(t) PROVE TabInv'
<1> USE TabConstants, TabTypes
<1>1. t \in user /\ UNCHANGED <<quiet, pinged, throttle, told, due, mute, missed, touch, voiced, slept, early>>
  BY DEF Asks, personVars
<1>2. CASE Alive
  <2>1. cookie' = Renewed /\ user' = user
    BY <1>2 DEF Asks
  <2>2. /\ cookie' \in 0 .. Timeout - 1 /\ Alive'
        /\ touch' <= cookie' + 2 * Timeout /\ (~slept' => touch' <= cookie' + Timeout)
    BY <1>1, <1>2, <2>1, CookieTouched
  <2>3. ClockTypes'
    BY <1>1, <2>1, <2>2 DEF TabInv, ClockTypes, IdleTypeOK, NoCookie
  <2>4. HeardInv' /\ PingInv'
    BY <1>1, <2>1 DEF TabInv, HeardInv, PingInv
  <2>5. TouchInv'
    BY <1>1, <1>2, <2>1 DEF TabInv, TouchInv
  <2>6. \A u \in user' \ missed' : cookie' <= pinged'[u] + PingEvery
    <3>1. cookie' \in 0 .. PingEvery
      BY <1>2, <2>1, RenewedIs DEF TabInv
    <3>2. \A u \in user' : pinged'[u] \in Nat
      BY <1>1, <2>1 DEF TabInv
    <3> QED BY <3>1, <3>2
  <2> QED BY <2>2, <2>3, <2>4, <2>5, <2>6 DEF TabInv, CookieInv
<1>3. CASE ~Alive
  <2>1. user' = user \ {t} /\ cookie' = cookie
    BY <1>3 DEF Asks
  <2>2. ~Alive'
    BY <1>3, <2>1 DEF Alive
  <2>3. ClockTypes' /\ HeardInv' /\ PingInv'
    BY <1>1, <2>1 DEF TabInv, ClockTypes, IdleTypeOK, HeardInv, PingInv
  <2>4. TouchInv'
    BY <1>1, <1>3, <2>1, <2>2 DEF TabInv, TouchInv
  <2> QED BY <2>2, <2>3, <2>4 DEF TabInv, CookieInv
<1> QED BY <1>2, <1>3

\* A touch, told or kept: what it does to the clocks of the tabs.
LEMMA MarkedActive ==
  ASSUME TabInv, NEW t \in Tab, t \in user, due = {}, UNCHANGED <<user, cookie, missed, early>>,
         touch' = 0, slept' = FALSE, throttle' \in [Tab -> 0 .. Throttle], told' \in [Tab -> 0 .. Throttle],
         \A u \in Tab \ {t} : throttle'[u] = throttle[u] /\ told'[u] = told[u],
         pinged' = [pinged EXCEPT ![t] = pinged'[t]], pinged'[t] \in pinged[t] .. Timeout,
         \/ Tells(t)
         \/ /\ KeepsQuiet(t) /\ told'[t] = told[t]
            /\ throttle'[t] = throttle[t] \/ told[t] > 0
            /\ told[t] > 0 \/ throttle[t] > 0
  PROVE  TabInv'
<1> USE TabConstants, TabTypes
<1>1. /\ quiet' \in [Tab -> 0 .. Timeout] /\ quiet'[t] = 0
      /\ due' \subseteq Tab /\ t \in due' /\ mute' \subseteq Tab /\ voiced' \in 0 .. Timeout
      /\ \A u \in user : (quiet'[u] = 0 /\ u \in due') \/ quiet'[u] = quiet[u]
  BY DEF TabInv, Tells, KeepsQuiet, HeardByAll
<1>2. ClockTypes'
  <2>1. pinged' \in [Tab -> 0 .. Timeout]
    BY DEF TabInv
  <2>2. 0 \in 0 .. 3 * Timeout /\ user' \subseteq Tab /\ cookie' \in NoCookie .. Timeout
        /\ missed' \subseteq Tab /\ early' = FALSE
    BY DEF TabInv
  <2> QED BY <1>1, <2>1, <2>2 DEF ClockTypes, IdleTypeOK
<1>3. HeardInv'
  <2> SUFFICES ASSUME NEW x \in user
               PROVE  /\ quiet'[x] <= voiced' + 2 * Throttle
                      /\ \A u \in Tab \ mute' :
                           /\ told'[u] > 0 => quiet'[x] <= Throttle - told'[u]
                           /\ throttle'[u] > 0 => quiet'[x] <= 2 * Throttle - throttle'[u]
    BY DEF HeardInv
  <2>1. /\ quiet[x] <= voiced + 2 * Throttle
        /\ \A u \in Tab \ mute : /\ told[u] > 0 => quiet[x] <= Throttle - told[u]
                                 /\ throttle[u] > 0 => quiet[x] <= 2 * Throttle - throttle[u]
    BY DEF TabInv, HeardInv
  <2>2. /\ quiet[x] \in Nat /\ quiet'[x] \in Nat /\ quiet'[x] <= quiet[x]
        /\ voiced \in Nat /\ voiced' \in Nat
        /\ \A u \in Tab : /\ told[u] \in Nat /\ throttle[u] \in Nat
                          /\ told'[u] \in 0 .. Throttle /\ throttle'[u] \in 0 .. Throttle
    BY <1>1 DEF TabInv
  <2>3. CASE quiet' = HeardByAll(t) /\ voiced' = 0
    <3>1. quiet'[x] = 0
      BY <2>3 DEF HeardByAll, TabInv
    <3> QED BY <3>1, <2>2, <2>3
  <2>4. CASE mute' = mute \cup {t} /\ voiced' = voiced
    BY <2>1, <2>2, <2>4
  <2>5. CASE KeepsQuiet(t) /\ told'[t] = told[t] /\ (throttle'[t] = throttle[t] \/ told[t] > 0)
             /\ (told[t] > 0 \/ throttle[t] > 0)
    <3>1. mute' = mute /\ voiced' = IF t \in mute THEN voiced ELSE 0
      BY <2>5 DEF KeepsQuiet
    <3>2. t \notin mute => quiet[x] <= 2 * Throttle
      BY <2>1, <2>2, <2>5
    <3>3. quiet'[x] <= voiced' + 2 * Throttle
      BY <2>1, <2>2, <3>1, <3>2
    <3>4. ASSUME NEW u \in Tab \ mute'
          PROVE  /\ told'[u] > 0 => quiet'[x] <= Throttle - told'[u]
                 /\ throttle'[u] > 0 => quiet'[x] <= 2 * Throttle - throttle'[u]
      BY <2>1, <2>2, <2>5, <3>1
    <3> QED BY <3>3, <3>4
  <2> QED BY <2>3, <2>4, <2>5 DEF Tells
<1>4. TouchInv'
  <2> SUFFICES ASSUME NEW u \in user PROVE (u \notin due' => quiet'[u] < Timeout) /\ touch' <= quiet'[u]
    BY DEF TouchInv
  <2> QED BY <1>1 DEF TabInv, TouchInv
<1>5. PingInv'
  <2> SUFFICES ASSUME NEW u \in user, u \notin due', quiet'[u] <= pinged'[u]
               PROVE  pinged'[u] < PingEvery \/ quiet'[u] >= Timeout - WarnBefore
    BY DEF PingInv
  <2>1. u # t /\ quiet'[u] = quiet[u] /\ pinged'[u] = pinged[u]
    BY <1>1 DEF TabInv
  <2> QED BY <2>1 DEF TabInv, PingInv
<1>6. CookieInv'
  <2> SUFFICES ASSUME Alive'
               PROVE  /\ touch' <= cookie' + 2 * Timeout /\ touch' <= cookie' + Timeout
                      /\ \A u \in user \ missed : cookie' <= pinged'[u] + PingEvery
    BY DEF CookieInv
  <2>1. Alive /\ cookie \in Nat /\ cookie' = cookie
    BY DEF Alive, TabInv, NoCookie
  <2>2. ASSUME NEW u \in user \ missed PROVE cookie' <= pinged'[u] + PingEvery
    <3>1. cookie <= pinged[u] + PingEvery /\ pinged[u] \in Nat
      BY <2>1 DEF TabInv, CookieInv
    <3>2. pinged'[u] \in Nat /\ pinged[u] <= pinged'[u]
      BY <3>1 DEF TabInv
    <3> QED BY <2>1, <3>1, <3>2
  <2> QED BY <2>1, <2>2
<1> QED BY <1>2, <1>3, <1>4, <1>5, <1>6 DEF TabInv

LEMMA TouchKept == ASSUME TabInv, NEW t \in Tab, Touch(t) PROVE TabInv'
<1> USE TabConstants, TabTypes
<1>1. /\ t \in user /\ due = {} /\ touch' = 0 /\ slept' = FALSE
      /\ UNCHANGED <<user, pinged, cookie, missed, early>>
  BY DEF Touch
<1>2. pinged' = [pinged EXCEPT ![t] = pinged'[t]] /\ pinged'[t] \in pinged[t] .. Timeout
  BY <1>1 DEF TabInv
<1>3. /\ throttle' \in [Tab -> 0 .. Throttle] /\ told' \in [Tab -> 0 .. Throttle]
      /\ \A u \in Tab \ {t} : throttle'[u] = throttle[u] /\ told'[u] = told[u]
      /\ \/ Tells(t)
         \/ /\ KeepsQuiet(t) /\ told'[t] = told[t]
            /\ throttle'[t] = throttle[t] \/ told[t] > 0
            /\ told[t] > 0 \/ throttle[t] > 0
  BY <1>1 DEF Touch, MarkActive, TabInv
<1> QED BY <1>1, <1>2, <1>3, MarkedActive

LEMMA StayKept == ASSUME TabInv, NEW t \in Tab, Stay(t) PROVE TabInv'
<1> USE TabConstants, TabTypes
<1>1. /\ t \in user /\ due = {} /\ touch' = 0 /\ slept' = FALSE /\ Tells(t)
      /\ told' = [told EXCEPT ![t] = Throttle] /\ pinged' = [pinged EXCEPT ![t] = Timeout]
      /\ UNCHANGED <<user, throttle, cookie, missed, early>>
  BY DEF Stay, MarkActive
<1>2. pinged' = [pinged EXCEPT ![t] = pinged'[t]] /\ pinged'[t] \in pinged[t] .. Timeout
  BY <1>1 DEF TabInv
<1>3. /\ throttle' \in [Tab -> 0 .. Throttle] /\ told' \in [Tab -> 0 .. Throttle]
      /\ \A u \in Tab \ {t} : throttle'[u] = throttle[u] /\ told'[u] = told[u]
  BY <1>1 DEF TabInv
<1> QED BY <1>1, <1>2, <1>3, MarkedActive

LEMMA TickKept == ASSUME TabInv, NEW t \in Tab, Tick(t) PROVE TabInv'
<1> USE TabConstants, TabTypes
<1>1. /\ t \in due /\ due' = due \ {t}
      /\ UNCHANGED <<quiet, throttle, told, mute, touch, voiced, slept>>
  BY DEF Tick
<1>2. CASE t \notin user /\ UNCHANGED <<user, cookie, early, pinged, missed>>
  <2>1. Alive' = Alive
    BY <1>2 DEF Alive
  <2>2. ClockTypes' /\ HeardInv' /\ PingInv' /\ CookieInv'
    BY <1>1, <1>2, <2>1 DEF TabInv, ClockTypes, IdleTypeOK, HeardInv, PingInv, CookieInv
  <2>3. TouchInv'
    BY <1>1, <1>2, <2>1 DEF TabInv, TouchInv
  <2> QED BY <2>2, <2>3 DEF TabInv
<1>3. CASE t \in user /\ Expire(t)
  <2>1. /\ user' = user \ {t} /\ cookie' \in {NoCookie, cookie} /\ UNCHANGED <<pinged, missed>>
        /\ early' = (early \/ voiced < Timeout - 2 * Throttle)
    BY <1>3 DEF Expire
  <2>2. quiet[t] >= Timeout
    BY <1>3 DEF Expire, Phase
  <2>3. early' = FALSE
    <3>1. quiet[t] <= voiced + 2 * Throttle /\ voiced \in Nat /\ quiet[t] \in Nat
      BY <1>3 DEF TabInv, HeardInv
    <3>2. ~(voiced < Timeout - 2 * Throttle)
      BY <2>2, <3>1
    <3> QED BY <2>1, <3>2 DEF TabInv
  <2>4. ClockTypes'
    BY <1>1, <2>1, <2>3 DEF TabInv, ClockTypes, IdleTypeOK, NoCookie
  <2>5. HeardInv' /\ PingInv'
    BY <1>1, <2>1 DEF TabInv, HeardInv, PingInv
  <2>6. Alive' => Alive /\ cookie' = cookie
    BY <2>1 DEF Alive
  <2>7. TouchInv'
    BY <1>1, <2>1, <2>6 DEF TabInv, TouchInv
  <2>8. CookieInv'
    BY <1>1, <2>1, <2>6 DEF TabInv, CookieInv
  <2> QED BY <2>4, <2>5, <2>7, <2>8 DEF TabInv
<1>4. CASE /\ t \in user /\ Phase(t) # "expired" /\ UNCHANGED <<user, early>>
           /\ IF Pings(t) THEN Ping(t) ELSE UNCHANGED <<cookie, pinged, missed>>
  <2>1. t \in user /\ user' = user /\ early' = early /\ quiet[t] < Timeout
    BY <1>4 DEF Phase, TabInv
  <2>2. HeardInv'
    BY <1>1, <2>1 DEF TabInv, HeardInv
  <2>3. CASE Pings(t)
    <3>1. pinged' = [pinged EXCEPT ![t] = 0]
      BY <2>3, <1>4 DEF Ping
    <3>2. \A u \in user : pinged'[u] \in Nat /\ (u # t => pinged'[u] = pinged[u]) /\ pinged'[t] = 0
      BY <3>1, <2>1 DEF TabInv
    <3>3. PingInv'
      BY <1>1, <2>1, <3>2 DEF TabInv, PingInv
    <3>4. CASE Alive /\ cookie' = Renewed /\ missed' = missed \ {t}
      <4>1. /\ cookie' \in 0 .. Timeout - 1 /\ Alive'
            /\ touch' <= cookie' + 2 * Timeout /\ (~slept' => touch' <= cookie' + Timeout)
        BY <1>1, <2>1, <3>4, CookieTouched
      <4>2. cookie' \in 0 .. PingEvery
        BY <3>4, RenewedIs DEF TabInv
      <4>3. ClockTypes'
        BY <1>1, <2>1, <3>1, <3>4, <4>1 DEF TabInv, ClockTypes, IdleTypeOK, NoCookie
      <4>4. TouchInv'
        BY <1>1, <2>1, <3>4 DEF TabInv, TouchInv
      <4>5. CookieInv'
        BY <2>1, <3>2, <4>1, <4>2 DEF CookieInv
      <4> QED BY <2>2, <3>3, <4>3, <4>4, <4>5 DEF TabInv
    <3>5. CASE missed' = missed \cup {t} /\ cookie' = cookie
      <4>1. Alive' = Alive
        BY <3>5 DEF Alive
      <4>2. ClockTypes'
        BY <1>1, <2>1, <3>1, <3>5 DEF TabInv, ClockTypes, IdleTypeOK
      <4>3. TouchInv'
        BY <1>1, <2>1, <4>1 DEF TabInv, TouchInv
      <4>4. CookieInv'
        BY <1>1, <2>1, <3>2, <3>5, <4>1 DEF TabInv, CookieInv
      <4> QED BY <2>2, <3>3, <4>2, <4>3, <4>4 DEF TabInv
    <3> QED BY <2>3, <1>4, <3>4, <3>5 DEF Ping
  <2>4. CASE ~Pings(t)
    <3>1. UNCHANGED <<cookie, pinged, missed>>
      BY <2>4, <1>4
    <3>2. Alive' = Alive
      BY <3>1 DEF Alive
    <3>3. ClockTypes' /\ CookieInv'
      BY <1>1, <2>1, <3>1, <3>2 DEF TabInv, ClockTypes, IdleTypeOK, CookieInv
    <3>4. TouchInv'
      BY <1>1, <2>1, <3>2 DEF TabInv, TouchInv
    <3>5. ASSUME quiet[t] <= pinged[t] PROVE pinged[t] < PingEvery \/ quiet[t] >= Timeout - WarnBefore
      <4>1. quiet[t] \in Nat /\ pinged[t] \in Nat
        BY DEF TabInv
      <4>2. Phase(t) = "active" \/ quiet[t] >= Timeout - WarnBefore
        BY <2>1, <4>1 DEF Phase
      <4> QED BY <4>1, <4>2, <3>5, <2>4 DEF Pings
    <3>6. PingInv'
      BY <1>1, <2>1, <3>1, <3>5 DEF TabInv, PingInv
    <3> QED BY <2>2, <3>3, <3>4, <3>6 DEF TabInv
  <2> QED BY <2>3, <2>4
<1> QED BY <1>2, <1>3, <1>4 DEF Tick

\* Coming in: with a clock of one's own, and a cookie just looked at.
LEMMA EnterKept ==
  ASSUME TabInv, NEW t \in Tab, Enter(t), due = {}, cookie' \in 0 .. PingEvery,
         told' = told \/ told' = [told EXCEPT ![t] = 0]
  PROVE  TabInv'
<1> USE TabConstants, TabTypes
<1>1. /\ user' = user \cup {t} /\ touch' = 0 /\ slept' = FALSE
      /\ quiet' = [quiet EXCEPT ![t] = 0] /\ pinged' = [pinged EXCEPT ![t] = 0]
      /\ throttle' = [throttle EXCEPT ![t] = 0] /\ missed' = missed \ {t}
      /\ UNCHANGED <<due, mute, voiced, early>>
  BY DEF Enter
<1>2. \A u \in user' : u = t \/ u \in user
  BY <1>1
<1>3. /\ \A u \in Tab : /\ told'[u] \in 0 .. Throttle /\ (told'[u] > 0 => told'[u] = told[u])
                       /\ throttle'[u] \in 0 .. Throttle /\ (throttle'[u] > 0 => throttle'[u] = throttle[u])
                       /\ pinged'[u] \in 0 .. Timeout
      /\ quiet'[t] = 0 /\ pinged'[t] = 0
      /\ \A u \in user : u # t => quiet'[u] = quiet[u] /\ pinged'[u] = pinged[u]
  BY <1>1 DEF TabInv
<1>4. ClockTypes'
  <2>1. /\ user' \subseteq Tab /\ quiet' \in [Tab -> 0 .. Timeout] /\ pinged' \in [Tab -> 0 .. Timeout]
        /\ throttle' \in [Tab -> 0 .. Throttle] /\ told' \in [Tab -> 0 .. Throttle]
        /\ cookie' \in NoCookie .. Timeout /\ missed' \subseteq Tab
    BY <1>1 DEF TabInv, NoCookie
  <2>2. /\ due' \subseteq Tab /\ mute' \subseteq Tab /\ touch' \in 0 .. 3 * Timeout
        /\ voiced' \in 0 .. Timeout /\ slept' \in BOOLEAN /\ early' = FALSE
    <3>1. 0 \in 0 .. 3 * Timeout /\ FALSE \in BOOLEAN
      OBVIOUS
    <3> QED BY <1>1, <3>1 DEF TabInv
  <2> QED BY <2>1, <2>2 DEF ClockTypes, IdleTypeOK
<1>5. HeardInv'
  <2> SUFFICES ASSUME NEW x \in user'
               PROVE  /\ quiet'[x] <= voiced' + 2 * Throttle
                      /\ \A u \in Tab \ mute' :
                           /\ told'[u] > 0 => quiet'[x] <= Throttle - told'[u]
                           /\ throttle'[u] > 0 => quiet'[x] <= 2 * Throttle - throttle'[u]
    BY DEF HeardInv
  <2>1. CASE x = t
    <3>1. quiet'[x] = 0 /\ voiced' \in Nat
      BY <1>1, <1>3, <2>1 DEF TabInv
    <3>2. ASSUME NEW u \in Tab PROVE quiet'[x] <= Throttle - told'[u] /\ quiet'[x] <= 2 * Throttle - throttle'[u]
      BY <3>1, <1>3
    <3>3. quiet'[x] <= voiced' + 2 * Throttle
      <4>1. \A v \in Nat : 0 <= v + 2 * Throttle
        OBVIOUS
      <4> QED BY <3>1, <4>1
    <3> QED BY <3>2, <3>3
  <2>2. CASE x # t
    <3>1. x \in user /\ quiet'[x] = quiet[x]
      BY <1>2, <1>3, <2>2
    <3>2. /\ quiet[x] <= voiced + 2 * Throttle
          /\ \A u \in Tab \ mute : /\ told[u] > 0 => quiet[x] <= Throttle - told[u]
                                   /\ throttle[u] > 0 => quiet[x] <= 2 * Throttle - throttle[u]
      BY <3>1 DEF TabInv, HeardInv
    <3> QED BY <3>1, <3>2, <1>1, <1>3
  <2> QED BY <2>1, <2>2
<1>6. TouchInv'
  <2> SUFFICES ASSUME NEW u \in user' PROVE quiet'[u] < Timeout /\ touch' <= quiet'[u]
    BY DEF TouchInv
  <2> QED BY <1>1, <1>2, <1>3 DEF TabInv, TouchInv
<1>7. PingInv'
  <2> SUFFICES ASSUME NEW u \in user', u \notin due', quiet'[u] <= pinged'[u]
               PROVE  pinged'[u] < PingEvery \/ quiet'[u] >= Timeout - WarnBefore
    BY DEF PingInv
  <2> QED BY <1>1, <1>2, <1>3 DEF TabInv, PingInv
<1>8. CookieInv'
  <2>1. PICK c \in 0 .. PingEvery : cookie' = c
    OBVIOUS
  <2>2. \A u \in user' : pinged'[u] \in Nat
    BY <1>2, <1>3 DEF TabInv
  <2> QED BY <1>1, <2>1, <2>2 DEF CookieInv
<1> QED BY <1>4, <1>5, <1>6, <1>7, <1>8 DEF TabInv

LEMMA ComeKept == ASSUME TabInv, NEW t \in Tab, SignIn(t) \/ OpenTab(t) \/ Close(t) PROVE TabInv'
<1> USE TabConstants, TabTypes
<1>1. CASE SignIn(t)
  BY <1>1, EnterKept DEF SignIn
<1>2. CASE OpenTab(t)
  <2>1. cookie' = Renewed /\ Alive
    BY <1>2 DEF OpenTab
  <2>2. cookie' \in 0 .. PingEvery
    BY <2>1, RenewedIs DEF TabInv
  <2> QED BY <1>2, <2>2, EnterKept DEF OpenTab
<1>3. CASE Close(t)
  <2>1. /\ user' = user \ {t}
        /\ UNCHANGED <<quiet, pinged, throttle, told, due, cookie, mute, missed, touch, voiced, slept, early>>
    BY <1>3 DEF Close, personVars
  <2>2. Alive' = Alive
    BY <2>1 DEF Alive
  <2>3. ClockTypes' /\ HeardInv' /\ PingInv' /\ CookieInv'
    BY <2>1, <2>2 DEF TabInv, ClockTypes, IdleTypeOK, HeardInv, PingInv, CookieInv
  <2>4. TouchInv'
    BY <2>1, <2>2 DEF TabInv, TouchInv
  <2> QED BY <2>3, <2>4 DEF TabInv
<1> QED BY <1>1, <1>2, <1>3

\* Time passes for all clocks alike, up to the largest age that is told apart.
LEMMA TimeShape ==
  ASSUME TabInv, NEW n \in 1 .. Timeout, TimePasses(n)
  PROVE  /\ due = {} /\ due' = Tab /\ UNCHANGED <<user, mute, missed, early>>
         /\ slept' = (slept \/ n > 1)
         /\ \A t \in user : /\ quiet[t] < Timeout /\ quiet'[t] \in 0 .. Timeout
                            /\ quiet'[t] = quiet[t] + n \/ (quiet'[t] = Timeout /\ Timeout <= quiet[t] + n)
                            /\ pinged'[t] \in 0 .. Timeout
                            /\ pinged'[t] = pinged[t] + n \/ pinged'[t] = Timeout
         /\ \A t \in Tab : /\ throttle'[t] > 0 => throttle'[t] = throttle[t] - n
                           /\ told'[t] > 0 => told'[t] = told[t] - n
         /\ touch' \in 0 .. 3 * Timeout /\ touch' <= touch + n
         /\ voiced' \in 0 .. Timeout /\ (voiced' = voiced + n \/ voiced' = Timeout)
         /\ ClockTypes'
<1> USE TabConstants, TabTypes
<1>1. /\ due = {} /\ due' = Tab /\ UNCHANGED <<user, mute, missed, early>>
      /\ quiet'    = [t \in Tab |-> IF t \in user THEN Older(quiet[t], n, Timeout) ELSE 0]
      /\ pinged'   = [t \in Tab |-> IF t \in user THEN Older(pinged[t], n, Timeout) ELSE 0]
      /\ throttle' = [t \in Tab |-> Less(throttle[t], n)]
      /\ told'     = [t \in Tab |-> Less(told[t], n)]
      /\ cookie'   = IF cookie = NoCookie THEN NoCookie ELSE Older(cookie, n, Timeout)
      /\ touch'    = Older(touch, n, 3 * Timeout) /\ voiced' = Older(voiced, n, Timeout)
      /\ slept'    = (slept \/ n > 1)
  BY DEF TimePasses
<1>2. 3 * Timeout \in Nat /\ n \in Nat
  OBVIOUS
<1>3. /\ touch' \in 0 .. 3 * Timeout /\ touch' <= touch + n
      /\ voiced' \in 0 .. Timeout /\ (voiced' = voiced + n \/ voiced' = Timeout)
  <2>1. touch \in 0 .. 3 * Timeout /\ voiced \in 0 .. Timeout
    BY DEF TabInv
  <2>2. Older(touch, n, 3 * Timeout) \in 0 .. 3 * Timeout /\ Older(touch, n, 3 * Timeout) <= touch + n
    <3>1. ASSUME NEW top \in Nat, top = 3 * Timeout
          PROVE  Older(touch, n, top) \in 0 .. top /\ Older(touch, n, top) <= touch + n
      <4>1. touch \in 0 .. top /\ n \in Nat
        BY <1>2, <2>1, <3>1
      <4>2. /\ Older(touch, n, top) \in 0 .. top
            /\ Older(touch, n, top) = touch + n \/ (Older(touch, n, top) = top /\ top <= touch + n)
        BY <3>1, <4>1, OlderIs
      <4> QED BY <3>1, <4>1, <4>2
    <3> QED BY <1>2, <3>1
  <2>3. /\ Older(voiced, n, Timeout) \in 0 .. Timeout
        /\ Older(voiced, n, Timeout) = voiced + n \/ Older(voiced, n, Timeout) = Timeout
    BY <1>2, <2>1, OlderIs
  <2> QED BY <1>1, <2>2, <2>3
<1>4. ASSUME NEW t \in Tab
      PROVE  /\ quiet'[t] \in 0 .. Timeout /\ pinged'[t] \in 0 .. Timeout
             /\ throttle'[t] \in 0 .. Throttle /\ told'[t] \in 0 .. Throttle
             /\ throttle'[t] > 0 => throttle'[t] = throttle[t] - n
             /\ told'[t] > 0 => told'[t] = told[t] - n
             /\ t \in user => /\ \/ quiet'[t] = quiet[t] + n
                                 \/ quiet'[t] = Timeout /\ Timeout <= quiet[t] + n
                              /\ pinged'[t] = pinged[t] + n \/ pinged'[t] = Timeout
  <2>1. /\ quiet[t] \in 0 .. Timeout /\ pinged[t] \in 0 .. Timeout
        /\ throttle[t] \in 0 .. Throttle /\ told[t] \in 0 .. Throttle
    BY DEF TabInv
  <2>2. /\ throttle'[t] = Less(throttle[t], n) /\ told'[t] = Less(told[t], n)
        /\ quiet'[t] = IF t \in user THEN Older(quiet[t], n, Timeout) ELSE 0
        /\ pinged'[t] = IF t \in user THEN Older(pinged[t], n, Timeout) ELSE 0
    BY <1>1
  <2>3. /\ Less(throttle[t], n) \in 0 .. throttle[t] /\ Less(told[t], n) \in 0 .. told[t]
        /\ Less(throttle[t], n) > 0 => Less(throttle[t], n) = throttle[t] - n
        /\ Less(told[t], n) > 0 => Less(told[t], n) = told[t] - n
    <3>1. throttle[t] \in Nat /\ told[t] \in Nat
      BY <2>1
    <3> QED BY <3>1, <1>2, LessIs
  <2>4. /\ Older(quiet[t], n, Timeout) \in 0 .. Timeout /\ Older(pinged[t], n, Timeout) \in 0 .. Timeout
        /\ \/ Older(quiet[t], n, Timeout) = quiet[t] + n
           \/ Older(quiet[t], n, Timeout) = Timeout /\ Timeout <= quiet[t] + n
        /\ \/ Older(pinged[t], n, Timeout) = pinged[t] + n
           \/ Older(pinged[t], n, Timeout) = Timeout
    BY <2>1, <1>2, OlderIs
  <2> QED BY <2>1, <2>2, <2>3, <2>4
<1>5. ClockTypes'
  <2>1. cookie' \in NoCookie .. Timeout
    <3>1. cookie \in NoCookie .. Timeout
      BY DEF TabInv
    <3> QED BY <1>1, <1>2, <3>1 DEF Older, NoCookie
  <2>2. quiet' \in [Tab -> 0 .. Timeout] /\ pinged' \in [Tab -> 0 .. Timeout]
    BY <1>1, <1>4
  <2>3. throttle' \in [Tab -> 0 .. Throttle] /\ told' \in [Tab -> 0 .. Throttle]
    BY <1>1, <1>4
  <2>4. slept' \in BOOLEAN /\ user' \subseteq Tab /\ due' \subseteq Tab /\ mute' \subseteq Tab
        /\ missed' \subseteq Tab /\ early' = FALSE
    BY <1>1 DEF TabInv
  <2> QED BY <1>3, <2>1, <2>2, <2>3, <2>4 DEF ClockTypes, IdleTypeOK
<1>6. \A t \in user : t \in Tab /\ quiet[t] < Timeout
  BY <1>1 DEF TabInv, TouchInv
<1> QED BY <1>1, <1>3, <1>4, <1>5, <1>6

LEMMA CookieAges ==
  ASSUME TabInv, NEW n \in 1 .. Timeout, TimePasses(n)
  PROVE  /\ Alive' => Alive /\ cookie \in Nat /\ cookie' = cookie + n /\ cookie' < Timeout
         /\ Alive /\ ~Alive' => cookie \in Nat /\ cookie < Timeout /\ cookie + n >= Timeout
<1>1. cookie' = IF cookie = NoCookie THEN NoCookie ELSE Older(cookie, n, Timeout)
  BY DEF TimePasses
<1>2. cookie \in NoCookie .. Timeout
  BY TabTypes DEF TabInv
<1> QED BY <1>1, <1>2, TabConstants DEF Alive, NoCookie, Older

LEMMA TimeKept == ASSUME TabInv, NEW n \in 1 .. Timeout, TimePasses(n) PROVE TabInv'
<1> USE TabConstants, TabTypes
<1>1. /\ due = {} /\ due' = Tab /\ UNCHANGED <<user, mute, missed, early>>
      /\ slept' = (slept \/ n > 1)
      /\ \A t \in user : /\ quiet[t] < Timeout /\ quiet'[t] \in 0 .. Timeout
                         /\ quiet'[t] = quiet[t] + n \/ (quiet'[t] = Timeout /\ Timeout <= quiet[t] + n)
                         /\ pinged'[t] \in 0 .. Timeout
                         /\ pinged'[t] = pinged[t] + n \/ pinged'[t] = Timeout
      /\ \A t \in Tab : /\ throttle'[t] > 0 => throttle'[t] = throttle[t] - n
                        /\ told'[t] > 0 => told'[t] = told[t] - n
      /\ touch' \in 0 .. 3 * Timeout /\ touch' <= touch + n
      /\ voiced' \in 0 .. Timeout /\ (voiced' = voiced + n \/ voiced' = Timeout)
      /\ ClockTypes'
  BY TimeShape
<1>2. \A t \in user : t \in Tab /\ quiet[t] \in Nat /\ pinged[t] \in Nat
  BY DEF TabInv
<1>3. touch \in Nat /\ voiced \in Nat
  BY DEF TabInv
<1>4. HeardInv'
  <2> SUFFICES ASSUME NEW t \in user
               PROVE  /\ quiet'[t] <= voiced' + 2 * Throttle
                      /\ \A u \in Tab \ mute :
                           /\ told'[u] > 0 => quiet'[t] <= Throttle - told'[u]
                           /\ throttle'[u] > 0 => quiet'[t] <= 2 * Throttle - throttle'[u]
    BY <1>1 DEF HeardInv
  <2>1. /\ quiet[t] <= voiced + 2 * Throttle
        /\ \A u \in Tab \ mute : /\ told[u] > 0 => quiet[t] <= Throttle - told[u]
                                 /\ throttle[u] > 0 => quiet[t] <= 2 * Throttle - throttle[u]
    BY DEF TabInv, HeardInv
  <2>2. quiet'[t] \in 0 .. Timeout /\ quiet'[t] <= quiet[t] + n /\ quiet[t] \in Nat
    BY <1>1, <1>2
  <2>3. quiet'[t] <= voiced' + 2 * Throttle
    BY <1>1, <1>3, <2>1, <2>2
  <2>4. ASSUME NEW u \in Tab \ mute
        PROVE  /\ told'[u] > 0 => quiet'[t] <= Throttle - told'[u]
               /\ throttle'[u] > 0 => quiet'[t] <= 2 * Throttle - throttle'[u]
    <3>1. told[u] \in Nat /\ throttle[u] \in Nat
      BY DEF TabInv
    <3> QED BY <1>1, <2>1, <2>2, <3>1
  <2> QED BY <2>3, <2>4
<1>5. TouchInv'
  <2> SUFFICES ASSUME NEW t \in user
               PROVE  \/ touch' <= quiet'[t]
                      \/ quiet'[t] = Timeout /\ slept' /\ (Alive' => touch' < 2 * Timeout)
    BY <1>1 DEF TabInv, TouchInv
  <2>1. touch <= quiet[t] /\ quiet[t] < Timeout /\ quiet[t] \in Nat
    BY <1>1, <1>2 DEF TabInv, TouchInv
  <2>2. CASE quiet'[t] = quiet[t] + n
    BY <1>1, <1>3, <2>1, <2>2
  <2>3. CASE quiet'[t] = Timeout /\ n = 1
    BY <1>1, <1>3, <2>1, <2>3
  <2>4. CASE quiet'[t] = Timeout /\ n > 1
    <3>1. Alive' => n < Timeout
      BY CookieAges
    <3>2. Alive' => touch' < 2 * Timeout
      BY <1>1, <1>3, <2>1, <3>1
    <3> QED BY <1>1, <2>4, <3>2
  <2> QED BY <1>1, <2>2, <2>3, <2>4
<1>6. PingInv'
  BY <1>1, <1>2 DEF PingInv
<1>7. CookieInv'
  <2> SUFFICES ASSUME Alive'
               PROVE  /\ touch' <= cookie' + 2 * Timeout /\ (~slept' => touch' <= cookie' + Timeout)
                      /\ \A t \in user \ missed : cookie' <= pinged'[t] + PingEvery
    BY <1>1 DEF CookieInv
  <2>1. Alive /\ cookie \in Nat /\ cookie' = cookie + n /\ cookie' < Timeout
    BY CookieAges
  <2>2. touch <= cookie + 2 * Timeout /\ (~slept => touch <= cookie + Timeout)
    BY <2>1 DEF TabInv, CookieInv
  <2>3. ASSUME NEW t \in user \ missed PROVE cookie' <= pinged'[t] + PingEvery
    <3>1. cookie <= pinged[t] + PingEvery /\ pinged[t] \in Nat
      BY <1>2, <2>1 DEF TabInv, CookieInv
    <3>2. pinged'[t] = pinged[t] + n \/ pinged'[t] = Timeout
      BY <1>1
    <3> QED BY <3>1, <3>2, <2>1
  <2>4. touch' \in Nat /\ touch' <= touch + n
    BY <1>1
  <2>5. ~slept' => ~slept
    BY <1>1
  <2>6. touch' <= cookie' + 2 * Timeout
    BY <1>3, <2>1, <2>2, <2>4
  <2>7. ASSUME ~slept' PROVE touch' <= cookie' + Timeout
    <3>1. touch <= cookie + Timeout
      BY <2>2, <2>5, <2>7
    <3> QED BY <1>3, <2>1, <2>4, <3>1
  <2> QED BY <2>3, <2>6, <2>7
<1> QED BY <1>1, <1>4, <1>5, <1>6, <1>7 DEF TabInv

LEMMA TabStep == TabInv /\ [IdleNext]_idleVars => TabInv'
<1> SUFFICES ASSUME TabInv, [IdleNext]_idleVars PROVE TabInv'
  OBVIOUS
<1>1. CASE UNCHANGED idleVars
  BY <1>1 DEF idleVars, tabVars, personVars, TabInv, ClockTypes, IdleTypeOK, HeardInv, TouchInv, PingInv,
              CookieInv, Alive
<1>2. ASSUME NEW t \in Tab, Asks(t) \/ Touch(t) \/ Stay(t) \/ Tick(t) \/ SignIn(t) \/ OpenTab(t) \/ Close(t)
      PROVE  TabInv'
  BY <1>2, AsksKept, TouchKept, StayKept, TickKept, ComeKept
<1>3. ASSUME NEW n \in 1 .. Timeout, TimePasses(n) PROVE TabInv'
  BY <1>3, TimeKept
<1> QED BY <1>1, <1>2, <1>3 DEF IdleNext

\* Of a person who is there, the cookie runs out with the screen or after: what is left of
\* it is as old as the last ping that was answered, and a tab in use has pinged.
LEMMA CookieStep ==
  TabInv /\ [IdleNext]_idleVars
    => \A t \in user \ missed :
         Alive /\ ~Alive' /\ cookie' # NoCookie
           => quiet'[t] >= Timeout - (IF slept' THEN 2 ELSE 1) * PingEvery
<1> SUFFICES ASSUME TabInv, [IdleNext]_idleVars, NEW t \in user \ missed, Alive, ~Alive', cookie' # NoCookie
             PROVE  quiet'[t] >= Timeout - (IF slept' THEN 2 ELSE 1) * PingEvery
  OBVIOUS
<1> USE TabConstants, TabTypes
<1>1. cookie \in 0 .. Timeout - 1
  BY DEF Alive, TabInv, NoCookie
<1>2. cookie' # cookie /\ cookie' # Renewed /\ cookie' # 0
  <2>1. Renewed = 0 \/ Renewed = cookie
    BY RenewedIs DEF TabInv
  <2> QED BY <1>1, <2>1 DEF Alive, NoCookie
<1>3. CASE UNCHANGED idleVars
  BY <1>2, <1>3 DEF idleVars
<1>4. ASSUME NEW u \in Tab, Asks(u) \/ Touch(u) \/ Stay(u) \/ Tick(u) \/ SignIn(u) \/ OpenTab(u) \/ Close(u)
      PROVE  FALSE
  BY <1>2, <1>4 DEF Asks, Touch, Stay, Tick, Expire, Ping, SignIn, OpenTab, Close
<1>5. ASSUME NEW n \in 1 .. Timeout, TimePasses(n)
      PROVE  quiet'[t] >= Timeout - (IF slept' THEN 2 ELSE 1) * PingEvery
  <2>1. /\ due = {} /\ slept' = (slept \/ n > 1) /\ quiet'[t] \in 0 .. Timeout
        /\ quiet'[t] = quiet[t] + n \/ quiet'[t] = Timeout
    BY <1>5, TimeShape
  <2>2. cookie + n >= Timeout
    BY <1>5, CookieAges
  <2>3. quiet[t] \in Nat /\ pinged[t] \in Nat /\ cookie <= pinged[t] + PingEvery
    BY DEF TabInv, CookieInv
  <2>4. quiet[t] <= pinged[t] => pinged[t] < PingEvery \/ quiet[t] >= Timeout - WarnBefore
    BY <2>1 DEF TabInv, PingInv
  <2>5. quiet'[t] >= Timeout - PingEvery \/ (n > 1 /\ quiet'[t] >= Timeout - 2 * PingEvery)
    BY <1>1, <2>1, <2>2, <2>3, <2>4
  <2>6. CASE slept'
    BY <2>1, <2>5, <2>6
  <2>7. CASE ~slept'
    <3>1. ~(n > 1)
      BY <2>1, <2>7
    <3> QED BY <2>5, <2>7, <3>1
  <2> QED BY <2>6, <2>7
<1> QED BY <1>3, <1>4, <1>5 DEF IdleNext

LEMMA TabInvHolds == IdleSpec => []TabInv
<1>1. IdleInit => TabInv
  BY TabsStart
<1>2. TabInv /\ [IdleNext]_idleVars => TabInv'
  BY TabStep
<1> QED BY <1>1, <1>2, PTL DEF IdleSpec

\* The shapes (useIdleLogout's clocks and the session's cookie).
THEOREM TabsTyped == IdleSpec => []IdleTypeOK
<1>1. TabInv => IdleTypeOK
  BY DEF TabInv, ClockTypes
<1> QED BY <1>1, TabInvHolds, PTL

\* Nobody at a keyboard that is heard is signed out by another tab; where the pings reach the
\* server the cookie does not run out before the screen says so; and it does not outlive the
\* last touch by two timeouts, three after a sleep (useIdleLogout, JwtAuthGuard).
THEOREM SignedOutInTime == IdleSpec => IdleSound
<1>1. TabInv => NobodyCutOff /\ CookieEnds
  <2> SUFFICES ASSUME TabInv PROVE NobodyCutOff /\ CookieEnds
    OBVIOUS
  <2>1. NobodyCutOff
    BY DEF TabInv, ClockTypes, NobodyCutOff
  <2>2. ASSUME Alive PROVE touch < (IF slept THEN 3 ELSE 2) * Timeout
    <3>1. cookie \in 0 .. Timeout - 1 /\ touch \in Nat
      BY <2>2, TabConstants, TabTypes DEF TabInv, Alive, NoCookie
    <3>2. touch <= cookie + 2 * Timeout /\ (~slept => touch <= cookie + Timeout)
      BY <2>2 DEF TabInv, CookieInv
    <3>3. CASE slept
      BY <3>1, <3>2, <3>3, TabConstants
    <3>4. CASE ~slept
      BY <3>1, <3>2, <3>4, TabConstants
    <3> QED BY <3>3, <3>4
  <2> QED BY <2>1, <2>2 DEF CookieEnds
<1>2. TabInv /\ [IdleNext]_idleVars
        => [\A t \in user \ missed :
              Alive /\ ~Alive' /\ cookie' # NoCookie
                => quiet'[t] >= Timeout - (IF slept' THEN 2 ELSE 1) * PingEvery]_idleVars
  BY CookieStep
<1> QED BY <1>1, <1>2, TabInvHolds, PTL DEF IdleSpec, IdleSound, CookieLasts

-----------------------------------------------------------------------------
(***************************************************************************)
(* How a PC gets its token (Enrolment).                                    *)
(***************************************************************************)
Places  == {"none", "due", "code", "form", "forgotten", "asks code", "asks form", "asks forgotten", "asks closed"}
Idle    == {"none", "due"}
Owning  == {"code", "form", "asks code", "asks form"}
Asking  == {"asks code", "asks form", "asks forgotten", "asks closed"}
Stages  == {"sent", "refused", "looked", "taken", "checked", "done"}
Home(p) == file[p].host[1]

\* Who sits where, and what is put down where.
DeskInv ==
  /\ pc \in [Account -> {1, 2}] /\ withCode \in BOOLEAN /\ name \in [{1, 2} -> 0 .. 1]
  /\ running \in [Account -> BOOLEAN] /\ record \in [Account -> Token] /\ barred \in [Account -> BOOLEAN]
  /\ signInOpen \in [Account -> BOOLEAN] /\ attempt \in [Account -> [Entry -> Places]]
  /\ \A a, b \in Account : running[a] /\ running[b] /\ pc[a] = pc[b] => a = b
  /\ \A a \in Account : ~running[a] => record[a] = 0 /\ \A e \in Entry : attempt[a][e] = "none"

DevicesInv ==
  /\ file \in [{1, 2} -> [token : Token, host : {<<0, 0>>} \cup ({1, 2} \X (0 .. 1)), by : Account \cup {NoOwner}]]
  /\ devices \in [Key -> [owner : Staff \cup {NoOwner}, token : Token, active : BOOLEAN]]
  /\ code \in {"good", "used", "expired"} /\ minted \in Token /\ orphans \subseteq Token
  /\ together \in BOOLEAN /\ shared \in BOOLEAN /\ restored \in BOOLEAN
  /\ \A p \in {1, 2} : file[p].token # 0 => /\ file[p].host \in {1, 2} \X (0 .. 1)
                                            /\ name[file[p].host[1]] = 0 => file[p].host[2] = 0
  /\ \A k \in Key : devices[k].token <= minted

\* The flag of the sign-in is its owner's.
FlagInv ==
  \A a \in Account, e \in Entry :
    attempt[a][e] \in Owning => /\ signInOpen[a]
                                /\ \A f \in Entry \ {e} : attempt[a][f] \notin Owning

RequestOK(q) ==
  /\ q.by \in Account /\ q.entry \in Entry /\ q.row \in Key /\ q.row[1] = q.by /\ q.who \in Staff
  /\ q.coded \in BOOLEAN /\ q.step \in Stages /\ q.token \in 0 .. minted /\ q.waited \in BOOLEAN
  /\ q.token # 0 <=> q.step = "done"
  /\ q.step = "done" => q.waited
  /\ q.waited => /\ running[q.by] /\ q.row = KeyOf(q.by) /\ attempt[q.by][q.entry] \in Asking
                 /\ q.coded <=> attempt[q.by][q.entry] = "asks code"
AskedInv == \A q \in asked : RequestOK(q)

\* One request of an attempt is waited for, and one attempt of an agent at a time asks.
WaitedInv ==
  /\ \A q, r \in asked : q.waited /\ r.waited /\ q.by = r.by /\ q.entry = r.entry => q = r
  /\ ~shared => \A a \in Account : \A e, f \in Entry :
                  e # f => attempt[a][e] \in Idle \/ attempt[a][f] \in Idle
  /\ ~shared => \A q \in asked : q.waited => record[q.by] = 0

\* A token is on one PC.
PlaceInv ==
  /\ \A a \in Account : record[a] <= minted
  /\ \A p \in {1, 2} : file[p].token <= minted
  /\ \A q \in asked : q.token # 0 =>
       /\ \A a \in Account : record[a] # q.token
       /\ \A p \in {1, 2} : file[p].token # q.token
       /\ \A r \in asked : r.token = q.token => r = q
  /\ \A a, b \in Account : record[a] # 0 /\ record[a] = record[b] => pc[a] = pc[b]
  /\ \A a \in Account, p \in {1, 2} : record[a] # 0 /\ record[a] = file[p].token => Home(p) = pc[a]
  /\ \A p, r \in {1, 2} : file[p].token # 0 /\ file[p].token = file[r].token => Home(p) = Home(r)

\* The tokens of the answers under way to an account.
OnTheWay(a) == {q.token : q \in {r \in asked : r.by = a /\ r.step = "done"}}

CurrentInv ==
  /\ ~shared => \A q \in asked : q.step = "done" => devices[q.row].token \in {q.token} \cup orphans
  /\ ~shared /\ ~restored =>
       /\ \A a \in Account : record[a] # 0 => devices[KeyOf(a)].token \in {record[a]} \cup orphans
       /\ \A a \in Account :
            Readable(a) /\ SameBinding(pc[a])
              => devices[KeyOf(a)].token \in {file[pc[a]].token} \cup OnTheWay(a) \cup orphans

\* A request that has passed the check passes it still.
CheckedInv ==
  ~shared => \A q \in asked : q.step = "checked" /\ q.waited /\ SomeoneElses(q)
                                => devices[q.row].token \in orphans

\* The code.
Examined(q) == q.coded /\ q.step \in {"looked", "checked"}
CodeInv ==
  /\ codeRows = {} \/ code = "used" \/ together
  /\ codeRows = {} \/ \E k \in Key : codeRows = {k} \/ together
  /\ ~together => /\ \A q, r \in asked : Examined(q) /\ Examined(r) => q = r
                  /\ \A q \in asked : Examined(q) => codeRows = {}

EnrolInv == DeskInv /\ DevicesInv /\ FlagInv /\ AskedInv /\ WaitedInv /\ PlaceInv /\ CurrentInv
            /\ CheckedInv /\ CodeInv

LEMMA EnrolConstants ==
  /\ CodeOwner \in Staff /\ NoOwner \notin Staff
  /\ MaxTokens \in Nat /\ MaxAsked \in Nat /\ MaxMishaps \in Nat
  /\ Token = 0 .. MaxTokens
BY EnrolAssumption DEF Token

LEMMA EnrolStart == EnrolInit => EnrolInv
<1> SUFFICES ASSUME EnrolInit PROVE EnrolInv
  OBVIOUS
<1> USE EnrolConstants
<1>1. DeskInv
  BY DEF EnrolInit, DeskInv, Entry, Places
<1>2. DevicesInv
  <2>1. file \in [{1, 2} -> [token : Token, host : {<<0, 0>>} \cup ({1, 2} \X (0 .. 1)), by : Account \cup {NoOwner}]]
    BY DEF EnrolInit, NoFile
  <2>2. devices \in [Key -> [owner : Staff \cup {NoOwner}, token : Token, active : BOOLEAN]]
    BY DEF EnrolInit, NoRow
  <2>3. \A p \in {1, 2} : file[p].token = 0
    BY DEF EnrolInit, NoFile
  <2>4. \A k \in Key : devices[k].token <= minted
    BY DEF EnrolInit, NoRow
  <2> QED BY <2>1, <2>2, <2>3, <2>4 DEF EnrolInit, DevicesInv
<1>3. FlagInv
  BY DEF EnrolInit, FlagInv, Owning, Entry
<1>4. AskedInv /\ WaitedInv /\ CheckedInv
  BY DEF EnrolInit, AskedInv, WaitedInv, CheckedInv, Idle, Entry
<1>5. PlaceInv
  BY DEF EnrolInit, PlaceInv, NoFile
<1>6. CurrentInv
  BY DEF EnrolInit, CurrentInv, Readable, NoFile
<1>7. CodeInv
  BY DEF EnrolInit, CodeInv
<1> QED BY <1>1, <1>2, <1>3, <1>4, <1>5, <1>6, <1>7 DEF EnrolInv

(***************************************************************************)
(* An attempt goes from one place to another.                              *)
(***************************************************************************)
Placed(a, e, x) ==
  /\ attempt' \in [Account -> [Entry -> Places]]
  /\ \A b \in Account, f \in Entry : attempt'[b][f] = IF b = a /\ f = e THEN x ELSE attempt[b][f]

LEMMA PlaceSet ==
  ASSUME EnrolInv, NEW a \in Account, NEW e \in Entry, NEW x \in Places,
         attempt' = [attempt EXCEPT ![a][e] = x]
  PROVE  Placed(a, e, x)
<1>1. attempt \in [Account -> [Entry -> Places]]
  BY DEF EnrolInv, DeskInv
<1> QED BY <1>1 DEF Placed

\* The flag is let go by its owner alone, and taken when nobody has it.
LEMMA FlagFrame ==
  ASSUME EnrolInv, NEW a \in Account, NEW e \in Entry, NEW x \in Places, Placed(a, e, x),
         NEW flag \in BOOLEAN, signInOpen' = [signInOpen EXCEPT ![a] = flag],
         x \in Owning => flag /\ \A f \in Entry \ {e} : attempt[a][f] \notin Owning,
         flag = signInOpen[a] \/ flag = TRUE \/ \A f \in Entry \ {e} : attempt[a][f] \notin Owning
  PROVE  FlagInv'
<1>1. \A b \in Account : signInOpen'[b] = IF b = a THEN flag ELSE signInOpen[b]
  BY DEF EnrolInv, DeskInv
<1> SUFFICES ASSUME NEW b \in Account, NEW f \in Entry, attempt'[b][f] \in Owning
             PROVE  /\ signInOpen'[b]
                    /\ \A g \in Entry \ {f} : attempt'[b][g] \notin Owning
  BY DEF FlagInv
<1>2. CASE b # a
  <2>1. \A g \in Entry : attempt'[b][g] = attempt[b][g]
    BY <1>2 DEF Placed
  <2> QED BY <1>1, <1>2, <2>1 DEF EnrolInv, FlagInv
<1>3. CASE b = a /\ f = e
  BY <1>1, <1>3 DEF Placed
<1>4. CASE b = a /\ f # e
  <2>1. attempt'[a][f] = attempt[a][f] /\ attempt[a][f] \in Owning
    BY <1>4 DEF Placed
  <2>2. signInOpen[a] /\ \A g \in Entry \ {f} : attempt[a][g] \notin Owning
    BY <2>1 DEF EnrolInv, FlagInv
  <2>3. x \notin Owning
    BY <2>1, <1>4
  <2>4. \A g \in Entry \ {f} : attempt'[a][g] \notin Owning
    BY <2>2, <2>3 DEF Placed
  <2>5. signInOpen'[a]
    BY <1>1, <1>4, <2>1, <2>2
  <2> QED BY <1>4, <2>4, <2>5
<1> QED BY <1>2, <1>3, <1>4

\* One attempt of an agent asks, while no two windows were open.
LEMMA AloneFrame ==
  ASSUME EnrolInv, NEW a \in Account, NEW e \in Entry, NEW x \in Places, Placed(a, e, x),
         shared => shared',
         x \in Idle \/ attempt[a][e] \notin Idle \/ shared'
           \/ \A f \in Entry \ {e} : attempt[a][f] \in Idle
  PROVE  ~shared' => \A b \in Account : \A f, g \in Entry :
                       f # g => attempt'[b][f] \in Idle \/ attempt'[b][g] \in Idle
BY DEF EnrolInv, WaitedInv, Placed

(***************************************************************************)
(* What is asked: requests go, or change.                                  *)
(***************************************************************************)
\* Requests that are only fewer, or are waited for no longer, keep what is said of them.
LEMMA FewerWaited ==
  ASSUME EnrolInv, asked' \subseteq asked, UNCHANGED <<minted, running, pc, name>>,
         \A q \in asked' : q.waited => attempt'[q.by][q.entry] = attempt[q.by][q.entry]
  PROVE  AskedInv'
<1> SUFFICES ASSUME NEW q \in asked' PROVE RequestOK(q)'
  BY DEF AskedInv
<1>1. RequestOK(q)
  BY DEF EnrolInv, AskedInv
<1> QED BY <1>1 DEF RequestOK, KeyOf

\* A request at another step, or waited for no longer.
SameRequest(q, n) ==
  /\ n.by = q.by /\ n.entry = q.entry /\ n.row = q.row /\ n.who = q.who /\ n.coded = q.coded
  /\ n.waited \in BOOLEAN
  /\ n.waited => q.waited

LEMMA AtIs ==
  ASSUME NEW q, NEW s, NEW t, NEW w \in BOOLEAN, w => q.waited
  PROVE  /\ SameRequest(q, At(q, s, t, w))
         /\ At(q, s, t, w).step = s /\ At(q, s, t, w).token = t /\ At(q, s, t, w).waited = w
BY DEF At, SameRequest

LEMMA ReplacedWaited ==
  ASSUME EnrolInv, NEW q \in asked, NEW n, SameRequest(q, n), asked' = (asked \ {q}) \cup {n},
         UNCHANGED <<running, pc, name>>, NEW m \in Nat, minted' = m, minted <= m,
         n.step \in Stages, n.token \in 0 .. m, n.token # 0 <=> n.step = "done",
         n.step = "done" => n.waited,
         \A r \in asked' : r.waited => attempt'[r.by][r.entry] = attempt[r.by][r.entry]
  PROVE  AskedInv'
<1> SUFFICES ASSUME NEW r \in asked' PROVE RequestOK(r)'
  BY DEF AskedInv
<1>0. RequestOK(q) /\ minted \in Nat
  BY EnrolConstants DEF EnrolInv, AskedInv, DevicesInv
<1>1. CASE r \in asked
  <2>1. RequestOK(r)
    BY <1>1 DEF EnrolInv, AskedInv
  <2>2. r.token \in 0 .. m
    <3>1. r.token \in 0 .. minted
      BY <2>1 DEF RequestOK
    <3> QED BY <1>0, <3>1
  <2>3. r.waited => attempt'[r.by][r.entry] = attempt[r.by][r.entry]
    OBVIOUS
  <2> QED BY <2>1, <2>2, <2>3 DEF RequestOK, KeyOf
<1>2. CASE r = n
  <2>1. /\ n.by = q.by /\ n.entry = q.entry /\ n.row = q.row /\ n.who = q.who /\ n.coded = q.coded
        /\ n.waited \in BOOLEAN
    BY DEF SameRequest
  <2>3. n.waited => /\ running[q.by] /\ q.row = KeyOf(q.by) /\ attempt[q.by][q.entry] \in Asking
                    /\ q.coded <=> attempt[q.by][q.entry] = "asks code"
    BY <1>0 DEF SameRequest, RequestOK
  <2>4. n.waited => attempt'[n.by][n.entry] = attempt[n.by][n.entry]
    BY <1>2
  <2>5. n.waited => /\ running'[n.by] /\ n.row = KeyOf(n.by)' /\ attempt'[n.by][n.entry] \in Asking
                    /\ n.coded <=> attempt'[n.by][n.entry] = "asks code"
    BY <2>1, <2>3, <2>4 DEF KeyOf
  <2>6. /\ n.by \in Account /\ n.entry \in Entry /\ n.row \in Key /\ n.row[1] = n.by /\ n.who \in Staff
        /\ n.coded \in BOOLEAN /\ n.waited \in BOOLEAN
    BY <1>0, <2>1 DEF RequestOK, SameRequest
  <2> QED BY <1>2, <2>5, <2>6 DEF RequestOK
<1> QED BY <1>1, <1>2

\* One request of an attempt is waited for.
OnePerAttempt ==
  \A q, r \in asked : q.waited /\ r.waited /\ q.by = r.by /\ q.entry = r.entry => q = r

LEMMA ReplacedOne ==
  ASSUME EnrolInv, NEW q \in asked, NEW n, SameRequest(q, n), asked' = (asked \ {q}) \cup {n}
  PROVE  OnePerAttempt'
<1>1. n.by = q.by /\ n.entry = q.entry /\ (n.waited => q.waited)
  BY DEF SameRequest
<1>2. OnePerAttempt
  BY DEF EnrolInv, WaitedInv, OnePerAttempt
<1>3. \A r \in asked \ {q} : r.waited /\ n.waited => ~(r.by = n.by /\ r.entry = n.entry)
  BY <1>1, <1>2 DEF OnePerAttempt
<1> QED BY <1>2, <1>3 DEF OnePerAttempt

\* While no two windows were open, an account waits for one request.
LEMMA OnlyWaited ==
  ASSUME EnrolInv, ~shared, NEW q \in asked, q.waited, NEW r \in asked, r.waited, r.by = q.by
  PROVE  r = q
<1>1. RequestOK(q) /\ RequestOK(r)
  BY DEF EnrolInv, AskedInv
<1>2. attempt[q.by][q.entry] \notin Idle /\ attempt[q.by][r.entry] \notin Idle
      /\ q.entry \in Entry /\ r.entry \in Entry /\ q.by \in Account
  BY <1>1 DEF RequestOK, Asking, Idle
<1>3. q.entry = r.entry
  BY <1>2 DEF EnrolInv, WaitedInv
<1> QED BY <1>3 DEF EnrolInv, WaitedInv

\* What the code has to say of requests that only change.
LEMMA CodeFewer ==
  ASSUME EnrolInv, asked' \subseteq asked, UNCHANGED <<code, codeRows, together>>
  PROVE  CodeInv'
BY DEF EnrolInv, CodeInv, Examined

LEMMA CodeReplaced ==
  ASSUME EnrolInv, NEW q \in asked, NEW n, SameRequest(q, n), asked' = (asked \ {q}) \cup {n},
         n.step \in {"looked", "checked"} => q.step \in {"looked", "checked"},
         UNCHANGED <<code, codeRows, together>>
  PROVE  CodeInv'
<1>1. Examined(n) => Examined(q)
  BY DEF SameRequest, Examined
<1>2. CodeInv
  BY DEF EnrolInv
<1>3. ~together => \A r, s \in asked' : Examined(r) /\ Examined(s) => r = s
  BY <1>1, <1>2 DEF CodeInv
<1>4. ~together => \A r \in asked' : Examined(r) => codeRows = {}
  BY <1>1, <1>2 DEF CodeInv
<1>5. CodeInv' = (/\ codeRows = {} \/ code = "used" \/ together
                  /\ codeRows = {} \/ \E k \in Key : codeRows = {k} \/ together
                  /\ ~together => /\ \A r, s \in asked' : Examined(r) /\ Examined(s) => r = s
                                  /\ \A r \in asked' : Examined(r) => codeRows = {})
  BY DEF CodeInv, Examined, Key
<1> QED BY <1>2, <1>3, <1>4, <1>5 DEF CodeInv

LEMMA CheckedFewer ==
  ASSUME EnrolInv, \A q \in asked' : q \in asked \/ q.step # "checked" \/ ~q.waited,
         UNCHANGED <<devices>>, shared => shared', orphans \subseteq orphans'
  PROVE  CheckedInv'
BY DEF EnrolInv, CheckedInv, SomeoneElses

\* The agents' side of a step of the server: nothing.
ServerStep == UNCHANGED <<pcVars, agentVars, shared, restored>>

LEMMA ServerFrame ==
  ASSUME EnrolInv, ServerStep, AskedInv', OnePerAttempt',
         \A q \in asked' : q.waited => \E r \in asked : r.waited /\ r.by = q.by
  PROVE  DeskInv' /\ FlagInv' /\ WaitedInv'
<1> USE DEF ServerStep, pcVars, agentVars
<1>1. DeskInv'
  BY DEF EnrolInv, DeskInv
<1>2. FlagInv'
  BY DEF EnrolInv, FlagInv
<1>3. WaitedInv'
  BY DEF EnrolInv, WaitedInv, OnePerAttempt
<1> QED BY <1>1, <1>2, <1>3

\* A step that mints nothing and leaves the rows alone.
LEMMA QuietFrame ==
  ASSUME EnrolInv, ServerStep, UNCHANGED <<devices, minted, orphans>>,
         code' \in {"good", "used", "expired"}, together' \in BOOLEAN,
         \A q \in asked' : q.token # 0 => q \in asked,
         \A q \in asked : q.token # 0 => q \in asked',
         AskedInv'
  PROVE  DevicesInv' /\ PlaceInv' /\ CurrentInv'
<1> USE DEF ServerStep, pcVars, agentVars
<1>1. DevicesInv'
  BY DEF EnrolInv, DevicesInv
<1>2. PlaceInv'
  BY DEF EnrolInv, PlaceInv, Home
<1>3. \A q \in asked' : q.step = "done" => q \in asked
  BY DEF AskedInv, RequestOK
<1>4. \A q \in asked : q.step = "done" => q \in asked'
  BY DEF EnrolInv, AskedInv, RequestOK
<1>5. \A a \in Account : OnTheWay(a)' = OnTheWay(a)
  BY <1>3, <1>4 DEF OnTheWay
<1>6. CurrentInv'
  BY <1>3, <1>5 DEF EnrolInv, CurrentInv, Readable, SameBinding, KeyOf
<1> QED BY <1>1, <1>2, <1>6

(***************************************************************************)
(* The server.                                                             *)
(***************************************************************************)
LEMMA LooksKept == ASSUME EnrolInv, NEW q \in asked, Looks(q) PROVE EnrolInv'
<1> DEFINE n == To(q, IF code # "good" THEN "refused" ELSE "looked")
<1>1. /\ q.step = "sent" /\ q.coded /\ asked' = (asked \ {q}) \cup {n}
      /\ together' = (together \/ (code = "good"
                        /\ \E r \in asked \ {q} : r.coded /\ r.step \in {"looked", "checked"}))
      /\ ServerStep /\ UNCHANGED <<devices, code, minted, orphans, codeRows>>
  BY DEF Looks, rowVars, ServerStep
<1>2. RequestOK(q) /\ minted \in Nat
  BY EnrolConstants DEF EnrolInv, AskedInv, DevicesInv
<1>3. q.token = 0 /\ q.waited \in BOOLEAN
  BY <1>1, <1>2 DEF RequestOK
<1>4. /\ SameRequest(q, n) /\ n.step = (IF code # "good" THEN "refused" ELSE "looked")
      /\ n.token = 0 /\ n.waited = q.waited
  BY <1>3, AtIs DEF To
<1> HIDE DEF n
<1>5. AskedInv'
  <2>1. n.step \in Stages /\ n.step # "done" /\ n.token \in 0 .. minted
    BY <1>2, <1>4 DEF Stages
  <2>2. UNCHANGED <<running, pc, name, minted, attempt>>
    BY <1>1 DEF ServerStep, pcVars, agentVars
  <2> QED BY <1>1, <1>2, <1>4, <2>1, <2>2, ReplacedWaited
<1>6. OnePerAttempt'
  BY <1>1, <1>4, ReplacedOne
<1>7. DeskInv' /\ FlagInv' /\ WaitedInv'
  <2>1. \A r \in asked' : r.waited => \E s \in asked : s.waited /\ s.by = r.by
    BY <1>1, <1>4 DEF SameRequest
  <2> QED BY <1>1, <1>5, <1>6, <2>1, ServerFrame
<1>8. DevicesInv' /\ PlaceInv' /\ CurrentInv'
  <2>1. code' \in {"good", "used", "expired"} /\ together' \in BOOLEAN
    BY <1>1 DEF EnrolInv, DevicesInv
  <2> QED BY <1>1, <1>3, <1>4, <1>5, <2>1, QuietFrame
<1>9. CheckedInv'
  BY <1>1, <1>4, CheckedFewer DEF ServerStep
<1>10. CodeInv'
  <2>1. CASE code # "good"
    <3>1. together' = together /\ n.step = "refused"
      BY <1>1, <1>4, <2>1 DEF EnrolInv, DevicesInv
    <3> QED BY <1>1, <1>4, <3>1, CodeReplaced
  <2>2. CASE code = "good"
    <3>1. codeRows = {} \/ together
      BY <2>2 DEF EnrolInv, CodeInv
    <3>2. ~together' => ~together /\ \A r \in asked \ {q} : ~Examined(r)
      BY <1>1, <2>2 DEF Examined
    <3>3. ~together' => \A r, s \in asked' : Examined(r) /\ Examined(s) => r = s
      BY <1>1, <3>2
    <3> QED BY <1>1, <3>1, <3>2, <3>3 DEF EnrolInv, CodeInv, Examined
  <2> QED BY <2>1, <2>2
<1> QED BY <1>5, <1>7, <1>8, <1>9, <1>10 DEF EnrolInv

LEMMA ChecksKept == ASSUME EnrolInv, NEW q \in asked, Checks(q) PROVE EnrolInv'
<1> DEFINE n == To(q, IF SomeoneElses(q) THEN "taken" ELSE "checked")
<1>1. /\ q.step = (IF q.coded THEN "looked" ELSE "sent") /\ asked' = (asked \ {q}) \cup {n}
      /\ ServerStep /\ UNCHANGED <<devices, code, minted, orphans, codeRows, together>>
  BY DEF Checks, rowVars, pastVars, ServerStep
<1>2. RequestOK(q) /\ minted \in Nat
  BY EnrolConstants DEF EnrolInv, AskedInv, DevicesInv
<1>3. q.token = 0 /\ q.waited \in BOOLEAN
  BY <1>1, <1>2 DEF RequestOK
<1>4. /\ SameRequest(q, n) /\ n.step = (IF SomeoneElses(q) THEN "taken" ELSE "checked")
      /\ n.token = 0 /\ n.waited = q.waited
  BY <1>3, AtIs DEF To
<1> HIDE DEF n
<1>5. AskedInv'
  <2>1. n.step \in Stages /\ n.step # "done" /\ n.token \in 0 .. minted
    BY <1>2, <1>4 DEF Stages
  <2>2. UNCHANGED <<running, pc, name, minted, attempt>>
    BY <1>1 DEF ServerStep, pcVars, agentVars
  <2> QED BY <1>1, <1>2, <1>4, <2>1, <2>2, ReplacedWaited
<1>6. OnePerAttempt'
  BY <1>1, <1>4, ReplacedOne
<1>7. DeskInv' /\ FlagInv' /\ WaitedInv'
  <2>1. \A r \in asked' : r.waited => \E s \in asked : s.waited /\ s.by = r.by
    BY <1>1, <1>4 DEF SameRequest
  <2> QED BY <1>1, <1>5, <1>6, <2>1, ServerFrame
<1>8. DevicesInv' /\ PlaceInv' /\ CurrentInv'
  <2>1. code' \in {"good", "used", "expired"} /\ together' \in BOOLEAN
    BY <1>1 DEF EnrolInv, DevicesInv
  <2> QED BY <1>1, <1>3, <1>4, <1>5, <2>1, QuietFrame
<1>9. CheckedInv'
  <2>1. n.step = "checked" => ~SomeoneElses(n)
    BY <1>4 DEF SameRequest, SomeoneElses
  <2> QED BY <1>1, <2>1 DEF EnrolInv, CheckedInv, SomeoneElses, ServerStep
<1>10. CodeInv'
  <2>1. CASE q.coded
    BY <1>1, <1>4, <2>1, CodeReplaced
  <2>2. CASE ~q.coded
    <3>1. ~Examined(n)
      BY <1>4, <2>2 DEF Examined, SameRequest
    <3> QED BY <1>1, <3>1 DEF EnrolInv, CodeInv, Examined
  <2> QED BY <2>1, <2>2
<1> QED BY <1>5, <1>7, <1>8, <1>9, <1>10 DEF EnrolInv

LEMMA ForgetsKept == ASSUME EnrolInv, NEW q \in asked, Forgets(q) PROVE EnrolInv'
<1>1. /\ ~q.waited /\ q.step \in {"refused", "taken"} /\ asked' = asked \ {q}
      /\ ServerStep /\ UNCHANGED <<devices, code, minted, orphans, codeRows, together>>
  BY DEF Forgets, rowVars, pastVars, ServerStep
<1>2. RequestOK(q)
  BY DEF EnrolInv, AskedInv
<1>3. AskedInv'
  <2>1. UNCHANGED <<running, pc, name, minted, attempt>>
    BY <1>1 DEF ServerStep, pcVars, agentVars
  <2> QED BY <1>1, <2>1, FewerWaited
<1>4. OnePerAttempt'
  BY <1>1 DEF EnrolInv, WaitedInv, OnePerAttempt
<1>5. DeskInv' /\ FlagInv' /\ WaitedInv'
  BY <1>1, <1>3, <1>4, ServerFrame
<1>6. DevicesInv' /\ PlaceInv' /\ CurrentInv'
  <2>1. code' \in {"good", "used", "expired"} /\ together' \in BOOLEAN
    BY <1>1 DEF EnrolInv, DevicesInv
  <2>2. q.token = 0
    BY <1>1, <1>2 DEF RequestOK
  <2> QED BY <1>1, <1>3, <2>1, <2>2, QuietFrame
<1>7. CheckedInv'
  BY <1>1, CheckedFewer DEF ServerStep
<1>8. CodeInv'
  BY <1>1, CodeFewer
<1> QED BY <1>3, <1>5, <1>6, <1>7, <1>8 DEF EnrolInv

\* The row is bound, a token minted.  Two requests for one row are of one account, so that
\* one of them is not waited for.
LEMMA BindsKept == ASSUME EnrolInv, NEW q \in asked, Binds(q) PROVE EnrolInv'
<1>1. /\ q.step = "checked" /\ minted < MaxTokens /\ minted' = minted + 1
      /\ devices' = [devices EXCEPT ![q.row] = BoundRow(q)] /\ code' = UsedUp(q)
      /\ codeRows' = IF q.coded THEN codeRows \cup {q.row} ELSE codeRows
      /\ asked' = (asked \ {q}) \cup (IF q.waited THEN {At(q, "done", minted', TRUE)} ELSE {})
      /\ orphans' = IF q.waited THEN orphans ELSE orphans \cup {minted'}
      /\ ServerStep /\ UNCHANGED together
  BY DEF Binds, ServerStep
<1>2. RequestOK(q) /\ minted \in Nat /\ minted' \in Token /\ minted' # 0
  BY <1>1, EnrolConstants DEF EnrolInv, AskedInv, DevicesInv
<1>3. UNCHANGED <<running, pc, name, attempt, record, file, shared, restored>>
  BY <1>1 DEF ServerStep, pcVars, agentVars
<1>4. q.token = 0 /\ q.waited \in BOOLEAN /\ q.row \in Key /\ q.who \in Staff /\ q.coded \in BOOLEAN
      /\ q.by \in Account /\ q.row[1] = q.by
  BY <1>1, <1>2 DEF RequestOK
<1>5. /\ devices'[q.row] = [owner |-> q.who, active |-> TRUE, token |-> minted']
      /\ \A k \in Key : k # q.row => devices'[k] = devices[k]
  BY <1>1, <1>4 DEF EnrolInv, DevicesInv, BoundRow
<1>6. PICK n : /\ SameRequest(q, n) /\ n.waited = q.waited /\ n.token = minted' /\ n.step = "done"
               /\ asked' = (asked \ {q}) \cup (IF q.waited THEN {n} ELSE {})
  <2> DEFINE d == At(q, "done", minted', q.waited)
  <2>1. SameRequest(q, d) /\ d.waited = q.waited /\ d.token = minted' /\ d.step = "done"
    BY <1>4, AtIs
  <2>2. q.waited => d = At(q, "done", minted', TRUE)
    BY <1>4 DEF At
  <2> QED BY <1>1, <2>1, <2>2
<1>7. AskedInv'
  <2>1. CASE q.waited
    <3>1. PICK m \in Nat : minted' = m /\ minted <= m /\ m # 0
      BY <1>1, <1>2
    <3>2. n.step \in Stages /\ n.token \in 0 .. m /\ (n.token # 0 <=> n.step = "done")
          /\ (n.step = "done" => n.waited)
      BY <1>6, <2>1, <3>1 DEF Stages
    <3> QED BY <1>3, <1>6, <2>1, <3>1, <3>2, ReplacedWaited
  <2>2. CASE ~q.waited
    <3> SUFFICES ASSUME NEW r \in asked' PROVE RequestOK(r)'
      BY DEF AskedInv
    <3>1. RequestOK(r)
      BY <1>6, <2>2 DEF EnrolInv, AskedInv
    <3>2. PICK m \in Nat : minted' = m /\ minted <= m
      BY <1>1, <1>2
    <3>3. r.token \in 0 .. m
      <4>1. r.token \in 0 .. minted
        BY <3>1 DEF RequestOK
      <4> QED BY <4>1, <3>2, <1>2
    <3>4. r.token \in 0 .. minted'
      BY <3>2, <3>3
    <3> QED BY <3>1, <3>4, <1>3 DEF RequestOK, KeyOf
  <2> QED BY <2>1, <2>2, <1>4
<1>8. OnePerAttempt'
  <2>1. CASE q.waited
    BY <1>6, <2>1, ReplacedOne
  <2>2. CASE ~q.waited
    BY <1>6, <2>2 DEF EnrolInv, WaitedInv, OnePerAttempt
  <2> QED BY <2>1, <2>2, <1>4
<1>9. DeskInv' /\ FlagInv' /\ WaitedInv'
  <2>1. \A r \in asked' : r.waited => \E s \in asked : s.waited /\ s.by = r.by
    BY <1>6 DEF SameRequest
  <2> QED BY <1>1, <1>7, <1>8, <2>1, ServerFrame
<1>10. \A k \in Key : devices[k].token \in Nat /\ devices[k].token <= minted
  BY EnrolConstants DEF EnrolInv, DevicesInv
<1>11. DevicesInv'
  <2>1. devices' \in [Key -> [owner : Staff \cup {NoOwner}, token : Token, active : BOOLEAN]]
    BY <1>1, <1>2, <1>4 DEF EnrolInv, DevicesInv, BoundRow
  <2>2. \A k \in Key : devices'[k].token <= minted'
    <3> TAKE k \in Key
    <3>1. CASE k = q.row
      <4>1. PICK m \in Nat : minted' = m
        BY <1>2, EnrolConstants
      <4>2. devices'[k].token = m
        BY <3>1, <4>1, <1>5
      <4> QED BY <4>1, <4>2
    <3>2. CASE k # q.row
      BY <3>2, <1>1, <1>2, <1>5, <1>10
    <3> QED BY <3>1, <3>2
  <2>3. orphans' \subseteq Token /\ code' \in {"good", "used", "expired"}
    BY <1>1, <1>2 DEF EnrolInv, DevicesInv, UsedUp
  <2> QED BY <2>1, <2>2, <2>3, <1>1, <1>2, <1>3 DEF EnrolInv, DevicesInv
<1>12. \A t \in Nat : t <= minted => t # minted' /\ t <= minted'
  BY <1>1, <1>2
<1>13. PlaceInv'
  <2>1. /\ \A a \in Account : record[a] \in Nat /\ record[a] <= minted
        /\ \A p \in {1, 2} : file[p].token \in Nat /\ file[p].token <= minted
        /\ \A r \in asked : r.token \in Nat /\ r.token <= minted
    <3>1. \A a \in Account : record[a] \in Nat
      BY EnrolConstants DEF EnrolInv, DeskInv
    <3>2. \A p \in {1, 2} : file[p].token \in Nat
      BY EnrolConstants DEF EnrolInv, DevicesInv
    <3>3. \A r \in asked : r.token \in 0 .. minted
      BY DEF EnrolInv, AskedInv, RequestOK
    <3> QED BY <1>2, <3>1, <3>2, <3>3 DEF EnrolInv, PlaceInv
  <2>2. /\ \A a \in Account : record[a] <= minted' /\ record[a] # minted'
        /\ \A p \in {1, 2} : file[p].token <= minted' /\ file[p].token # minted'
        /\ \A r \in asked : r.token # minted'
    BY <2>1, <1>12
  <2>3. \A r \in asked' : r.token # 0 =>
          /\ \A a \in Account : record[a] # r.token
          /\ \A p \in {1, 2} : file[p].token # r.token
          /\ \A s \in asked' : s.token = r.token => s = r
    <3> TAKE r \in asked'
    <3>1. CASE r \in asked
      BY <3>1, <2>2, <1>6 DEF EnrolInv, PlaceInv
    <3>2. CASE r \notin asked
      <4>1. r = n /\ r.token = minted'
        BY <3>2, <1>6
      <4> QED BY <4>1, <2>2, <1>6
    <3> QED BY <3>1, <3>2
  <2> QED BY <2>2, <2>3, <1>3 DEF EnrolInv, PlaceInv, Home
<1>14. ~shared /\ q.waited => \A r \in asked : r.waited /\ r.by = q.by => r = q
  BY OnlyWaited
<1>15. \A r \in asked : r.row = q.row => r.by = q.by
  BY <1>4 DEF EnrolInv, AskedInv, RequestOK
<1>16. CurrentInv'
  <2>1. ASSUME ~shared, NEW r \in asked', r.step = "done"
        PROVE  devices'[r.row].token \in {r.token} \cup orphans'
    <3>1. CASE r \in asked /\ r.row = q.row
      <4>1. r.waited /\ r # q
        BY <2>1, <3>1, <1>1 DEF EnrolInv, AskedInv, RequestOK
      <4>2. ~q.waited
        BY <4>1, <3>1, <1>14, <1>15, <2>1
      <4> QED BY <4>2, <3>1, <1>1, <1>5
    <3>2. CASE r \in asked /\ r.row # q.row
      <4>1. r.row \in Key
        BY <3>2 DEF EnrolInv, AskedInv, RequestOK
      <4>2. devices'[r.row] = devices[r.row]
        BY <4>1, <3>2, <1>5
      <4> QED BY <4>2, <3>2, <2>1, <1>1 DEF EnrolInv, CurrentInv
    <3>3. CASE r \notin asked
      BY <3>3, <1>5, <1>6 DEF SameRequest
    <3> QED BY <3>1, <3>2, <3>3
  <2>2. \A a \in Account : KeyOf(a)' = KeyOf(a) /\ KeyOf(a) \in Key /\ KeyOf(a)[1] = a
    BY <1>3 DEF KeyOf, Key, EnrolInv, DeskInv
  <2>3. ASSUME ~shared, ~restored, NEW a \in Account, record[a] # 0
        PROVE  devices'[KeyOf(a)].token \in {record[a]} \cup orphans'
    <3>1. CASE KeyOf(a) = q.row
      <4>1. a = q.by
        BY <3>1, <2>2, <1>4
      <4>2. ~q.waited
        BY <4>1, <2>3 DEF EnrolInv, WaitedInv
      <4> QED BY <4>2, <3>1, <1>1, <1>5
    <3>2. CASE KeyOf(a) # q.row
      <4>1. devices'[KeyOf(a)] = devices[KeyOf(a)]
        BY <3>2, <2>2, <1>5
      <4> QED BY <4>1, <2>3, <1>1 DEF EnrolInv, CurrentInv
    <3> QED BY <3>1, <3>2
  <2>4. ASSUME ~shared, ~restored, NEW a \in Account, Readable(a), SameBinding(pc[a])
        PROVE  devices'[KeyOf(a)].token \in {file[pc[a]].token} \cup OnTheWay(a)' \cup orphans'
    <3>1. CASE KeyOf(a) = q.row
      <4>1. a = q.by
        BY <3>1, <2>2, <1>4
      <4>2. CASE q.waited
        <5>1. n \in asked' /\ n.by = a /\ n.step = "done" /\ n.token = minted'
          BY <4>1, <4>2, <1>6 DEF SameRequest
        <5>2. minted' \in OnTheWay(a)'
          BY <5>1 DEF OnTheWay
        <5> QED BY <5>2, <3>1, <1>5
      <4>3. CASE ~q.waited
        BY <4>3, <3>1, <1>1, <1>5
      <4> QED BY <4>2, <4>3, <1>4
    <3>2. CASE KeyOf(a) # q.row
      <4>1. devices'[KeyOf(a)] = devices[KeyOf(a)]
        BY <3>2, <2>2, <1>5
      <4>2. OnTheWay(a) \subseteq OnTheWay(a)'
        BY <1>1, <1>6 DEF OnTheWay
      <4> QED BY <4>1, <4>2, <2>4, <1>1 DEF EnrolInv, CurrentInv
    <3> QED BY <3>1, <3>2
  <2> QED BY <2>1, <2>2, <2>3, <2>4, <1>3 DEF CurrentInv, Readable, SameBinding
<1>17. CheckedInv'
  <2> SUFFICES ASSUME ~shared, NEW r \in asked', r.step = "checked", r.waited, SomeoneElses(r)'
               PROVE  devices'[r.row].token \in orphans'
    BY <1>3 DEF CheckedInv
  <2>1. r \in asked /\ r # q
    BY <1>6
  <2>2. CASE r.row = q.row
    <3>1. ~q.waited
      BY <2>1, <2>2, <1>14, <1>15
    <3> QED BY <3>1, <2>2, <1>1, <1>5
  <2>3. CASE r.row # q.row
    <3>1. r.row \in Key
      BY <2>1 DEF EnrolInv, AskedInv, RequestOK
    <3>2. devices'[r.row] = devices[r.row]
      BY <3>1, <2>3, <1>5
    <3> QED BY <3>2, <2>1, <1>1 DEF EnrolInv, CheckedInv, SomeoneElses
  <2> QED BY <2>2, <2>3
<1>18. CodeInv'
  <2>1. \A r \in asked' : Examined(r) => r \in asked /\ r # q
    BY <1>6 DEF Examined
  <2>2. CASE q.coded
    <3>1. Examined(q)
      BY <1>1, <2>2 DEF Examined
    <3>2. ~together => codeRows' = {q.row} /\ \A r \in asked' : ~Examined(r)
      BY <1>1, <2>1, <2>2, <3>1 DEF EnrolInv, CodeInv
    <3>3. code' = "used"
      BY <1>1, <2>2 DEF UsedUp
    <3> QED BY <1>1, <1>4, <3>2, <3>3 DEF EnrolInv, CodeInv, Examined
  <2>3. CASE ~q.coded
    <3>1. codeRows' = codeRows /\ code' = code
      BY <1>1, <2>3 DEF UsedUp
    <3> QED BY <1>1, <2>1, <3>1 DEF EnrolInv, CodeInv, Examined
  <2> QED BY <2>2, <2>3, <1>4
<1> QED BY <1>7, <1>9, <1>11, <1>13, <1>16, <1>17, <1>18 DEF EnrolInv

(***************************************************************************)
(* The agents.  What is kept of the desks, the rows and the code while an  *)
(* attempt goes on.                                                        *)
(***************************************************************************)
\* A step that moves attempts and requests alone, and hands no token over.
DeskStep == UNCHANGED <<pcVars, file, running, record, barred, rowVars, codeRows, together, restored>>

LEMMA MovedFrame ==
  ASSUME EnrolInv, DeskStep, attempt' \in [Account -> [Entry -> Places]],
         signInOpen' \in [Account -> BOOLEAN],
         \A a \in Account : ~running[a] => \A e \in Entry : attempt'[a][e] = "none"
  PROVE  DeskInv'
BY DEF EnrolInv, DeskInv, DeskStep, pcVars

LEMMA RowsFrame ==
  ASSUME EnrolInv, DeskStep, orphans' \subseteq Token, shared' \in BOOLEAN
  PROVE  DevicesInv'
BY DEF EnrolInv, DevicesInv, DeskStep, pcVars, rowVars

\* No token is handed over: those on the way stay, or are given up.
LEMMA TokensFrame ==
  ASSUME EnrolInv, DeskStep, shared => shared', orphans \subseteq orphans',
         \A q \in asked' : q.token # 0 => q \in asked,
         \A q \in asked : q.token # 0 => q \in asked' \/ q.token \in orphans',
         AskedInv'
  PROVE  PlaceInv' /\ CurrentInv'
<1> USE DEF DeskStep, pcVars, rowVars
<1>1. PlaceInv'
  BY DEF EnrolInv, PlaceInv, Home
<1>2. \A q \in asked' : q.step = "done" => q \in asked
  BY DEF AskedInv, RequestOK
<1>3. \A q \in asked : q.step = "done" => q \in asked' \/ q.token \in orphans'
  BY DEF EnrolInv, AskedInv, RequestOK
<1>4. \A a \in Account : OnTheWay(a) \subseteq OnTheWay(a)' \cup orphans'
  BY <1>3 DEF OnTheWay
<1>5. CurrentInv'
  BY <1>2, <1>4 DEF EnrolInv, CurrentInv, Readable, SameBinding, KeyOf
<1> QED BY <1>1, <1>5

\* While an attempt is moved, and nothing is asked.
LEMMA SameAsked ==
  ASSUME EnrolInv, DeskStep, UNCHANGED <<asked, orphans>>, shared => shared', shared' \in BOOLEAN,
         NEW a \in Account, NEW e \in Entry, NEW x \in Places, Placed(a, e, x),
         running[a], signInOpen' \in [Account -> BOOLEAN],
         x \in Idle \/ attempt[a][e] \notin Idle \/ shared'
           \/ \A f \in Entry \ {e} : attempt[a][f] \in Idle,
         attempt[a][e] \in Asking => x \in Asking /\ (x = "asks code" <=> attempt[a][e] = "asks code"),
         FlagInv'
  PROVE  EnrolInv'
<1>1. DeskInv'
  <2>1. \A b \in Account : ~running[b] => \A f \in Entry : attempt'[b][f] = "none"
    BY DEF EnrolInv, DeskInv, Placed
  <2> QED BY <2>1, MovedFrame DEF Placed
<1>2. DevicesInv'
  BY RowsFrame DEF EnrolInv, DevicesInv
<1>3. AskedInv'
  <2> SUFFICES ASSUME NEW q \in asked PROVE RequestOK(q)'
    BY DEF AskedInv
  <2>1. RequestOK(q)
    BY DEF EnrolInv, AskedInv
  <2>2. q.waited => attempt'[q.by][q.entry] \in Asking
                    /\ (q.coded <=> attempt'[q.by][q.entry] = "asks code")
    BY <2>1 DEF RequestOK, Placed
  <2> QED BY <2>1, <2>2 DEF RequestOK, KeyOf, DeskStep, pcVars, rowVars
<1>4. WaitedInv'
  <2>1. ~shared' => \A b \in Account : \A f, g \in Entry :
                      f # g => attempt'[b][f] \in Idle \/ attempt'[b][g] \in Idle
    BY AloneFrame
  <2> QED BY <2>1 DEF EnrolInv, WaitedInv, DeskStep
<1>5. PlaceInv' /\ CurrentInv'
  BY <1>3, TokensFrame
<1>6. CheckedInv'
  BY CheckedFewer DEF DeskStep, rowVars
<1>7. CodeInv'
  BY CodeFewer DEF DeskStep, rowVars
<1> QED BY <1>1, <1>2, <1>3, <1>4, <1>5, <1>6, <1>7 DEF EnrolInv

LEMMA FlagKept ==
  ASSUME EnrolInv, NEW a \in Account, NEW e \in Entry, NEW x \in Places, Placed(a, e, x),
         signInOpen' = signInOpen,
         x \in Owning => signInOpen[a] /\ \A f \in Entry \ {e} : attempt[a][f] \notin Owning
  PROVE  FlagInv'
<1>1. signInOpen[a] \in BOOLEAN /\ signInOpen' = [signInOpen EXCEPT ![a] = signInOpen[a]]
  BY DEF EnrolInv, DeskInv
<1> QED BY <1>1, FlagFrame

LEMMA BeginsKept ==
  ASSUME EnrolInv, NEW a \in Account, NEW e \in Entry, Begins(a, e) PROVE EnrolInv'
<1>1. /\ running[a] /\ attempt[a][e] = (IF e = "startup" THEN "due" ELSE "none")
      /\ DeskStep /\ UNCHANGED <<asked, orphans>>
  BY DEF Begins, DeskStep
<1>2. attempt[a][e] \in Idle /\ attempt[a][e] \notin Asking
  BY <1>1 DEF Idle, Asking
<1>3. CASE NeedsEnrollment(a) /\ ~signInOpen[a]
  <2> DEFINE x == IF e = "startup" /\ withCode THEN "code" ELSE "form"
  <2>1. /\ signInOpen' = [signInOpen EXCEPT ![a] = TRUE]
        /\ attempt' = [attempt EXCEPT ![a][e] = x]
        /\ shared' = (shared \/ \E f \in Entry \ {e} : attempt[a][f] \notin {"none", "due"})
    BY <1>3 DEF Begins
  <2>2. x \in Places /\ x \in Owning
    BY DEF Places, Owning
  <2> HIDE DEF x
  <2>3. Placed(a, e, x)
    BY <2>1, <2>2, PlaceSet
  <2>4. \A f \in Entry : attempt[a][f] \notin Owning
    BY <1>3 DEF EnrolInv, FlagInv
  <2>5. FlagInv'
    BY <2>1, <2>2, <2>3, <2>4, FlagFrame
  <2>6. signInOpen' \in [Account -> BOOLEAN] /\ shared' \in BOOLEAN
    BY <2>1 DEF EnrolInv, DeskInv, DevicesInv
  <2>7. shared' \/ \A f \in Entry \ {e} : attempt[a][f] \in Idle
    BY <2>1 DEF Idle
  <2> QED BY <1>1, <1>2, <2>1, <2>2, <2>3, <2>5, <2>6, <2>7, SameAsked
<1>4. CASE ~(NeedsEnrollment(a) /\ ~signInOpen[a])
  <2>1. attempt' = [attempt EXCEPT ![a][e] = "none"] /\ UNCHANGED <<signInOpen, shared>>
    BY <1>4 DEF Begins
  <2>2. "none" \in Places /\ "none" \in Idle /\ "none" \notin Owning
    BY DEF Places, Idle, Owning
  <2>3. Placed(a, e, "none")
    BY <2>1, <2>2, PlaceSet
  <2>4. FlagInv'
    BY <2>1, <2>2, <2>3, FlagKept
  <2>5. signInOpen' \in [Account -> BOOLEAN] /\ shared' \in BOOLEAN
    BY <2>1 DEF EnrolInv, DeskInv, DevicesInv
  <2> QED BY <1>1, <1>2, <2>1, <2>2, <2>3, <2>4, <2>5, SameAsked
<1> QED BY <1>3, <1>4

LEMMA RunsIfPlaced ==
  ASSUME EnrolInv, NEW a \in Account, NEW e \in Entry, attempt[a][e] # "none"
  PROVE  running[a]
BY DEF EnrolInv, DeskInv

LEMMA ClosesKept ==
  ASSUME EnrolInv, NEW a \in Account, NEW e \in Entry, Closes(a, e) PROVE EnrolInv'
<1> DEFINE x    == IF attempt[a][e] \in {"form", "forgotten"} THEN "none" ELSE "asks closed"
           flag == signInOpen[a] /\ attempt[a][e] \notin {"form", "asks form"}
<1>1. /\ attempt[a][e] \in {"form", "forgotten", "asks form", "asks forgotten"}
      /\ attempt' = [attempt EXCEPT ![a][e] = x] /\ signInOpen' = [signInOpen EXCEPT ![a] = flag]
      /\ DeskStep /\ UNCHANGED <<asked, orphans, shared>>
  BY DEF Closes, DeskStep
<1>2. x \in Places /\ x \notin Owning /\ (x \in Idle \/ attempt[a][e] \notin Idle)
  BY <1>1 DEF Places, Owning, Idle
<1>3. attempt[a][e] \in Asking => x \in Asking /\ x # "asks code" /\ attempt[a][e] # "asks code"
  BY <1>1 DEF Asking
<1>4. flag \in BOOLEAN /\ (flag = signInOpen[a] \/ \A f \in Entry \ {e} : attempt[a][f] \notin Owning)
  <2>1. signInOpen[a] \in BOOLEAN
    BY DEF EnrolInv, DeskInv
  <2>2. CASE attempt[a][e] \in {"form", "asks form"}
    BY <2>2 DEF EnrolInv, FlagInv, Owning
  <2>3. CASE attempt[a][e] \notin {"form", "asks form"}
    BY <2>1, <2>3
  <2> QED BY <2>2, <2>3
<1> HIDE DEF x, flag
<1>5. Placed(a, e, x)
  BY <1>1, <1>2, PlaceSet
<1>6. FlagInv'
  BY <1>1, <1>2, <1>4, <1>5, FlagFrame
<1>7. signInOpen' \in [Account -> BOOLEAN] /\ shared' \in BOOLEAN /\ running[a]
  <2>1. running[a]
    BY <1>1, RunsIfPlaced
  <2> QED BY <2>1, <1>1, <1>4 DEF EnrolInv, DeskInv, DevicesInv
<1> QED BY <1>1, <1>2, <1>3, <1>5, <1>6, <1>7, SameAsked

LEMMA ForgottenKept ==
  ASSUME EnrolInv, NEW a \in Account, NEW e \in Entry, Forgotten(a, e) PROVE EnrolInv'
<1>1. /\ attempt[a][e] = "form"
      /\ attempt' = [attempt EXCEPT ![a][e] = "forgotten"] /\ signInOpen' = [signInOpen EXCEPT ![a] = FALSE]
      /\ DeskStep /\ UNCHANGED <<asked, orphans, shared>>
  BY DEF Forgotten, DeskStep
<1>2. "forgotten" \in Places /\ "forgotten" \notin Owning /\ attempt[a][e] \notin Idle
      /\ attempt[a][e] \notin Asking
  BY <1>1 DEF Places, Owning, Idle, Asking
<1>3. \A f \in Entry \ {e} : attempt[a][f] \notin Owning
  BY <1>1 DEF EnrolInv, FlagInv, Owning
<1>4. Placed(a, e, "forgotten")
  BY <1>1, <1>2, PlaceSet
<1>5. FlagInv'
  BY <1>1, <1>2, <1>3, <1>4, FlagFrame
<1>6. signInOpen' \in [Account -> BOOLEAN] /\ shared' \in BOOLEAN /\ running[a]
  <2>1. running[a]
    BY <1>1, RunsIfPlaced
  <2> QED BY <2>1, <1>1 DEF EnrolInv, DeskInv, DevicesInv
<1> QED BY <1>1, <1>2, <1>4, <1>5, <1>6, SameAsked

LEMMA GivesUpKept == ASSUME EnrolInv, NEW a \in Account, GivesUp(a) PROVE EnrolInv'
<1>1. /\ attempt[a]["startup"] = "code" /\ "startup" \in Entry
      /\ attempt' = [attempt EXCEPT ![a]["startup"] = "none"] /\ signInOpen' = [signInOpen EXCEPT ![a] = FALSE]
      /\ DeskStep /\ UNCHANGED <<asked, orphans, shared>>
  BY DEF GivesUp, Finish, DeskStep, pastVars, Entry
<1>2. "none" \in Places /\ "none" \notin Owning /\ "none" \in Idle /\ attempt[a]["startup"] \notin Asking
  BY <1>1 DEF Places, Owning, Idle, Asking
<1>3. \A f \in Entry \ {"startup"} : attempt[a][f] \notin Owning
  BY <1>1 DEF EnrolInv, FlagInv, Owning
<1>4. Placed(a, "startup", "none")
  BY <1>1, <1>2, PlaceSet
<1>5. FlagInv'
  BY <1>1, <1>2, <1>3, <1>4, FlagFrame
<1>6. signInOpen' \in [Account -> BOOLEAN] /\ shared' \in BOOLEAN /\ running[a]
  <2>1. running[a]
    BY <1>1, RunsIfPlaced
  <2> QED BY <2>1, <1>1 DEF EnrolInv, DeskInv, DevicesInv
<1> QED BY <1>1, <1>2, <1>4, <1>5, <1>6, SameAsked

\* An attempt moves with what it asks.
LEMMA AttemptStep ==
  ASSUME EnrolInv, DeskStep, shared' = shared, orphans \subseteq orphans', orphans' \subseteq Token,
         NEW a \in Account, NEW e \in Entry, NEW x \in Places, Placed(a, e, x),
         running[a], signInOpen' \in [Account -> BOOLEAN],
         x \in Idle \/ attempt[a][e] \notin Idle,
         FlagInv', AskedInv', OnePerAttempt', CheckedInv', CodeInv',
         \A q \in asked' : q.waited => record[q.by] = 0 \/ \E r \in asked : r.waited /\ r.by = q.by,
         \A q \in asked' : q.token # 0 => q \in asked,
         \A q \in asked : q.token # 0 => q \in asked' \/ q.token \in orphans'
  PROVE  EnrolInv'
<1>1. DeskInv'
  <2>1. \A b \in Account : ~running[b] => \A f \in Entry : attempt'[b][f] = "none"
    BY DEF EnrolInv, DeskInv, Placed
  <2> QED BY <2>1, MovedFrame DEF Placed
<1>2. DevicesInv'
  BY RowsFrame DEF EnrolInv, DevicesInv
<1>3. WaitedInv'
  <2>1. ~shared' => \A b \in Account : \A f, g \in Entry :
                      f # g => attempt'[b][f] \in Idle \/ attempt'[b][g] \in Idle
    BY AloneFrame
  <2> QED BY <2>1 DEF EnrolInv, WaitedInv, DeskStep, OnePerAttempt
<1>4. PlaceInv' /\ CurrentInv'
  BY TokensFrame
<1> QED BY <1>1, <1>2, <1>3, <1>4 DEF EnrolInv

LEMMA RequestsKept ==
  ASSUME EnrolInv, NEW a \in Account, NEW e \in Entry, Requests(a, e) PROVE EnrolInv'
<1>1. /\ attempt[a][e] \in {"code", "form", "forgotten"}
      /\ DeskStep /\ UNCHANGED <<orphans, shared>>
  BY DEF Requests, DeskStep, pastVars
<1>2. attempt[a][e] \notin Idle /\ attempt[a][e] \notin Asking /\ running[a]
  <2>1. running[a]
    BY <1>1, RunsIfPlaced
  <2> QED BY <1>1, <2>1 DEF Idle, Asking
<1>3. shared' \in BOOLEAN
  BY <1>1 DEF EnrolInv, DevicesInv
<1>4. CASE ~NeedsEnrollment(a)
  <2>1. /\ attempt' = [attempt EXCEPT ![a][e] = "none"] /\ asked' = asked
        /\ \/ signInOpen' = signInOpen
           \/ attempt[a][e] # "forgotten" /\ signInOpen' = [signInOpen EXCEPT ![a] = FALSE]
    BY <1>4 DEF Requests, Finish
  <2>2. "none" \in Places /\ "none" \notin Owning /\ "none" \in Idle
    BY DEF Places, Owning, Idle
  <2>3. Placed(a, e, "none")
    BY <2>1, <2>2, PlaceSet
  <2>4. FlagInv'
    <3>1. CASE signInOpen' = signInOpen
      BY <2>2, <2>3, <3>1, FlagKept
    <3>2. CASE attempt[a][e] # "forgotten" /\ signInOpen' = [signInOpen EXCEPT ![a] = FALSE]
      <4>1. \A f \in Entry \ {e} : attempt[a][f] \notin Owning
        BY <1>1, <3>2 DEF EnrolInv, FlagInv, Owning
      <4> QED BY <2>2, <2>3, <3>2, <4>1, FlagFrame
    <3> QED BY <2>1, <3>1, <3>2
  <2>5. signInOpen' \in [Account -> BOOLEAN]
    BY <2>1 DEF EnrolInv, DeskInv
  <2> QED BY <1>1, <1>2, <1>3, <2>1, <2>2, <2>3, <2>4, <2>5, SameAsked
<1>5. CASE NeedsEnrollment(a)
  <2> DEFINE x == CASE attempt[a][e] = "code" -> "asks code" [] attempt[a][e] = "form" -> "asks form"
                    [] OTHER -> "asks forgotten"
  <2>1. /\ \E who \in (IF attempt[a][e] = "code" THEN {CodeOwner} ELSE Staff) :
             asked' = asked \cup {[id |-> FreeId, by |-> a, entry |-> e, row |-> KeyOf(a), who |-> who,
                                   coded |-> attempt[a][e] = "code", step |-> "sent", token |-> 0, waited |-> TRUE]}
        /\ attempt' = [attempt EXCEPT ![a][e] = x] /\ signInOpen' = signInOpen
    BY <1>5 DEF Requests
  <2>2. /\ x \in Places /\ x \in Asking
        /\ x = "asks code" <=> attempt[a][e] = "code"
        /\ x \in Owning => attempt[a][e] \in Owning
    BY <1>1 DEF Places, Asking, Owning
  <2> HIDE DEF x
  <2>3. Placed(a, e, x)
    BY <2>1, <2>2, PlaceSet
  <2>4. PICK n : /\ asked' = asked \cup {n}
                 /\ n.by = a /\ n.entry = e /\ n.row = KeyOf(a) /\ n.who \in Staff
                 /\ n.coded = (attempt[a][e] = "code") /\ n.step = "sent" /\ n.token = 0 /\ n.waited = TRUE
    <3>1. PICK who \in (IF attempt[a][e] = "code" THEN {CodeOwner} ELSE Staff) :
             asked' = asked \cup {[id |-> FreeId, by |-> a, entry |-> e, row |-> KeyOf(a), who |-> who,
                                   coded |-> attempt[a][e] = "code", step |-> "sent", token |-> 0, waited |-> TRUE]}
      BY <2>1
    <3>2. who \in Staff
      BY EnrolConstants
    <3> DEFINE n == [id |-> FreeId, by |-> a, entry |-> e, row |-> KeyOf(a), who |-> who,
                     coded |-> attempt[a][e] = "code", step |-> "sent", token |-> 0, waited |-> TRUE]
    <3>3. /\ n.by = a /\ n.entry = e /\ n.row = KeyOf(a) /\ n.who = who
          /\ n.coded = (attempt[a][e] = "code") /\ n.step = "sent" /\ n.token = 0 /\ n.waited = TRUE
      OBVIOUS
    <3> HIDE DEF n
    <3> QED BY <3>1, <3>2, <3>3 DEF n
  <2>5. record[a] = 0
    BY <1>5 DEF NeedsEnrollment
  <2>6. \A r \in asked : r.waited => ~(r.by = a /\ r.entry = e)
    BY <1>2 DEF EnrolInv, AskedInv, RequestOK
  <2>7. AskedInv'
    <3> SUFFICES ASSUME NEW r \in asked' PROVE RequestOK(r)'
      BY DEF AskedInv
    <3>1. CASE r \in asked
      <4>1. RequestOK(r)
        BY <3>1 DEF EnrolInv, AskedInv
      <4>2. r.waited => attempt'[r.by][r.entry] = attempt[r.by][r.entry]
        <5>1. r.by \in Account /\ r.entry \in Entry
          BY <4>1 DEF RequestOK
        <5> QED BY <3>1, <5>1, <2>3, <2>6 DEF Placed
      <4> QED BY <4>1, <4>2, <1>1 DEF RequestOK, KeyOf, DeskStep, pcVars, rowVars
    <3>2. CASE r = n
      <4>1. KeyOf(a) \in Key /\ KeyOf(a)[1] = a /\ KeyOf(a)' = KeyOf(a)
        BY <1>1 DEF EnrolInv, DeskInv, KeyOf, Key, DeskStep, pcVars
      <4>2. attempt'[a][e] = x
        BY <2>3 DEF Placed
      <4>3. minted' = minted /\ minted \in Nat /\ running' = running
        BY <1>1, EnrolConstants DEF EnrolInv, DevicesInv, DeskStep, rowVars
      <4>4. n.token \in 0 .. minted' /\ (n.token # 0 <=> n.step = "done") /\ n.step # "done"
            /\ n.step \in Stages
        BY <2>4, <4>3 DEF Stages
      <4>5. running'[a] /\ attempt'[a][e] \in Asking /\ (n.coded <=> attempt'[a][e] = "asks code")
            /\ n.coded \in BOOLEAN /\ n.waited \in BOOLEAN
        BY <2>2, <2>4, <4>2, <4>3, <1>2
      <4> QED BY <3>2, <2>4, <4>1, <4>4, <4>5 DEF RequestOK
    <3> QED BY <3>1, <3>2, <2>4
  <2>8. OnePerAttempt'
    BY <2>4, <2>6 DEF EnrolInv, WaitedInv, OnePerAttempt
  <2>9. FlagInv'
    <3>1. x \in Owning => signInOpen[a] /\ \A f \in Entry \ {e} : attempt[a][f] \notin Owning
      BY <2>2 DEF EnrolInv, FlagInv
    <3> QED BY <2>1, <2>2, <2>3, <3>1, FlagKept
  <2>10. CheckedInv'
    BY <1>1, <2>4, CheckedFewer DEF DeskStep, rowVars
  <2>11. CodeInv'
    <3>1. ~Examined(n)
      BY <2>4 DEF Examined
    <3> QED BY <1>1, <2>4, <3>1 DEF EnrolInv, CodeInv, Examined, DeskStep, rowVars
  <2>12. orphans' \subseteq Token /\ orphans \subseteq orphans' /\ signInOpen' \in [Account -> BOOLEAN]
    BY <1>1, <2>1 DEF EnrolInv, DeskInv, DevicesInv
  <2> QED BY <1>1, <1>2, <2>2, <2>3, <2>4, <2>5, <2>7, <2>8, <2>9, <2>10, <2>11, <2>12, AttemptStep
<1> QED BY <1>4, <1>5

(***************************************************************************)
(* An answer, and none.                                                    *)
(***************************************************************************)
LEMMA Elsewhere ==
  ASSUME EnrolInv, NEW q \in asked, q.waited, NEW x \in Places, Placed(q.by, q.entry, x),
         NEW r \in asked, r # q, r.waited
  PROVE  attempt'[r.by][r.entry] = attempt[r.by][r.entry]
<1>1. r.by \in Account /\ r.entry \in Entry
  BY DEF EnrolInv, AskedInv, RequestOK
<1>2. ~(r.by = q.by /\ r.entry = q.entry)
  BY DEF EnrolInv, WaitedInv
<1> QED BY <1>1, <1>2 DEF Placed

LEMMA AgainIs ==
  ASSUME NEW at \in Asking
  PROVE  /\ Again(at) \in Places /\ at \notin Idle
         /\ Again(at) \in Owning => at \in Owning
BY DEF Asking, Again, Places, Owning, Idle

LEMMA TokenRange ==
  ASSUME EnrolInv, NEW q \in asked
  PROVE  q.token \in Token /\ q.token <= minted
<1>1. minted \in 0 .. MaxTokens /\ MaxTokens \in Nat
  BY EnrolConstants DEF EnrolInv, DevicesInv
<1>2. q.token \in 0 .. minted
  BY DEF EnrolInv, AskedInv, RequestOK
<1>3. q.token \in 0 .. MaxTokens /\ q.token <= minted
  BY <1>1, <1>2
<1> QED BY <1>3, EnrolConstants

\* An answer that hands no token over: the attempt ends, or goes back to where it was.
LEMMA HeardInVain ==
  ASSUME EnrolInv, NEW q \in asked, q.waited, asked' = asked \ {q}, DeskStep, shared' = shared,
         orphans' = orphans \cup ({q.token} \ {0}),
         \/ /\ attempt' = [attempt EXCEPT ![q.by][q.entry] = "none"]
            /\ signInOpen' = [signInOpen EXCEPT ![q.by] = FALSE]
            /\ attempt[q.by][q.entry] = "asks code"
         \/ /\ attempt' = [attempt EXCEPT ![q.by][q.entry] = Again(attempt[q.by][q.entry])]
            /\ signInOpen' = signInOpen
  PROVE  EnrolInv'
<1> DEFINE a == q.by
           e == q.entry
<1>1. /\ a \in Account /\ e \in Entry /\ running[a] /\ attempt[a][e] \in Asking
      /\ q.token \in 0 .. minted
  BY DEF EnrolInv, AskedInv, RequestOK
<1> HIDE DEF a, e
<1>2. PICK x \in Places : Placed(a, e, x) /\ FlagInv'
  <2>1. CASE /\ attempt' = [attempt EXCEPT ![a][e] = "none"]
             /\ signInOpen' = [signInOpen EXCEPT ![a] = FALSE]
             /\ attempt[a][e] = "asks code"
    <3>1. "none" \in Places /\ "none" \notin Owning
      BY DEF Places, Owning
    <3>2. Placed(a, e, "none")
      BY <1>1, <2>1, <3>1, PlaceSet
    <3>3. \A f \in Entry \ {e} : attempt[a][f] \notin Owning
      BY <1>1, <2>1 DEF EnrolInv, FlagInv, Owning
    <3>4. FlagInv'
      BY <1>1, <2>1, <3>1, <3>2, <3>3, FlagFrame
    <3> QED BY <3>1, <3>2, <3>4
  <2>2. CASE /\ attempt' = [attempt EXCEPT ![a][e] = Again(attempt[a][e])]
             /\ signInOpen' = signInOpen
    <3> DEFINE x == Again(attempt[a][e])
    <3>1. x \in Places /\ (x \in Owning => attempt[a][e] \in Owning)
      BY <1>1, AgainIs
    <3>2. attempt' = [attempt EXCEPT ![a][e] = x]
      BY <2>2
    <3> HIDE DEF x
    <3>3. Placed(a, e, x)
      BY <1>1, <3>1, <3>2, PlaceSet
    <3>4. x \in Owning => signInOpen[a] /\ \A f \in Entry \ {e} : attempt[a][f] \notin Owning
      BY <1>1, <3>1 DEF EnrolInv, FlagInv
    <3>5. FlagInv'
      BY <1>1, <2>2, <3>1, <3>3, <3>4, FlagKept
    <3> QED BY <3>1, <3>3, <3>5
  <2> QED BY <2>1, <2>2 DEF a, e
<1>3. \A r \in asked' : r.waited => attempt'[r.by][r.entry] = attempt[r.by][r.entry]
  BY <1>2, Elsewhere DEF a, e
<1>4. AskedInv'
  BY <1>3, FewerWaited DEF DeskStep, pcVars, rowVars
<1>5. OnePerAttempt'
  BY DEF EnrolInv, WaitedInv, OnePerAttempt
<1>6. CheckedInv' /\ CodeInv'
  BY CheckedFewer, CodeFewer DEF DeskStep, rowVars
<1>7. signInOpen' \in [Account -> BOOLEAN]
  BY <1>1 DEF EnrolInv, DeskInv, a
<1>8. orphans \subseteq orphans' /\ orphans' \subseteq Token
  <2>1. q.token \in Token
    BY TokenRange
  <2> QED BY <2>1 DEF EnrolInv, DevicesInv
<1>9. attempt[a][e] \notin Idle
  BY <1>1 DEF Asking, Idle
<1>10. /\ \A r \in asked' : r.waited => \E s \in asked : s.waited /\ s.by = r.by
       /\ \A r \in asked' : r.token # 0 => r \in asked
       /\ \A r \in asked : r.token # 0 => r \in asked' \/ r.token \in orphans'
  OBVIOUS
<1> QED BY <1>1, <1>2, <1>4, <1>5, <1>6, <1>7, <1>8, <1>9, <1>10, AttemptStep

LEMMA TimesOutKept == ASSUME EnrolInv, NEW q \in asked, TimesOut(q) PROVE EnrolInv'
<1>1. /\ q.waited /\ DeskStep /\ shared' = shared /\ signInOpen' = signInOpen
      /\ orphans' = orphans \cup ({q.token} \ {0})
      /\ attempt' = [attempt EXCEPT ![q.by][q.entry] = Again(attempt[q.by][q.entry])]
  BY DEF TimesOut, DeskStep
<1>2. CASE asked' = asked \ {q}
  BY <1>1, <1>2, HeardInVain
<1>3. CASE q.step \in {"sent", "looked", "checked"} /\ asked' = (asked \ {q}) \cup {GivenUp(q)}
  <2> DEFINE n == GivenUp(q)
             a == q.by
             e == q.entry
             x == Again(attempt[a][e])
  <2>1. SameRequest(q, n) /\ n.step = q.step /\ n.token = q.token /\ n.waited = FALSE
    BY <1>1 DEF GivenUp, At, SameRequest
  <2>2. /\ a \in Account /\ e \in Entry /\ running[a] /\ attempt[a][e] \in Asking
        /\ q.token = 0 /\ q.step \in Stages
    BY <1>1, <1>3 DEF EnrolInv, AskedInv, RequestOK
  <2>3. x \in Places /\ (x \in Owning => attempt[a][e] \in Owning) /\ attempt[a][e] \notin Idle
    BY <2>2, AgainIs
  <2>4. attempt' = [attempt EXCEPT ![a][e] = x]
    BY <1>1
  <2> HIDE DEF n, x
  <2>5. Placed(a, e, x)
    BY <2>2, <2>3, <2>4, PlaceSet
  <2>6. FlagInv'
    <3>1. x \in Owning => signInOpen[a] /\ \A f \in Entry \ {e} : attempt[a][f] \notin Owning
      BY <2>2, <2>3 DEF EnrolInv, FlagInv
    <3> QED BY <1>1, <2>2, <2>3, <2>5, <3>1, FlagKept
  <2>7. asked' = (asked \ {q}) \cup {n}
    BY <1>3 DEF n
  <2>8. \A r \in asked' : r.waited => attempt'[r.by][r.entry] = attempt[r.by][r.entry]
    BY <1>1, <2>1, <2>3, <2>5, <2>7, Elsewhere
  <2>9. AskedInv'
    <3>1. minted \in Nat /\ minted' = minted /\ UNCHANGED <<running, pc, name>>
      BY <1>1, EnrolConstants DEF EnrolInv, DevicesInv, DeskStep, pcVars, rowVars
    <3>2. n.step \in Stages /\ n.token \in 0 .. minted /\ (n.token # 0 <=> n.step = "done")
          /\ n.step # "done"
      BY <1>3, <2>1, <2>2, <3>1
    <3> QED BY <2>1, <2>7, <2>8, <3>1, <3>2, ReplacedWaited
  <2>10. OnePerAttempt'
    BY <2>1, <2>7, ReplacedOne
  <2>11. CheckedInv'
    BY <1>1, <2>1, <2>7, CheckedFewer DEF DeskStep, rowVars
  <2>12. CodeInv'
    BY <1>1, <2>1, <2>7, CodeReplaced DEF DeskStep, rowVars
  <2>13. orphans' = orphans /\ orphans \subseteq Token /\ signInOpen' \in [Account -> BOOLEAN]
    BY <1>1, <2>2 DEF EnrolInv, DeskInv, DevicesInv
  <2>14. /\ \A r \in asked' : r.waited => \E s \in asked : s.waited /\ s.by = r.by
         /\ \A r \in asked' : r.token # 0 => r \in asked
         /\ \A r \in asked : r.token # 0 => r \in asked' \/ r.token \in orphans'
    BY <2>1, <2>2, <2>7
  <2> QED BY <1>1, <2>2, <2>3, <2>5, <2>6, <2>9, <2>10, <2>11, <2>12, <2>13, <2>14, AttemptStep
<1> QED BY <1>2, <1>3 DEF TimesOut

\* The token is kept: the file, the memory, and the attempt ends.
LEMMA KeptAnswer ==
  ASSUME EnrolInv, NEW q \in asked, Hears(q), q.step = "done", Persists(q.by, q.entry, q.token, TRUE)
  PROVE  EnrolInv'
<1> DEFINE a == q.by
           e == q.entry
           t == q.token
           f == [token |-> t, host |-> <<pc[a], name[pc[a]]>>, by |-> a]
<1>1. /\ asked' = asked \ {q} /\ q.waited /\ file' = [file EXCEPT ![pc[a]] = f]
      /\ record' = [record EXCEPT ![a] = t] /\ barred' = [barred EXCEPT ![a] = FALSE]
      /\ attempt' = [attempt EXCEPT ![a][e] = "none"]
      /\ \/ signInOpen' = signInOpen
         \/ attempt[a][e] \notin {"asks forgotten", "asks closed"}
            /\ signInOpen' = [signInOpen EXCEPT ![a] = FALSE]
      /\ UNCHANGED <<pc, withCode, name, running, devices, code, minted, orphans, codeRows, together, shared, restored>>
  BY DEF Hears, Persists, Finish, pcVars, rowVars
<1>2. /\ a \in Account /\ e \in Entry /\ running[a] /\ attempt[a][e] \in Asking
      /\ q.row = KeyOf(a) /\ t # 0
  BY <1>1 DEF EnrolInv, AskedInv, RequestOK
<1>3. t \in Token /\ t <= minted
  BY TokenRange
<1>4. pc[a] \in {1, 2} /\ name[pc[a]] \in 0 .. 1
  BY <1>2 DEF EnrolInv, DeskInv
<1>5. /\ f.token = t /\ f.host = <<pc[a], name[pc[a]]>> /\ f.host[1] = pc[a] /\ f.host[2] = name[pc[a]]
      /\ f.by = a /\ f \in [token : Token, host : {<<0, 0>>} \cup ({1, 2} \X (0 .. 1)), by : Account \cup {NoOwner}]
  BY <1>2, <1>3, <1>4
<1> HIDE DEF f, t, a, e
<1>6. /\ \A b \in Account : record'[b] = IF b = a THEN t ELSE record[b]
      /\ \A p \in {1, 2} : file'[p] = IF p = pc[a] THEN f ELSE file[p]
  BY <1>1, <1>4 DEF EnrolInv, DeskInv, DevicesInv
<1>7. "none" \in Places /\ "none" \notin Owning /\ "none" \in Idle
  BY DEF Places, Owning, Idle
<1>8. Placed(a, e, "none")
  BY <1>1, <1>2, <1>7, PlaceSet
<1>9. FlagInv'
  <2>1. CASE signInOpen' = signInOpen
    BY <2>1, <1>2, <1>7, <1>8, FlagKept
  <2>2. CASE attempt[a][e] \notin {"asks forgotten", "asks closed"}
             /\ signInOpen' = [signInOpen EXCEPT ![a] = FALSE]
    <3>1. \A g \in Entry \ {e} : attempt[a][g] \notin Owning
      BY <1>2, <2>2 DEF EnrolInv, FlagInv, Owning, Asking
    <3> QED BY <2>2, <3>1, <1>2, <1>7, <1>8, FlagFrame
  <2> QED BY <1>1, <2>1, <2>2
<1>10. DeskInv'
  <2>1. \A b \in Account : ~running[b] => \A g \in Entry : attempt'[b][g] = "none"
    BY <1>8 DEF EnrolInv, DeskInv, Placed
  <2>2. /\ signInOpen' \in [Account -> BOOLEAN] /\ attempt' \in [Account -> [Entry -> Places]]
        /\ record' \in [Account -> Token] /\ barred' \in [Account -> BOOLEAN]
    BY <1>1, <1>3, <1>8 DEF EnrolInv, DeskInv, Placed
  <2>3. \A b \in Account : ~running[b] => record'[b] = 0
    BY <1>2, <1>6 DEF EnrolInv, DeskInv
  <2> QED BY <1>1, <2>1, <2>2, <2>3 DEF EnrolInv, DeskInv
<1>11. DevicesInv'
  <2>1. file' \in [{1, 2} -> [token : Token, host : {<<0, 0>>} \cup ({1, 2} \X (0 .. 1)), by : Account \cup {NoOwner}]]
    BY <1>1, <1>5 DEF EnrolInv, DevicesInv
  <2>2. \A p \in {1, 2} : file'[p].token # 0 => /\ file'[p].host \in {1, 2} \X (0 .. 1)
                                                /\ name[file'[p].host[1]] = 0 => file'[p].host[2] = 0
    <3> TAKE p \in {1, 2}
    <3>1. CASE p = pc[a]
      BY <3>1, <1>4, <1>5, <1>6
    <3>2. CASE p # pc[a]
      BY <3>2, <1>6 DEF EnrolInv, DevicesInv
    <3> QED BY <3>1, <3>2
  <2> QED BY <1>1, <2>1, <2>2 DEF EnrolInv, DevicesInv
<1>12. AskedInv'
  <2>1. \A r \in asked' : r.waited => attempt'[r.by][r.entry] = attempt[r.by][r.entry]
    BY <1>1, <1>7, <1>8, Elsewhere DEF a, e
  <2> QED BY <1>1, <2>1, FewerWaited
<1>13. WaitedInv'
  <2>1. ~shared' => \A b \in Account : \A g, h \in Entry :
                      g # h => attempt'[b][g] \in Idle \/ attempt'[b][h] \in Idle
    BY <1>1, <1>2, <1>7, <1>8, AloneFrame
  <2>2. ASSUME ~shared, NEW r \in asked', r.waited PROVE record'[r.by] = 0
    <3>1. r \in asked /\ r # q /\ r.by \in Account
      BY <1>1 DEF EnrolInv, AskedInv, RequestOK
    <3>2. r.by # a
      BY <1>1, <2>2, <3>1, OnlyWaited DEF a
    <3> QED BY <2>2, <3>1, <3>2, <1>6 DEF EnrolInv, WaitedInv
  <2> QED BY <1>1, <2>1, <2>2 DEF EnrolInv, WaitedInv
<1>14. PlaceInv'
  <2>1. /\ \A b \in Account : record[b] # t
        /\ \A p \in {1, 2} : file[p].token # t
        /\ \A r \in asked : r.token = t => r = q
    BY <1>2 DEF EnrolInv, PlaceInv, t
  <2>0. /\ \A b \in Account : record[b] <= minted
        /\ \A p \in {1, 2} : file[p].token <= minted
        /\ \A r \in asked : r.token # 0 =>
             /\ \A b \in Account : record[b] # r.token
             /\ \A p \in {1, 2} : file[p].token # r.token
             /\ \A s \in asked : s.token = r.token => s = r
    BY DEF EnrolInv, PlaceInv
  <2>2. \A b \in Account : record'[b] <= minted'
    <3> TAKE b \in Account
    <3>1. record'[b] = t \/ record'[b] = record[b]
      BY <1>6
    <3> QED BY <2>0, <3>1, <1>1, <1>3
  <2>3. \A p \in {1, 2} : file'[p].token <= minted'
    <3> TAKE p \in {1, 2}
    <3>1. file'[p].token = t \/ file'[p].token = file[p].token
      BY <1>5, <1>6
    <3> QED BY <2>0, <3>1, <1>1, <1>3
  <2>4. \A r \in asked' : r.token # 0 =>
          /\ \A b \in Account : record'[b] # r.token
          /\ \A p \in {1, 2} : file'[p].token # r.token
          /\ \A s \in asked' : s.token = r.token => s = r
    <3> TAKE r \in asked'
    <3> HAVE r.token # 0
    <3>1. r \in asked /\ r.token # t
      BY <1>1, <2>1
    <3>2. \A b \in Account : record'[b] # r.token
      BY <1>6, <2>0, <3>1
    <3>3. \A p \in {1, 2} : file'[p].token # r.token
      BY <1>5, <1>6, <2>0, <3>1
    <3>4. \A s \in asked' : s.token = r.token => s = r
      BY <1>1, <2>0, <3>1
    <3> QED BY <3>2, <3>3, <3>4
  <2>5. \A b, c \in Account : record'[b] # 0 /\ record'[b] = record'[c] => pc[b] = pc[c]
    <3>1. \A b, c \in Account : record[b] # 0 /\ record[b] = record[c] => pc[b] = pc[c]
      BY DEF EnrolInv, PlaceInv
    <3> QED BY <1>6, <2>1, <3>1
  <2>6. \A b \in Account, p \in {1, 2} : record'[b] # 0 /\ record'[b] = file'[p].token => file'[p].host[1] = pc[b]
    <3>1. \A b \in Account, p \in {1, 2} : record[b] # 0 /\ record[b] = file[p].token => file[p].host[1] = pc[b]
      BY DEF EnrolInv, PlaceInv, Home
    <3> QED BY <1>5, <1>6, <2>1, <3>1
  <2>7. \A p, r \in {1, 2} : file'[p].token # 0 /\ file'[p].token = file'[r].token
                               => file'[p].host[1] = file'[r].host[1]
    <3> TAKE p, r \in {1, 2}
    <3> HAVE file'[p].token # 0 /\ file'[p].token = file'[r].token
    <3>1. file[p].token # 0 /\ file[p].token = file[r].token => file[p].host[1] = file[r].host[1]
      BY DEF EnrolInv, PlaceInv, Home
    <3>2. p = pc[a] <=> r = pc[a]
      BY <1>5, <1>6, <2>1
    <3> QED BY <1>6, <3>1, <3>2
  <2>8. pc' = pc /\ minted' = minted
    BY <1>1
  <2> QED BY <2>2, <2>3, <2>4, <2>5, <2>6, <2>7, <2>8 DEF PlaceInv, Home
<1>15. CurrentInv'
  <2>1. ~shared => devices[KeyOf(a)].token \in {t} \cup orphans
    BY <1>2 DEF EnrolInv, CurrentInv, t
  <2>2. \A b \in Account : KeyOf(b)' = KeyOf(b)
    BY <1>1 DEF KeyOf
  <2>3. ASSUME ~shared, ~restored, NEW b \in Account, record'[b] # 0
        PROVE  devices[KeyOf(b)].token \in {record'[b]} \cup orphans
    BY <1>6, <2>1, <2>3 DEF EnrolInv, CurrentInv
  <2>4. ASSUME ~shared, ~restored, NEW b \in Account, Readable(b)', SameBinding(pc[b])'
        PROVE  devices[KeyOf(b)].token \in {file'[pc[b]].token} \cup OnTheWay(b)' \cup orphans
    <3>1. CASE b = a
      BY <3>1, <1>4, <1>5, <1>6, <2>1, <2>4
    <3>2. CASE b # a
      <4>0. pc[b] \in {1, 2}
        BY DEF EnrolInv, DeskInv
      <4>1. pc[b] # pc[a]
        BY <3>2, <4>0, <1>1, <1>5, <1>6, <2>4 DEF Readable
      <4>2. file'[pc[b]] = file[pc[b]]
        BY <4>0, <4>1, <1>6
      <4>3. Readable(b) /\ SameBinding(pc[b])
        BY <4>2, <1>1, <2>4 DEF Readable, SameBinding
      <4>4. OnTheWay(b) \subseteq OnTheWay(b)'
        BY <3>2, <1>1 DEF OnTheWay, a
      <4> QED BY <4>2, <4>3, <4>4, <2>4 DEF EnrolInv, CurrentInv
    <3> QED BY <3>1, <3>2
  <2>5. ~shared => \A r \in asked' : r.step = "done" => devices[r.row].token \in {r.token} \cup orphans
    BY <1>1 DEF EnrolInv, CurrentInv
  <2> QED BY <1>1, <2>2, <2>3, <2>4, <2>5 DEF CurrentInv
<1>16. CheckedInv' /\ CodeInv'
  BY <1>1, CheckedFewer, CodeFewer
<1> QED BY <1>9, <1>10, <1>11, <1>12, <1>13, <1>14, <1>15, <1>16 DEF EnrolInv

LEMMA HearsKept == ASSUME EnrolInv, NEW q \in asked, Hears(q) PROVE EnrolInv'
<1>1. /\ q.waited /\ q.step \in {"done", "refused", "taken"} /\ asked' = asked \ {q}
      /\ UNCHANGED <<pcVars, running, rowVars, codeRows, together, shared, restored>>
  BY DEF Hears
<1>2. RequestOK(q)
  BY DEF EnrolInv, AskedInv
<1>3. CASE q.step = "done" /\ Persists(q.by, q.entry, q.token, TRUE)
  BY <1>3, KeptAnswer
<1>4. CASE q.step = "done" /\ Persists(q.by, q.entry, q.token, FALSE)
  <2>1. q.token # 0
    BY <1>2, <1>4 DEF RequestOK
  <2>2. orphans' = orphans \cup ({q.token} \ {0}) /\ DeskStep
    BY <1>1, <1>4, <2>1 DEF Persists, DeskStep
  <2>3. \/ /\ attempt' = [attempt EXCEPT ![q.by][q.entry] = "none"]
           /\ signInOpen' = [signInOpen EXCEPT ![q.by] = FALSE]
           /\ attempt[q.by][q.entry] = "asks code"
        \/ /\ attempt' = [attempt EXCEPT ![q.by][q.entry] = Again(attempt[q.by][q.entry])]
           /\ signInOpen' = signInOpen
    BY <1>4 DEF Persists, Finish
  <2> QED BY <1>1, <2>2, <2>3, HeardInVain
<1>5. CASE q.step # "done"
  <2>1. q.token = 0
    BY <1>2, <1>5 DEF RequestOK
  <2>2. orphans' = orphans \cup ({q.token} \ {0}) /\ DeskStep
    BY <1>1, <1>5, <2>1 DEF Hears, DeskStep
  <2>3. \/ /\ attempt' = [attempt EXCEPT ![q.by][q.entry] = "none"]
           /\ signInOpen' = [signInOpen EXCEPT ![q.by] = FALSE]
           /\ attempt[q.by][q.entry] = "asks code"
        \/ /\ attempt' = [attempt EXCEPT ![q.by][q.entry] = Again(attempt[q.by][q.entry])]
           /\ signInOpen' = signInOpen
    <3>1. q.coded => attempt[q.by][q.entry] = "asks code"
      BY <1>1, <1>2 DEF RequestOK
    <3> QED BY <1>5, <3>1 DEF Hears, Finish
  <2> QED BY <1>1, <2>2, <2>3, HeardInVain
<1>6. q.step = "done" => \E ok \in {TRUE, FALSE} : Persists(q.by, q.entry, q.token, ok)
  BY DEF Hears
<1> QED BY <1>3, <1>4, <1>5, <1>6

(***************************************************************************)
(* Agents start, die and forget, and the office acts.                      *)
(***************************************************************************)
\* Tokens are only forgotten, by an agent or with a file, or given up.
LEMMA FewerHeld ==
  ASSUME EnrolInv, UNCHANGED <<pc, name, devices, minted, shared, restored>>,
         \A a \in Account : record'[a] \in {0, record[a]},
         \A p \in {1, 2} : file'[p] \in {NoFile, file[p]},
         orphans \subseteq orphans',
         \A q \in asked' : q.token # 0 => q \in asked,
         \A q \in asked : q.token # 0 => q \in asked' \/ q.token \in orphans',
         AskedInv'
  PROVE  PlaceInv' /\ CurrentInv'
<1>1. NoFile.token = 0
  BY DEF NoFile
<1>2. \A p \in {1, 2} : file'[p].token \in {0, file[p].token}
                        /\ (file'[p].token # 0 => file'[p] = file[p])
  BY <1>1
<1>3. minted \in Nat
  BY EnrolConstants DEF EnrolInv, DevicesInv
<1>4. PlaceInv'
  <2>1. \A a \in Account : record'[a] <= minted'
    <3>1. \A a \in Account : record[a] <= minted
      BY DEF EnrolInv, PlaceInv
    <3> QED BY <1>3, <3>1
  <2>2. \A p \in {1, 2} : file'[p].token <= minted'
    <3>1. \A p \in {1, 2} : file[p].token <= minted
      BY DEF EnrolInv, PlaceInv
    <3> QED BY <1>2, <1>3, <3>1
  <2>3. \A r \in asked' : r.token # 0 =>
          /\ \A b \in Account : record'[b] # r.token
          /\ \A p \in {1, 2} : file'[p].token # r.token
          /\ \A s \in asked' : s.token = r.token => s = r
    BY <1>2 DEF EnrolInv, PlaceInv
  <2>4. \A b, c \in Account : record'[b] # 0 /\ record'[b] = record'[c] => pc[b] = pc[c]
    BY DEF EnrolInv, PlaceInv
  <2>5. \A b \in Account, p \in {1, 2} : record'[b] # 0 /\ record'[b] = file'[p].token => file'[p].host[1] = pc[b]
    BY <1>2 DEF EnrolInv, PlaceInv, Home
  <2>6. \A p, r \in {1, 2} : file'[p].token # 0 /\ file'[p].token = file'[r].token
                               => file'[p].host[1] = file'[r].host[1]
    BY <1>2 DEF EnrolInv, PlaceInv, Home
  <2> QED BY <2>1, <2>2, <2>3, <2>4, <2>5, <2>6 DEF PlaceInv, Home
<1>5. \A q \in asked' : q.step = "done" => q \in asked
  BY DEF AskedInv, RequestOK
<1>6. \A q \in asked : q.step = "done" => q \in asked' \/ q.token \in orphans'
  BY DEF EnrolInv, AskedInv, RequestOK
<1>7. \A a \in Account : OnTheWay(a) \subseteq OnTheWay(a)' \cup orphans'
  BY <1>6 DEF OnTheWay
<1>8. \A a \in Account : Readable(a)' /\ SameBinding(pc[a])'
                         => Readable(a) /\ SameBinding(pc[a]) /\ file'[pc[a]] = file[pc[a]]
  <2>1. \A a \in Account : pc[a] \in {1, 2}
    BY DEF EnrolInv, DeskInv
  <2> QED BY <1>2, <2>1 DEF Readable, SameBinding
<1>9. CurrentInv'
  BY <1>5, <1>7, <1>8 DEF EnrolInv, CurrentInv, KeyOf
<1> QED BY <1>4, <1>9

LEMMA LeavesKept == ASSUME EnrolInv, NEW a \in Account, Leaves(a) PROVE EnrolInv'
<1>1. /\ record[a] # 0 /\ record' = [record EXCEPT ![a] = 0]
      /\ barred' = barred \/ barred' = [barred EXCEPT ![a] = TRUE]
      /\ file' = file \/ file' = [file EXCEPT ![pc[a]] = NoFile]
      /\ UNCHANGED <<pc, withCode, name, running, signInOpen, attempt, asked, devices, code, minted, orphans,
                     codeRows, together, shared, restored>>
  BY DEF Leaves, pcVars, rowVars
<1>2. pc[a] \in {1, 2}
  BY DEF EnrolInv, DeskInv
<1>3. /\ \A b \in Account : record'[b] = IF b = a THEN 0 ELSE record[b]
      /\ \A p \in {1, 2} : file'[p] \in {NoFile, file[p]}
  BY <1>1, <1>2 DEF EnrolInv, DeskInv, DevicesInv
<1>4. DeskInv'
  <2>1. record' \in [Account -> Token] /\ barred' \in [Account -> BOOLEAN]
    <3>1. 0 \in Token
      BY EnrolConstants
    <3> QED BY <1>1, <3>1 DEF EnrolInv, DeskInv
  <2> QED BY <1>1, <1>3, <2>1 DEF EnrolInv, DeskInv
<1>5. DevicesInv'
  <2>1. NoFile.token = 0
        /\ NoFile \in [token : Token, host : {<<0, 0>>} \cup ({1, 2} \X (0 .. 1)), by : Account \cup {NoOwner}]
    BY EnrolConstants DEF NoFile
  <2>2. file' \in [{1, 2} -> [token : Token, host : {<<0, 0>>} \cup ({1, 2} \X (0 .. 1)), by : Account \cup {NoOwner}]]
    BY <1>1, <2>1 DEF EnrolInv, DevicesInv
  <2>3. \A p \in {1, 2} : file'[p].token # 0 => file'[p] = file[p]
    BY <1>3, <2>1
  <2> QED BY <1>1, <2>2, <2>3 DEF EnrolInv, DevicesInv
<1>6. FlagInv' /\ AskedInv' /\ CodeInv' /\ CheckedInv'
  BY <1>1 DEF EnrolInv, FlagInv, AskedInv, RequestOK, KeyOf, CodeInv, Examined, CheckedInv, SomeoneElses
<1>7. WaitedInv'
  <2>1. \A q \in asked : q.by \in Account
    BY DEF EnrolInv, AskedInv, RequestOK
  <2> QED BY <1>1, <1>3, <2>1 DEF EnrolInv, WaitedInv
<1>8. PlaceInv' /\ CurrentInv'
  <2>1. \A b \in Account : record'[b] \in {0, record[b]}
    BY <1>3
  <2> QED BY <1>1, <1>3, <1>6, <2>1, FewerHeld
<1> QED BY <1>4, <1>5, <1>6, <1>7, <1>8 DEF EnrolInv

LEMMA DiesKept == ASSUME EnrolInv, NEW a \in Account, Dies(a) PROVE EnrolInv'
<1>1. /\ running[a] /\ running' = [running EXCEPT ![a] = FALSE]
      /\ record' = [record EXCEPT ![a] = 0] /\ barred' = [barred EXCEPT ![a] = FALSE]
      /\ signInOpen' = [signInOpen EXCEPT ![a] = FALSE]
      /\ attempt' = [attempt EXCEPT ![a] = [e \in Entry |-> "none"]]
      /\ asked' = {IF q.by = a THEN GivenUp(q) ELSE q : q \in {r \in asked : r.by # a \/ r.token = 0}}
      /\ orphans' = orphans \cup {q.token : q \in {r \in asked : r.by = a /\ r.token # 0}}
      /\ UNCHANGED <<pc, withCode, name, file, devices, code, minted, codeRows, together, shared, restored>>
  BY DEF Dies, pcVars, rowVars
<1>2. /\ \A b \in Account : record'[b] = IF b = a THEN 0 ELSE record[b]
      /\ \A b \in Account : running'[b] = IF b = a THEN FALSE ELSE running[b]
      /\ \A b \in Account : signInOpen'[b] = IF b = a THEN FALSE ELSE signInOpen[b]
      /\ \A b \in Account, e \in Entry : attempt'[b][e] = IF b = a THEN "none" ELSE attempt[b][e]
  BY <1>1 DEF EnrolInv, DeskInv
<1>3. \A r \in asked' : \/ r \in asked /\ r.by # a
                        \/ \E q \in asked : q.by = a /\ q.token = 0 /\ r = GivenUp(q)
  BY <1>1
<1>4. \A q \in asked : /\ GivenUp(q).by = q.by /\ GivenUp(q).entry = q.entry /\ GivenUp(q).row = q.row
                       /\ GivenUp(q).who = q.who /\ GivenUp(q).coded = q.coded /\ GivenUp(q).step = q.step
                       /\ GivenUp(q).token = q.token /\ GivenUp(q).waited = FALSE
  BY DEF GivenUp, At
<1>5. \A q \in asked : q.by # a => q \in asked'
  BY <1>1
<1>6. DeskInv'
  <2>1. /\ record' \in [Account -> Token] /\ barred' \in [Account -> BOOLEAN]
        /\ signInOpen' \in [Account -> BOOLEAN] /\ running' \in [Account -> BOOLEAN]
    <3>1. 0 \in Token
      BY EnrolConstants
    <3> QED BY <1>1, <3>1 DEF EnrolInv, DeskInv
  <2>2. attempt' \in [Account -> [Entry -> Places]]
    <3>1. [e \in Entry |-> "none"] \in [Entry -> Places]
      BY DEF Places
    <3> QED BY <1>1, <3>1 DEF EnrolInv, DeskInv
  <2>3. /\ \A b, c \in Account : running'[b] /\ running'[c] /\ pc[b] = pc[c] => b = c
        /\ \A b \in Account : ~running'[b] => record'[b] = 0 /\ \A e \in Entry : attempt'[b][e] = "none"
    <3>1. \A b, c \in Account : running[b] /\ running[c] /\ pc[b] = pc[c] => b = c
      BY DEF EnrolInv, DeskInv
    <3>2. \A b \in Account : ~running[b] => record[b] = 0 /\ \A e \in Entry : attempt[b][e] = "none"
      BY DEF EnrolInv, DeskInv
    <3>3. \A b \in Account : ~running'[b] => record'[b] = 0
      BY <1>2, <3>2
    <3>4. \A b \in Account : ~running'[b] => \A e \in Entry : attempt'[b][e] = "none"
      <4> TAKE b \in Account
      <4>1. CASE b = a
        BY <4>1, <1>2
      <4>2. CASE b # a
        <5>1. running'[b] = running[b] /\ \A e \in Entry : attempt'[b][e] = attempt[b][e]
          BY <4>2, <1>2
        <5> QED BY <5>1, <3>2
      <4> QED BY <4>1, <4>2
    <3>5. \A b, c \in Account : running'[b] /\ running'[c] /\ pc[b] = pc[c] => b = c
      BY <1>2, <3>1
    <3> QED BY <3>3, <3>4, <3>5
  <2> QED BY <1>1, <2>1, <2>2, <2>3 DEF EnrolInv, DeskInv
<1>7. DevicesInv'
  <2>1. \A q \in asked : q.token \in Token
    BY TokenRange
  <2> QED BY <1>1, <2>1 DEF EnrolInv, DevicesInv
<1>8. FlagInv'
  <2> SUFFICES ASSUME NEW b \in Account, NEW e \in Entry, attempt'[b][e] \in Owning
               PROVE  signInOpen'[b] /\ \A f \in Entry \ {e} : attempt'[b][f] \notin Owning
    BY DEF FlagInv
  <2>1. b # a
    BY <1>2 DEF Owning
  <2> QED BY <1>2, <2>1 DEF EnrolInv, FlagInv
<1>9. AskedInv'
  <2> SUFFICES ASSUME NEW r \in asked' PROVE RequestOK(r)'
    BY DEF AskedInv
  <2>1. CASE r \in asked /\ r.by # a
    <3>1. RequestOK(r) /\ r.by \in Account /\ r.entry \in Entry
      BY <2>1 DEF EnrolInv, AskedInv, RequestOK
    <3>2. running'[r.by] = running[r.by] /\ attempt'[r.by][r.entry] = attempt[r.by][r.entry]
      BY <1>2, <2>1, <3>1
    <3> QED BY <3>1, <3>2, <1>1 DEF RequestOK, KeyOf
  <2>2. CASE \E q \in asked : q.by = a /\ q.token = 0 /\ r = GivenUp(q)
    <3>1. PICK q \in asked : q.by = a /\ q.token = 0 /\ r = GivenUp(q)
      BY <2>2
    <3>2. RequestOK(q)
      BY DEF EnrolInv, AskedInv
    <3>3. r.waited = FALSE /\ r.step = q.step /\ r.step # "done" /\ r.token = 0 /\ r.token \in 0 .. minted'
      <4>1. minted \in Nat /\ minted' = minted
        BY <1>1, EnrolConstants DEF EnrolInv, DevicesInv
      <4>2. r.waited = FALSE /\ r.step = q.step /\ r.step # "done" /\ r.token = 0
        <5>1. q.step # "done"
          BY <3>1, <3>2 DEF RequestOK
        <5> QED BY <1>4, <3>1, <5>1
      <4> QED BY <4>1, <4>2
    <3> QED BY <1>4, <3>1, <3>2, <3>3 DEF RequestOK
  <2> QED BY <1>3, <2>1, <2>2
<1>10. \A r \in asked' : r.waited => r \in asked /\ r.by # a
  BY <1>3, <1>4
<1>11. WaitedInv'
  <2>1. \A q \in asked : q.by \in Account
    BY DEF EnrolInv, AskedInv, RequestOK
  <2>2. \A q \in asked' : q.waited => record'[q.by] = record[q.by]
    BY <1>2, <1>10, <2>1
  <2>3. ~shared' => \A b \in Account : \A e, f \in Entry :
                      e # f => attempt'[b][e] \in Idle \/ attempt'[b][f] \in Idle
    BY <1>1, <1>2 DEF EnrolInv, WaitedInv, Idle
  <2>4. \A q, r \in asked' : q.waited /\ r.waited /\ q.by = r.by /\ q.entry = r.entry => q = r
    BY <1>10 DEF EnrolInv, WaitedInv
  <2>5. ~shared' => \A q \in asked' : q.waited => record'[q.by] = 0
    BY <1>1, <1>10, <2>2 DEF EnrolInv, WaitedInv
  <2> QED BY <2>3, <2>4, <2>5 DEF WaitedInv
<1>12. PlaceInv' /\ CurrentInv'
  <2>1. \A r \in asked' : r.token # 0 => r \in asked
    BY <1>3, <1>4
  <2>2. \A q \in asked : q.token # 0 => q \in asked' \/ q.token \in orphans'
    BY <1>1, <1>5
  <2>3. /\ \A b \in Account : record'[b] \in {0, record[b]}
        /\ \A p \in {1, 2} : file'[p] \in {NoFile, file[p]}
        /\ orphans \subseteq orphans'
    BY <1>1, <1>2
  <2> QED BY <1>1, <1>9, <2>1, <2>2, <2>3, FewerHeld
<1>13. CheckedInv'
  BY <1>1, <1>10, CheckedFewer
<1>14. CodeInv'
  <2>1. \A r \in asked' : Examined(r) => \E q \in asked : Examined(q) /\ ((r = q /\ q.by # a) \/ (q.by = a /\ r = GivenUp(q)))
    BY <1>3, <1>4 DEF Examined
  <2>2. ~together => \A r, s \in asked' : Examined(r) /\ Examined(s) => r = s
    BY <2>1 DEF EnrolInv, CodeInv
  <2>3. ~together => \A r \in asked' : Examined(r) => codeRows = {}
    BY <2>1 DEF EnrolInv, CodeInv
  <2> QED BY <1>1, <2>2, <2>3 DEF EnrolInv, CodeInv, Examined
<1> QED BY <1>6, <1>7, <1>8, <1>9, <1>11, <1>12, <1>13, <1>14 DEF EnrolInv

\* An agent opens its file.  Nobody else is at the PC, and nothing is under way to it.
LEMMA StartsKept == ASSUME EnrolInv, NEW a \in Account, Starts(a) PROVE EnrolInv'
<1>1. /\ \A b \in Account : running[b] => pc[b] # pc[a]
      /\ running' = [running EXCEPT ![a] = TRUE]
      /\ attempt' = [attempt EXCEPT ![a]["startup"] = "due"]
      /\ Load(a)
      /\ UNCHANGED <<pc, withCode, name, barred, signInOpen, asked, devices, code, minted, orphans, codeRows,
                     together, shared, restored>>
  BY DEF Starts, pcVars, rowVars, pastVars
<1>2. ~running[a] /\ record[a] = 0 /\ pc[a] \in {1, 2} /\ \A e \in Entry : attempt[a][e] = "none"
  BY <1>1 DEF EnrolInv, DeskInv
<1>3. \A q \in asked : q.waited => running[q.by] /\ q.by # a /\ q.by \in Account /\ q.entry \in Entry
  BY <1>2 DEF EnrolInv, AskedInv, RequestOK
<1>4. "startup" \in Entry /\ "due" \in Places /\ "due" \in Idle /\ "due" \notin Owning
  BY DEF Entry, Places, Idle, Owning
<1>5. Placed(a, "startup", "due")
  BY <1>1, <1>4, PlaceSet
<1>6. \A b \in Account : running'[b] = IF b = a THEN TRUE ELSE running[b]
  BY <1>1 DEF EnrolInv, DeskInv
<1>7. PICK t \in Token : /\ record' = [record EXCEPT ![a] = t]
                         /\ \/ t = 0
                            \/ Readable(a) /\ SameBinding(pc[a]) /\ t = file[pc[a]].token /\ file' = file
                         /\ file' = file \/ file' = [file EXCEPT ![pc[a]] = NoFile]
  <2>1. file[pc[a]].token \in Token /\ 0 \in Token
    BY <1>2, EnrolConstants DEF EnrolInv, DevicesInv
  <2> QED BY <1>1, <2>1 DEF Load
<1>8. /\ \A b \in Account : record'[b] = IF b = a THEN t ELSE record[b]
      /\ \A p \in {1, 2} : file'[p] \in {NoFile, file[p]}
  BY <1>2, <1>7 DEF EnrolInv, DeskInv, DevicesInv
<1>9. DeskInv'
  <2>1. record' \in [Account -> Token] /\ running' \in [Account -> BOOLEAN]
        /\ attempt' \in [Account -> [Entry -> Places]]
    BY <1>1, <1>5, <1>7 DEF EnrolInv, DeskInv, Placed
  <2>2. \A b, c \in Account : running'[b] /\ running'[c] /\ pc[b] = pc[c] => b = c
    <3>1. \A b, c \in Account : running[b] /\ running[c] /\ pc[b] = pc[c] => b = c
      BY DEF EnrolInv, DeskInv
    <3> QED BY <1>1, <1>6, <3>1
  <2>3. \A b \in Account : ~running'[b] => record'[b] = 0 /\ \A e \in Entry : attempt'[b][e] = "none"
    <3>1. \A b \in Account : ~running[b] => record[b] = 0 /\ \A e \in Entry : attempt[b][e] = "none"
      BY DEF EnrolInv, DeskInv
    <3>2. \A b \in Account : ~running'[b] => b # a /\ ~running[b]
      BY <1>6
    <3>3. \A b \in Account : ~running'[b] => record'[b] = 0
      BY <1>8, <3>1, <3>2
    <3>4. \A b \in Account : ~running'[b] => \A e \in Entry : attempt'[b][e] = "none"
      BY <1>5, <3>1, <3>2 DEF Placed
    <3> QED BY <3>3, <3>4
  <2> QED BY <1>1, <2>1, <2>2, <2>3 DEF EnrolInv, DeskInv
<1>10. DevicesInv'
  <2>1. NoFile.token = 0
        /\ NoFile \in [token : Token, host : {<<0, 0>>} \cup ({1, 2} \X (0 .. 1)), by : Account \cup {NoOwner}]
    BY EnrolConstants DEF NoFile
  <2>2. file' \in [{1, 2} -> [token : Token, host : {<<0, 0>>} \cup ({1, 2} \X (0 .. 1)), by : Account \cup {NoOwner}]]
    BY <1>7, <2>1 DEF EnrolInv, DevicesInv
  <2>3. \A p \in {1, 2} : file'[p].token # 0 => file'[p] = file[p]
    BY <1>8, <2>1
  <2> QED BY <1>1, <2>2, <2>3 DEF EnrolInv, DevicesInv
<1>11. FlagInv'
  BY <1>1, <1>4, <1>5, FlagKept
<1>12. AskedInv'
  <2> SUFFICES ASSUME NEW q \in asked PROVE RequestOK(q)'
    BY <1>1 DEF AskedInv
  <2>1. RequestOK(q)
    BY DEF EnrolInv, AskedInv
  <2>2. q.waited => running'[q.by] /\ attempt'[q.by][q.entry] = attempt[q.by][q.entry]
    BY <1>3, <1>5, <1>6 DEF Placed
  <2> QED BY <1>1, <2>1, <2>2 DEF RequestOK, KeyOf
<1>13. WaitedInv'
  <2>1. ~shared' => \A b \in Account : \A f, g \in Entry :
                      f # g => attempt'[b][f] \in Idle \/ attempt'[b][g] \in Idle
    BY <1>1, <1>4, <1>5, AloneFrame
  <2>2. \A q \in asked : q.waited => record'[q.by] = record[q.by]
    BY <1>3, <1>8
  <2> QED BY <1>1, <2>1, <2>2 DEF EnrolInv, WaitedInv
<1>14. PlaceInv' /\ CurrentInv'
  <2>1. CASE t = 0
    <3>1. \A b \in Account : record'[b] \in {0, record[b]}
      BY <1>8, <2>1
    <3> QED BY <1>1, <1>8, <1>12, <3>1, FewerHeld
  <2>2. CASE Readable(a) /\ SameBinding(pc[a]) /\ t = file[pc[a]].token /\ file' = file
    <3>1. file[pc[a]].host[1] = pc[a]
      BY <2>2 DEF SameBinding
    <3>2. \A b \in Account : record'[b] <= minted'
      <4> TAKE b \in Account
      <4>1. record[b] <= minted /\ t <= minted /\ minted' = minted
        BY <1>1, <1>2, <2>2 DEF EnrolInv, PlaceInv
      <4> QED BY <1>8, <4>1
    <3>3. \A r \in asked : r.token # 0 => \A b \in Account : record'[b] # r.token
      BY <1>2, <1>8, <2>2 DEF EnrolInv, PlaceInv
    <3>4. \A b \in Account : t # 0 /\ record[b] = t => pc[b] = pc[a]
      BY <1>2, <2>2, <3>1 DEF EnrolInv, PlaceInv, Home
    <3>5. \A b, c \in Account : record'[b] # 0 /\ record'[b] = record'[c] => pc[b] = pc[c]
      <4>1. \A b, c \in Account : record[b] # 0 /\ record[b] = record[c] => pc[b] = pc[c]
        BY DEF EnrolInv, PlaceInv
      <4> QED BY <1>8, <3>4, <4>1
    <3>6. \A b \in Account, p \in {1, 2} : record'[b] # 0 /\ record'[b] = file[p].token => file[p].host[1] = pc[b]
      <4>1. \A b \in Account, p \in {1, 2} : record[b] # 0 /\ record[b] = file[p].token => file[p].host[1] = pc[b]
        BY DEF EnrolInv, PlaceInv, Home
      <4>2. \A p \in {1, 2} : t # 0 /\ t = file[p].token => file[p].host[1] = pc[a]
        BY <1>2, <2>2, <3>1 DEF EnrolInv, PlaceInv, Home
      <4> QED BY <1>8, <4>1, <4>2
    <3>7. PlaceInv'
      BY <1>1, <2>2, <3>2, <3>3, <3>5, <3>6 DEF EnrolInv, PlaceInv, Home
    <3>8. OnTheWay(a) = {}
      BY <1>2 DEF OnTheWay, EnrolInv, AskedInv, RequestOK
    <3>9. ~shared /\ ~restored => devices[KeyOf(a)].token \in {t} \cup orphans
      BY <2>2, <3>8 DEF EnrolInv, CurrentInv
    <3>10. ~shared /\ ~restored =>
             \A b \in Account : record'[b] # 0 => devices[KeyOf(b)].token \in {record'[b]} \cup orphans
      BY <1>8, <3>9 DEF EnrolInv, CurrentInv
    <3>11. CurrentInv'
      BY <1>1, <2>2, <3>10 DEF EnrolInv, CurrentInv, Readable, SameBinding, KeyOf, OnTheWay
    <3> QED BY <3>7, <3>11
  <2> QED BY <1>7, <2>1, <2>2
<1>15. CheckedInv' /\ CodeInv'
  BY <1>1, CheckedFewer, CodeFewer
<1> QED BY <1>9, <1>10, <1>11, <1>12, <1>13, <1>14, <1>15 DEF EnrolInv

\* What the office leaves alone.
OfficeFrame == UNCHANGED <<pc, withCode, running, record, barred, signInOpen, attempt, asked, minted,
                           orphans, codeRows, together, shared>>

LEMMA OfficeFramed ==
  ASSUME EnrolInv, OfficeFrame, name' \in [{1, 2} -> 0 .. 1]
  PROVE  DeskInv' /\ FlagInv' /\ WaitedInv'
BY DEF EnrolInv, DeskInv, FlagInv, WaitedInv, OfficeFrame

LEMMA RevokedKept ==
  ASSUME EnrolInv, OfficeFrame, NEW k \in Key, devices' = [devices EXCEPT ![k].active = FALSE],
         UNCHANGED <<name, file, code, restored>>
  PROVE  EnrolInv'
<1>1. /\ devices' \in [Key -> [owner : Staff \cup {NoOwner}, token : Token, active : BOOLEAN]]
      /\ \A m \in Key : /\ devices'[m].token = devices[m].token /\ devices'[m].owner = devices[m].owner
                        /\ devices'[m].active => devices[m].active
  BY DEF EnrolInv, DevicesInv
<1>2. DeskInv' /\ FlagInv' /\ WaitedInv'
  BY OfficeFramed DEF EnrolInv, DeskInv
<1> USE DEF OfficeFrame
<1>3. DevicesInv'
  BY <1>1 DEF EnrolInv, DevicesInv
<1>4. AskedInv'
  BY DEF EnrolInv, AskedInv, RequestOK, KeyOf
<1>5. PlaceInv' /\ CodeInv'
  BY DEF EnrolInv, PlaceInv, Home, CodeInv, Examined
<1>6. /\ \A q \in asked : q.row \in Key
      /\ \A a \in Account : KeyOf(a) \in Key /\ KeyOf(a)' = KeyOf(a)
  BY DEF EnrolInv, AskedInv, RequestOK, DeskInv, KeyOf, Key
<1>7. CurrentInv'
  BY <1>1, <1>6 DEF EnrolInv, CurrentInv, Readable, SameBinding, OnTheWay
<1>8. CheckedInv'
  BY <1>1, <1>6 DEF EnrolInv, CheckedInv, SomeoneElses
<1> QED BY <1>2, <1>3, <1>4, <1>5, <1>7, <1>8 DEF EnrolInv

LEMMA ExpiredKept ==
  ASSUME EnrolInv, OfficeFrame, code = "good", code' = "expired", UNCHANGED <<name, file, devices, restored>>
  PROVE  EnrolInv'
<1>1. DeskInv' /\ FlagInv' /\ WaitedInv'
  BY OfficeFramed DEF EnrolInv, DeskInv
<1> USE DEF OfficeFrame
<1>2. DevicesInv' /\ AskedInv' /\ PlaceInv'
  BY DEF EnrolInv, DevicesInv, AskedInv, RequestOK, KeyOf, PlaceInv, Home
<1>3. CurrentInv' /\ CheckedInv'
  BY DEF EnrolInv, CurrentInv, CheckedInv, Readable, SameBinding, OnTheWay, KeyOf, SomeoneElses
<1>4. CodeInv'
  BY DEF EnrolInv, CodeInv, Examined
<1> QED BY <1>1, <1>2, <1>3, <1>4 DEF EnrolInv

\* Nobody is at a PC that is renamed; a file written there names it otherwise.
LEMMA RenamedKept ==
  ASSUME EnrolInv, OfficeFrame, NEW p \in {1, 2}, \A a \in Account : running[a] => pc[a] # p,
         name[p] = 0, name' = [name EXCEPT ![p] = 1], UNCHANGED <<file, devices, code, restored>>
  PROVE  EnrolInv'
<1>1. /\ name' \in [{1, 2} -> 0 .. 1] /\ name'[p] = 1
      /\ \A r \in {1, 2} : r # p => name'[r] = name[r]
  BY DEF EnrolInv, DeskInv
<1>2. DeskInv' /\ FlagInv' /\ WaitedInv'
  BY <1>1, OfficeFramed
<1>3. \A a \in Account : pc[a] \in {1, 2}
  BY DEF EnrolInv, DeskInv
<1>4. \A a \in Account : running[a] \/ pc[a] # p => KeyOf(a)' = KeyOf(a)
  BY <1>1, <1>3 DEF KeyOf, OfficeFrame
<1> USE DEF OfficeFrame
<1>5. DevicesInv'
  BY <1>1 DEF EnrolInv, DevicesInv
<1>6. AskedInv'
  <2> SUFFICES ASSUME NEW q \in asked PROVE RequestOK(q)'
    BY DEF AskedInv
  <2>1. RequestOK(q)
    BY DEF EnrolInv, AskedInv
  <2>2. q.waited => KeyOf(q.by)' = KeyOf(q.by)
    BY <1>4, <2>1 DEF RequestOK
  <2> QED BY <2>1, <2>2 DEF RequestOK
<1>7. PlaceInv' /\ CheckedInv' /\ CodeInv'
  BY DEF EnrolInv, PlaceInv, Home, CheckedInv, SomeoneElses, CodeInv, Examined
<1>8. CurrentInv'
  <2>1. \A a \in Account : record[a] # 0 => KeyOf(a)' = KeyOf(a)
    BY <1>4 DEF EnrolInv, DeskInv
  <2>2. \A a \in Account : Readable(a)' /\ SameBinding(pc[a])'
                           => Readable(a) /\ SameBinding(pc[a]) /\ KeyOf(a)' = KeyOf(a)
    <3> SUFFICES ASSUME NEW a \in Account, Readable(a)', SameBinding(pc[a])'
                 PROVE  Readable(a) /\ SameBinding(pc[a]) /\ KeyOf(a)' = KeyOf(a)
      OBVIOUS
    <3>1. Readable(a) /\ file[pc[a]].token # 0 /\ file[pc[a]].host = <<pc[a], name'[pc[a]]>>
      BY DEF Readable, SameBinding
    <3>2. pc[a] # p
      <4> SUFFICES ASSUME pc[a] = p PROVE FALSE
        OBVIOUS
      <4>1. file[p].token # 0 /\ file[p].host[1] = p /\ file[p].host[2] = 1
        BY <1>1, <3>1
      <4> QED BY <4>1 DEF EnrolInv, DevicesInv
    <3> QED BY <1>1, <1>3, <1>4, <3>1, <3>2 DEF SameBinding
  <2> QED BY <2>1, <2>2 DEF EnrolInv, CurrentInv, OnTheWay
<1> QED BY <1>2, <1>5, <1>6, <1>7, <1>8 DEF EnrolInv

\* A copy of the file is where nobody is, and names the PC it is from.
LEMMA ClonedKept ==
  ASSUME EnrolInv, OfficeFrame, NEW a \in Account, NEW b \in Account,
         file' = [file EXCEPT ![pc[b]] = [token |-> file[pc[a]].token, host |-> file[pc[a]].host, by |-> b]],
         file[pc[a]].token # 0,
         restored' = (restored \/ file[pc[a]].host[1] = pc[b]), UNCHANGED <<name, devices, code>>
  PROVE  EnrolInv'
<1> DEFINE f == [token |-> file[pc[a]].token, host |-> file[pc[a]].host, by |-> b]
<1>1. pc[a] \in {1, 2} /\ pc[b] \in {1, 2}
  BY DEF EnrolInv, DeskInv
<1>2. file[pc[a]] \in [token : Token, host : {<<0, 0>>} \cup ({1, 2} \X (0 .. 1)), by : Account \cup {NoOwner}]
  BY <1>1 DEF EnrolInv, DevicesInv
<1>3. /\ f.token = file[pc[a]].token /\ f.host = file[pc[a]].host
      /\ f \in [token : Token, host : {<<0, 0>>} \cup ({1, 2} \X (0 .. 1)), by : Account \cup {NoOwner}]
  BY <1>2
<1>4. file' = [file EXCEPT ![pc[b]] = f]
  OBVIOUS
<1> HIDE DEF f
<1>5. \A p \in {1, 2} : file'[p] = IF p = pc[b] THEN f ELSE file[p]
  BY <1>1, <1>4 DEF EnrolInv, DevicesInv
<1>6. DeskInv' /\ FlagInv' /\ WaitedInv'
  BY OfficeFramed DEF EnrolInv, DeskInv
<1> USE DEF OfficeFrame
<1>7. DevicesInv'
  <2>1. file' \in [{1, 2} -> [token : Token, host : {<<0, 0>>} \cup ({1, 2} \X (0 .. 1)), by : Account \cup {NoOwner}]]
    <3>1. file \in [{1, 2} -> [token : Token, host : {<<0, 0>>} \cup ({1, 2} \X (0 .. 1)), by : Account \cup {NoOwner}]]
      BY DEF EnrolInv, DevicesInv
    <3> DEFINE S == [token : Token, host : {<<0, 0>>} \cup ({1, 2} \X (0 .. 1)), by : Account \cup {NoOwner}]
    <3>2. f \in S /\ file \in [{1, 2} -> S]
      BY <1>3, <3>1
    <3> HIDE DEF S
    <3>3. file' \in [{1, 2} -> S]
      BY <1>4, <3>2
    <3> QED BY <3>3 DEF S
  <2>2. \A p \in {1, 2} : file'[p].token # 0 => /\ file'[p].host \in {1, 2} \X (0 .. 1)
                                                /\ name[file'[p].host[1]] = 0 => file'[p].host[2] = 0
    BY <1>1, <1>3, <1>5 DEF EnrolInv, DevicesInv
  <2>3. restored' \in BOOLEAN
    BY DEF EnrolInv, DevicesInv
  <2> QED BY <2>1, <2>2, <2>3 DEF EnrolInv, DevicesInv
<1>8. AskedInv' /\ CheckedInv' /\ CodeInv'
  BY DEF EnrolInv, AskedInv, RequestOK, KeyOf, CheckedInv, SomeoneElses, CodeInv, Examined
\* Every file has the token and the binding of one there was.
<1>9. \A p \in {1, 2} : \E r \in {1, 2} : file'[p].token = file[r].token /\ file'[p].host = file[r].host
  BY <1>1, <1>3, <1>5
<1>10. PlaceInv'
  <2>1. \A p \in {1, 2} : file'[p].token <= minted
    BY <1>9 DEF EnrolInv, PlaceInv
  <2>2. \A q \in asked : q.token # 0 => \A p \in {1, 2} : file'[p].token # q.token
    BY <1>9 DEF EnrolInv, PlaceInv
  <2>3. \A c \in Account, p \in {1, 2} : record[c] # 0 /\ record[c] = file'[p].token => file'[p].host[1] = pc[c]
    BY <1>9 DEF EnrolInv, PlaceInv, Home
  <2>4. \A p, r \in {1, 2} : file'[p].token # 0 /\ file'[p].token = file'[r].token
                               => file'[p].host[1] = file'[r].host[1]
    BY <1>9 DEF EnrolInv, PlaceInv, Home
  <2> QED BY <2>1, <2>2, <2>3, <2>4 DEF EnrolInv, PlaceInv, Home
<1>11. CurrentInv'
  <2>1. ~restored' => \A c \in Account : Readable(c)' /\ SameBinding(pc[c])'
                        => Readable(c) /\ SameBinding(pc[c]) /\ file'[pc[c]] = file[pc[c]]
    <3> SUFFICES ASSUME ~restored', NEW c \in Account, Readable(c)', SameBinding(pc[c])'
                 PROVE  Readable(c) /\ SameBinding(pc[c]) /\ file'[pc[c]] = file[pc[c]]
      OBVIOUS
    <3>1. pc[c] \in {1, 2} /\ file'[pc[c]].host[1] = pc[c]
      BY DEF EnrolInv, DeskInv, SameBinding
    <3>2. pc[c] # pc[b]
      BY <1>3, <1>5, <3>1
    <3> QED BY <1>5, <3>1, <3>2 DEF Readable, SameBinding
  <2>2. ~restored' => ~restored
    BY DEF EnrolInv, DevicesInv
  <2> QED BY <2>1, <2>2 DEF EnrolInv, CurrentInv, OnTheWay, KeyOf
<1> QED BY <1>6, <1>7, <1>8, <1>10, <1>11 DEF EnrolInv

LEMMA OfficeKept == ASSUME EnrolInv, OfficeActs, OfficeFrame PROVE EnrolInv'
<1>1. CASE \E k \in Key : /\ devices' = [devices EXCEPT ![k].active = FALSE]
                          /\ UNCHANGED <<name, file, code, restored>>
  BY <1>1, RevokedKept
<1>2. CASE code = "good" /\ code' = "expired" /\ UNCHANGED <<name, file, devices, restored>>
  BY <1>2, ExpiredKept
<1>3. CASE \E p \in {1, 2} : /\ \A a \in Account : running[a] => pc[a] # p
                             /\ name[p] = 0 /\ name' = [name EXCEPT ![p] = 1]
                             /\ UNCHANGED <<file, devices, code, restored>>
  BY <1>3, RenamedKept
<1>4. CASE \E a, b \in Account :
             /\ file[pc[a]].token # 0
             /\ file' = [file EXCEPT ![pc[b]] = [token |-> file[pc[a]].token, host |-> file[pc[a]].host, by |-> b]]
             /\ restored' = (restored \/ file[pc[a]].host[1] = pc[b])
             /\ UNCHANGED <<name, devices, code>>
  BY <1>4, ClonedKept
<1> QED BY <1>1, <1>2, <1>3, <1>4 DEF OfficeActs

LEMMA EnrolStep == EnrolInv /\ [EnrolNext]_enrolVars => EnrolInv'
<1> SUFFICES ASSUME EnrolInv, [EnrolNext]_enrolVars PROVE EnrolInv'
  OBVIOUS
<1>1. CASE \E a \in Account : Starts(a) \/ GivesUp(a) \/ Leaves(a) \/ Dies(a)
  BY <1>1, StartsKept, GivesUpKept, LeavesKept, DiesKept
<1>2. CASE \E a \in Account, e \in Entry : Begins(a, e) \/ Closes(a, e) \/ Forgotten(a, e) \/ Requests(a, e)
  BY <1>2, BeginsKept, ClosesKept, ForgottenKept, RequestsKept
<1>3. CASE \E q \in asked : Hears(q) \/ TimesOut(q) \/ Looks(q) \/ Checks(q) \/ Binds(q) \/ Forgets(q)
  BY <1>3, HearsKept, TimesOutKept, LooksKept, ChecksKept, BindsKept, ForgetsKept
<1>4. CASE OfficeActs /\ OfficeFrame
  BY <1>4, OfficeKept
<1>5. CASE UNCHANGED enrolVars
  <2> USE <1>5 DEF enrolVars, pcVars, agentVars, rowVars, pastVars
  <2>1. DeskInv' /\ FlagInv' /\ DevicesInv'
    BY DEF EnrolInv, DeskInv, FlagInv, DevicesInv
  <2>2. AskedInv' /\ WaitedInv'
    BY DEF EnrolInv, AskedInv, RequestOK, KeyOf, WaitedInv
  <2>3. PlaceInv' /\ CodeInv' /\ CheckedInv'
    BY DEF EnrolInv, PlaceInv, Home, CodeInv, Examined, CheckedInv, SomeoneElses
  <2>4. CurrentInv'
    BY DEF EnrolInv, CurrentInv, Readable, SameBinding, OnTheWay, KeyOf
  <2> QED BY <2>1, <2>2, <2>3, <2>4 DEF EnrolInv
<1> QED BY <1>1, <1>2, <1>3, <1>4, <1>5 DEF EnrolNext, OfficeFrame

\* A token of an agent is on no other PC, and one agent at a time is on a PC.
LEMMA HeldByOne == EnrolInv => OneHolder
<1> SUFFICES ASSUME EnrolInv, NEW a \in Account, NEW b \in Account, a # b, record[a] # 0, record[a] = record[b]
             PROVE  FALSE
  BY DEF OneHolder
<1>1. running[a] /\ running[b]
  BY DEF EnrolInv, DeskInv
<1>2. pc[a] = pc[b]
  BY DEF EnrolInv, PlaceInv
<1> QED BY <1>1, <1>2 DEF EnrolInv, DeskInv

LEMMA CodeBindsOne == EnrolInv => CodeOnce
<1> SUFFICES ASSUME EnrolInv, ~together PROVE Cardinality(codeRows) <= 1
  BY DEF CodeOnce
<1>1. CASE codeRows = {}
  BY <1>1, FS_EmptySet
<1>2. CASE \E k \in Key : codeRows = {k}
  <2>1. PICK k \in Key : codeRows = {k}
    BY <1>2
  <2>2. Cardinality({k}) = 1
    BY FS_Singleton
  <2> QED BY <2>1, <2>2
<1> QED BY <1>1, <1>2 DEF EnrolInv, CodeInv

\* Only the binding gives a device to somebody.
LEMMA HandedOverStep == EnrolInv /\ [EnrolNext]_enrolVars => HandedOver
<1> SUFFICES ASSUME EnrolInv, [EnrolNext]_enrolVars, NEW k \in Key,
                    devices[k].active, devices'[k].owner # devices[k].owner
             PROVE  devices[k].token \in orphans \/ devices'[k].token \in orphans' \/ shared
  BY DEF HandedOver
<1>1. CASE \E a \in Account : Starts(a) \/ GivesUp(a) \/ Leaves(a) \/ Dies(a)
  BY <1>1 DEF Starts, GivesUp, Leaves, Dies, rowVars
<1>2. CASE \E a \in Account, e \in Entry : Begins(a, e) \/ Closes(a, e) \/ Forgotten(a, e) \/ Requests(a, e)
  BY <1>2 DEF Begins, Closes, Forgotten, Requests, rowVars
<1>3. CASE \E q \in asked : Hears(q) \/ TimesOut(q) \/ Looks(q) \/ Checks(q) \/ Forgets(q)
  BY <1>3 DEF Hears, TimesOut, Looks, Checks, Forgets, rowVars
<1>4. CASE \E q \in asked : Binds(q)
  <2>1. PICK q \in asked : Binds(q)
    BY <1>4
  <2>2. /\ q.step = "checked" /\ devices' = [devices EXCEPT ![q.row] = BoundRow(q)]
        /\ minted' = minted + 1
        /\ orphans' = IF q.waited THEN orphans ELSE orphans \cup {minted'}
    BY <2>1 DEF Binds
  <2>3. q.row \in Key /\ q.waited \in BOOLEAN
    BY DEF EnrolInv, AskedInv, RequestOK
  <2>4. k = q.row /\ devices'[k] = [owner |-> q.who, active |-> TRUE, token |-> minted']
    BY <2>2, <2>3 DEF EnrolInv, DevicesInv, BoundRow
  <2>5. SomeoneElses(q)
    BY <2>4 DEF SomeoneElses
  <2>6. CASE q.waited
    BY <2>2, <2>4, <2>5, <2>6 DEF EnrolInv, CheckedInv
  <2>7. CASE ~q.waited
    BY <2>2, <2>4, <2>7
  <2> QED BY <2>3, <2>6, <2>7
<1>5. CASE OfficeActs
  <2>1. devices' = devices \/ \E m \in Key : devices' = [devices EXCEPT ![m].active = FALSE]
    BY <1>5 DEF OfficeActs
  <2>2. devices'[k].owner = devices[k].owner
    BY <2>1 DEF EnrolInv, DevicesInv
  <2> QED BY <2>2
<1>6. CASE UNCHANGED enrolVars
  BY <1>6 DEF enrolVars, rowVars
<1> QED BY <1>1, <1>2, <1>3, <1>4, <1>5, <1>6 DEF EnrolNext

\* The shapes of device.dat, the credentials and the devices, whatever agents, windows,
\* requests and the office do; and the flag of the sign-in is up while an attempt has it.
THEOREM EnrolmentTyped == EnrolSpec => []EnrolTypeOK
<1>1. EnrolInv => EnrolTypeOK
  <2> SUFFICES ASSUME EnrolInv PROVE EnrolTypeOK
    OBVIOUS
  <2>1. \A a \in Account : (\E e \in Entry : attempt[a][e] \in {"code", "form", "asks code", "asks form"})
                           => signInOpen[a]
    BY DEF EnrolInv, FlagInv, Owning
  <2> QED BY <2>1 DEF EnrolInv, DeskInv, DevicesInv, EnrolTypeOK
<1> QED BY <1>1, EnrolStart, EnrolStep, PTL DEF EnrolSpec

\* What the enrolment promises (enrollment.service.ts:136-162, DeviceTokenStore.cs:197-209):
\* the token an agent uses is the one the server knows for it, no two agents use one token,
\* a code binds one device, and no device in use is taken over unasked.
THEOREM WhoseTokenItIs == EnrolSpec => EnrolmentSound
<1>1. EnrolInv => TokenCurrent /\ OneHolder /\ CodeOnce
  <2>1. EnrolInv => TokenCurrent
    BY DEF EnrolInv, CurrentInv, TokenCurrent
  <2> QED BY <2>1, HeldByOne, CodeBindsOne
<1>2. EnrolInv /\ [EnrolNext]_enrolVars => [HandedOver]_enrolVars
  BY HandedOverStep
<1> QED BY <1>1, <1>2, EnrolStart, EnrolStep, PTL DEF EnrolSpec, EnrolmentSound

-----------------------------------------------------------------------------
\* Side by side.

LEMMA OneActsInOffice ==
  [OfficeNext]_officeVars =>
    /\ [CaptureNext]_captureVars /\ [AppNext]_appVars /\ [UrlNext]_urlVars
    /\ [IdleNext]_idleVars /\ [EnrolNext]_enrolVars
<1> SUFFICES ASSUME [OfficeNext]_officeVars
             PROVE  /\ [CaptureNext]_captureVars /\ [AppNext]_appVars /\ [UrlNext]_urlVars
                    /\ [IdleNext]_idleVars /\ [EnrolNext]_enrolVars
  OBVIOUS
<1>1. CASE UNCHANGED officeVars
  BY <1>1 DEF officeVars
<1>2. CASE Only("capture", CaptureNext)
  BY <1>2 DEF Only
<1>3. CASE Only("apps", AppNext)
  BY <1>3 DEF Only
<1>4. CASE Only("urls", UrlNext)
  BY <1>4 DEF Only
<1>5. CASE Only("idle", IdleNext)
  BY <1>5 DEF Only
<1>6. CASE Only("enrol", EnrolNext)
  BY <1>6 DEF Only
<1> QED
  BY <1>1, <1>2, <1>3, <1>4, <1>5, <1>6 DEF OfficeNext

\* What the components do side by side is what each of them does: all that is proved of the
\* camera, the applications, the pages, the tabs and the enrolment holds of the office.
THEOREM OfficeSideBySide ==
  OfficeSpec => CaptureSpec /\ AppSpec /\ UrlSpec /\ IdleSpec /\ EnrolSpec
<1>1. OfficeInit => CaptureInit /\ AppInit /\ UrlInit /\ IdleInit /\ EnrolInit
  BY DEF OfficeInit
<1> QED
  BY <1>1, OneActsInOffice, PTL
  DEF OfficeSpec, CaptureSpec, AppSpec, UrlSpec, IdleSpec, EnrolSpec

\* The shapes of the components that keep to themselves.
THEOREM OfficeTyped == OfficeSpec => []OfficeTypeOK
<1>1. CaptureTypeOK /\ AppTypeOK /\ UrlTypeOK /\ IdleTypeOK /\ EnrolTypeOK => OfficeTypeOK
  BY DEF OfficeTypeOK
<1> QED
  BY <1>1, OfficeSideBySide, NoSpinning, AppsTyped, OneRequest, TabsTyped, EnrolmentTyped, PTL
=============================================================================
