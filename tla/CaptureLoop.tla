---------------------------- MODULE CaptureLoop ----------------------------
(***************************************************************************)
(* The loop of the agent that owns the camera (AgentHost.CaptureLoopAsync):*)
(* it wakes for the next screenshot slot or for the next fingerprint of    *)
(* the screen, whichever comes first.  The fingerprints decide whether the *)
(* screen is frozen (ScreenActivity), which makes the tracker count idle   *)
(* time however much input there is, and how soon the next one is taken.   *)
(*                                                                         *)
(* A unit of time is the short interval, ScreenSampling.WhenFrozen.  The   *)
(* clock of the fingerprints and the wall clock of the slots appear as     *)
(* ages and remaining times, kept up to the largest one told apart.        *)
(***************************************************************************)
EXTENDS Integers

CONSTANTS
  Interval,       \* ScreenSampling.Interval
  StaleAfter,     \* ScreenActivity.StaleAfter
  FrozenAfter,    \* ScreenActivity.FrozenAfter
  SlotLength,
  FailuresBeforeCooldown, Cooldown   \* EngineFallbackPolicy

ASSUME SamplingAssumption == /\ Interval \in Nat \ {0, 1} /\ StaleAfter \in Nat
                             /\ FrozenAfter \in Nat /\ Interval < StaleAfter /\ StaleAfter < FrozenAfter
ASSUME SlotAssumption     == /\ SlotLength \in Nat \ {0, 1}
                             /\ FailuresBeforeCooldown \in Nat \ {0} /\ Cooldown \in Nat

VARIABLES
  allowed,      \* may pictures be taken: signed in, not revoked, within the hours
  locked,    \* the Windows session is locked
  engine,    \* what the primary engine would do: "works", "fault", "nothing"
  spare,     \* does the fallback engine work?
  policy,    \* EngineFallbackPolicy: failures in a row, and the rest left
  touched,   \* the screen has changed since the last fingerprint
  activity,  \* ScreenActivity: ages of the last fingerprint and of the last change
  tried,     \* the age of _screenSampledAt, Never before the first
  wait,      \* what is left of Task.Delay
  spins,     \* how often the loop woke in this unit and found nothing to do
  phase,     \* the wall clock within its slot
  next,      \* the slot to come: how many slots ahead, and the moment in it
  fired,     \* how often the present slot has been fired
  busy, still  \* history: for how long the screen has kept changing, or kept still

worldVars  == <<allowed, locked, engine, spare>>
cameraVars == <<policy, touched, activity, tried>>
slotVars   == <<phase, next, fired>>
captureVars == <<worldVars, cameraVars, wait, spins, slotVars, busy, still>>

Never  == -1
Unseen == [sampled |-> Never, changed |-> Never]
Later(age, max) == IF age = Never THEN Never ELSE IF age < max THEN age + 1 ELSE max
Lesser(a, b)    == IF a < b THEN a ELSE b

(***************************************************************************)
(* The rules.                                                              *)
(***************************************************************************)
\* Mutant: what was last seen counts, however old it is.
FrozenOnceSeen == activity # Unseen /\ activity.changed >= FrozenAfter

\* IsFrozen: without a fingerprint, or with a stale one, nobody is suspected.
IsFrozen == /\ activity # Unseen
            /\ activity.sampled <= StaleAfter
            /\ activity.changed >= FrozenAfter

\* The tracker counts work only then; input comes from a jiggler, too.
Working == ~locked /\ ~IsFrozen

\* ScreenSampling.Allowed.
CanSample == allowed /\ ~locked

\* ScreenSampling.Due.
Due == tried = Never \/ tried >= IF IsFrozen THEN 1 ELSE Interval

\* Mutant: nothing to be done means at once again.
UntilSampleSpinning == IF tried = Never \/ tried >= Interval \/ (IsFrozen /\ tried >= 1) THEN 0
                       ELSE IF IsFrozen THEN 1 - tried ELSE Interval - tried

\* UntilNextScreenSample.
UntilSample == IF ~CanSample THEN Interval ELSE UntilSampleSpinning

(***************************************************************************)
(* A picture, FallbackCapturer.Capture: the primary engine unless it       *)
(* rests, and else the other one.                                          *)
(***************************************************************************)
Rested       == policy.rest = 0
TriesPrimary == policy.rest <= 0
\* The counter starts over when the rest ends.
Failures     == IF Rested THEN 0 ELSE policy.failures

AfterCapture ==
  IF ~TriesPrimary THEN policy ELSE
  CASE engine = "works"  -> [failures |-> 0, rest |-> Never]
    [] engine = "fault"  -> IF Failures + 1 >= FailuresBeforeCooldown
                            THEN [failures |-> Failures + 1, rest |-> Cooldown]
                            ELSE [failures |-> Failures + 1, rest |-> Never]
    [] OTHER             -> [failures |-> Failures, rest |-> Never]

GetsFrame == (TriesPrimary /\ engine = "works") \/ spare

(***************************************************************************)
(* The loop.                                                               *)
(***************************************************************************)
Samples == CanSample /\ Due

\* SampleScreen and ScreenActivity.Observe.
Sample ==
  IF ~Samples THEN UNCHANGED <<activity, touched, tried>>
  ELSE /\ tried' = 0
       /\ IF ~GetsFrame THEN UNCHANGED <<activity, touched>>
          ELSE /\ activity' = [sampled |-> 0,
                               changed |-> IF activity = Unseen \/ touched THEN 0 ELSE activity.changed]
               /\ touched' = FALSE

SlotDue == next.ahead = 0 /\ next.at <= phase

\* Mutant: the slot may be the one just fired.
SameSlot  == [ahead : {0}, at : {0}]
\* SlotScheduler.Next: a random moment of the slot after the present one.
NextSlots == [ahead : {1}, at : 0 .. SlotLength - 1]

\* CaptureSlotAsync asks the gate (and takes pictures, which module Screenshots follows).
Fires == SlotDue
Takes == Fires /\ allowed /\ Working

UntilSlot(n) == n.ahead * SlotLength + n.at - phase

Wake ==
  /\ wait = 0
  /\ UNCHANGED <<worldVars, phase, busy, still>>
  /\ Sample
  /\ IF Fires THEN next' \in NextSlots /\ fired' = fired + 1
              ELSE UNCHANGED <<next, fired>>
  /\ policy' = IF Samples \/ Takes THEN AfterCapture ELSE policy
  /\ wait' = Lesser(UntilSample', UntilSlot(next'))
  /\ spins' = IF Samples \/ Fires THEN spins ELSE Lesser(spins + 1, 2)

(***************************************************************************)
(* The world: time passes while the loop sleeps, and the screen changes or *)
(* does not; people lock and unlock, sign in and out, the hours begin and  *)
(* end, and engines fail and recover.                                      *)
(***************************************************************************)
Watched == CanSample /\ spare

Sleeps(moved) ==
  /\ wait > 0 /\ wait' = wait - 1
  /\ touched' = (touched \/ moved)
  /\ activity' = [sampled |-> Later(activity.sampled, StaleAfter + 1),
                  changed |-> Later(activity.changed, FrozenAfter)]
  /\ tried' = Later(tried, Interval)
  /\ policy' = [policy EXCEPT !.rest = IF @ > 0 THEN @ - 1 ELSE @]
  /\ busy' = IF ~moved \/ locked THEN [for |-> 0, seen |-> TRUE]
             ELSE [for |-> Lesser(busy.for + 1, StaleAfter + 2), seen |-> busy.seen /\ Watched]
  /\ still' = IF moved \/ ~Watched THEN 0 ELSE Lesser(still + 1, FrozenAfter + 2 * Interval)
  /\ spins' = 0
  /\ LET wrap == phase = SlotLength - 1
     IN  /\ phase' = IF wrap THEN 0 ELSE phase + 1
         /\ next'  = IF wrap THEN [next EXCEPT !.ahead = @ - 1] ELSE next
         /\ fired' = IF wrap THEN 0 ELSE fired
  /\ UNCHANGED worldVars

Desk ==
  /\ \/ allowed' = ~allowed /\ UNCHANGED <<locked, engine, spare>>
     \/ locked' = ~locked /\ UNCHANGED <<allowed, engine, spare>>
     \/ engine' \in {"works", "fault", "nothing"} \ {engine} /\ UNCHANGED <<allowed, locked, spare>>
     \/ spare' = ~spare /\ UNCHANGED <<allowed, locked, engine>>
  /\ busy' = [for |-> IF locked' THEN 0 ELSE busy.for, seen |-> busy.seen /\ Watched']
  /\ still' = IF Watched' THEN still ELSE 0
  /\ UNCHANGED <<cameraVars, wait, spins, slotVars>>

(***************************************************************************)
(* Specification.                                                          *)
(***************************************************************************)
CaptureInit ==
  /\ allowed = FALSE /\ locked \in BOOLEAN /\ engine = "works" /\ spare = TRUE
  /\ policy = [failures |-> 0, rest |-> Never]
  /\ touched = FALSE /\ activity = Unseen /\ tried = Never
  /\ wait = 0 /\ spins = 0
  /\ phase = 0 /\ next \in NextSlots /\ fired = 1
  /\ busy = [for |-> 0, seen |-> TRUE] /\ still = 0

CaptureNext == Wake \/ Desk \/ \E moved \in BOOLEAN : Sleeps(moved)

CaptureSpec == CaptureInit /\ [][CaptureNext]_captureVars

(***************************************************************************)
(* Properties.                                                             *)
(***************************************************************************)
\* The shapes; and a loop with nothing to do sleeps, instead of taking a core
\* to itself (AgentHost.cs:632-649).
CaptureTypeOK ==
  /\ {allowed, locked, spare, touched} \subseteq BOOLEAN /\ engine \in {"works", "fault", "nothing"}
  /\ policy \in [failures : 0 .. FailuresBeforeCooldown, rest : Never .. Cooldown]
  /\ activity \in [sampled : Never .. StaleAfter + 1, changed : Never .. FrozenAfter]
  /\ tried \in Never .. Interval /\ wait \in 0 .. Interval
  /\ phase \in 0 .. SlotLength - 1 /\ next \in [ahead : {0, 1}, at : 0 .. SlotLength - 1]
  /\ spins <= 1

\* Somebody whose screen changes is suspected for no longer than one interval of
\* fingerprints, and, when there are none, until the last one is stale: the
\* suspicion never keeps itself alive (ScreenSampling.cs:5-23, ScreenActivity.cs:65-85).
HonestSpared == IsFrozen => /\ busy.for <= StaleAfter
                            /\ busy.seen => busy.for <= Interval

\* And a screen that is watched and does not change is found out.
JigglerCaught == still >= FrozenAfter + 2 * Interval => IsFrozen

\* Every slot is fired once, whatever the loop wakes for in between.
SlotsOnce == fired <= 1 /\ (phase = SlotLength - 1 /\ wait > 0 => fired = 1)

LoopSound == HonestSpared /\ JigglerCaught /\ SlotsOnce
=============================================================================
