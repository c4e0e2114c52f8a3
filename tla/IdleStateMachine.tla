-------------------------- MODULE IdleStateMachine --------------------------
(***************************************************************************)
(* The agent's idle state machine (oXeio.Core/Tracking/IdleStateMachine).  *)
(*                                                                         *)
(* One object that turns a second-by-second sample into activity segments. *)
(* Every method runs under the object's lock, so a method is one action;   *)
(* which thread calls it, in which order and with how old a clock value is *)
(* left entirely open here: Next lets any method be called with any        *)
(* instant, earlier ones included. AgentHost says what the three real      *)
(* threads do with it and is checked to be one of these callers.           *)
(*                                                                         *)
(* Instants are integers in Dhaka-local time, so a midnight is a multiple  *)
(* of DayLength. The busy score of a segment is left out.                  *)
(***************************************************************************)
EXTENDS Integers

CONSTANTS
  Instant,      \* the instants a caller may pass
  StartedAt,    \* when the machine was created
  QuietTime,    \* how long ago the last input may have been
  Thresholds,   \* the idle thresholds the configuration may hold
  MaxSegment,   \* the longest a segment may stay open
  DayLength     \* from one midnight to the next

ASSUME InstantAssumption   == Instant \subseteq Int /\ StartedAt \in Int
ASSUME ThresholdAssumption == Thresholds \subseteq Nat \ {0} /\ QuietTime \subseteq Nat
ASSUME LengthAssumption    == MaxSegment \in Nat \ {0} /\ DayLength \in Nat \ {0}

VARIABLES
  state,     \* the state of the open segment
  openedAt,  \* when it was opened
  emitted    \* history: every segment the machine has closed and returned

machineVars == <<state, openedAt, emitted>>

State   == {"Active", "Idle", "Locked"}
Segment == [state : State, from : Int, to : Int]

-----------------------------------------------------------------------------

IsMidnight(t) == t % DayLength = 0
Midnights(a, b) == {t \in a .. b : IsMidnight(t)}

\* The greatest element of a set of integers, as a set of at most one element.
Greatest(S) == {x \in S : \A y \in S : y <= x}

Later(a, b) == IF a < b THEN b ELSE a

\* The stretch from a to b cut at the given points, every piece in state s.
Points(a, b, cuts) == {a, b} \cup {c \in cuts : a < c /\ c < b}
Adjacent(pts, x, y) == x < y /\ \A z \in pts : z <= x \/ y <= z
Pieces(s, a, b, cuts) ==
  {sg \in [state : {s}, from : Points(a, b, cuts), to : Points(a, b, cuts)] :
     Adjacent(Points(a, b, cuts), sg.from, sg.to)}

\* Mutants: the midnights forgotten; a segment too short to matter dropped.
EmitAcrossMidnight(s, from, to) == IF to <= from THEN {} ELSE Pieces(s, from, to, {})
EmitUnlessTiny(s, from, to) ==
  IF to <= from + 1 THEN {} ELSE Pieces(s, from, to, Midnights(from, to))

\* A segment never spans two work dates: it is split at each midnight inside.
EmitSegment(s, from, to) ==
  IF to <= from THEN {} ELSE Pieces(s, from, to, Midnights(from, to))

\* Mutant: the instant the caller passes is trusted (the first form of G160).
ReopenInPast(next, at) ==
  /\ emitted'  = emitted \cup EmitSegment(state, openedAt, at)
  /\ state'    = next
  /\ openedAt' = at

EmitAndReopen(next, at) ==
  LET end == Later(at, openedAt) IN
  /\ emitted'  = emitted \cup EmitSegment(state, openedAt, end)
  /\ state'    = next
  /\ openedAt' = end

-----------------------------------------------------------------------------

\* Mutants: a segment may stay open for ever; a split sends off the last threshold too.
NoLongCuts(m, now, thr) == {m}
CutsToNow(m, now, thr) == {m} \cup {t \in m .. now : (t - m) % MaxSegment = 0}

\* The cut points of SplitAtMidnights and, after the last midnight, of
\* SplitLongSegments, which never cuts inside the last thr before now.
MidnightCuts(now)     == {openedAt} \cup Midnights(openedAt, now)
LongCuts(m, now, thr) == {m} \cup {t \in m .. (now - thr) : (t - m) % MaxSegment = 0}

\* Mutants: a fourth state nobody knows; idle counted from the tick that notices it.
WantedAway(thr, since, locked, frozen) ==
  IF locked THEN "Locked"
  ELSE IF frozen THEN "Frozen"
  ELSE IF since >= thr THEN "Idle" ELSE "Active"
ChangeNow(thr, now, since, next) == now

\* The state a tick asks for, and the instant its segment starts at.
Wanted(thr, since, locked, frozen) ==
  IF locked THEN "Locked"
  ELSE IF since >= thr \/ frozen THEN "Idle" ELSE "Active"

ChangeAt(thr, now, since, next) ==
  IF state = "Active" /\ next = "Idle" /\ since >= thr THEN now - thr ELSE now

Tick(thr, now, since, locked, frozen) ==
  LET next == Wanted(thr, since, locked, frozen) IN
  /\ state' = next
  /\ \E m \in Greatest(MidnightCuts(now)) : \E b \in Greatest(LongCuts(m, now, thr)) :
       LET cuts == MidnightCuts(now) \cup LongCuts(m, now, thr)
           end  == IF next = state THEN b
                   ELSE Later(ChangeAt(thr, now, since, next), b)
       IN /\ openedAt' = end
          /\ emitted' = emitted \cup Pieces(state, openedAt, b, cuts)
                                \cup EmitSegment(state, b, end)

OnSuspend(at) ==
  IF state = "Locked" THEN UNCHANGED machineVars ELSE EmitAndReopen("Locked", at)

OnResume(at) == EmitAndReopen("Idle", at)

CloseAll(at) ==
  /\ emitted'  = emitted \cup EmitSegment(state, openedAt, at)
  /\ openedAt' = Later(at, openedAt)
  /\ UNCHANGED state

-----------------------------------------------------------------------------

Init ==
  /\ state \in {"Active", "Locked"}
  /\ openedAt = StartedAt
  /\ emitted = {}

Next ==
  \/ \E thr \in Thresholds, now \in Instant, since \in QuietTime, locked, frozen \in BOOLEAN :
       Tick(thr, now, since, locked, frozen)
  \/ \E at \in Instant : OnSuspend(at)
  \/ \E at \in Instant : OnResume(at)
  \/ \E at \in Instant : CloseAll(at)

Spec == Init /\ [][Next]_machineVars

-----------------------------------------------------------------------------

TypeOK ==
  /\ state \in State
  /\ openedAt \in Int
  /\ emitted \subseteq Segment

(***************************************************************************)
(* G160: no instant is in two segments. The server removes duplicates by   *)
(* uuid only, so a second segment over the same time is paid twice.        *)
(***************************************************************************)
Apart(s, t) == s.to <= t.from \/ t.to <= s.from
NoOverlap == \A s, t \in emitted : s # t => Apart(s, t)

(***************************************************************************)
(* Every segment is non-empty and over before the open one began: what has *)
(* been returned to the caller is final, whatever instants it passes next. *)
(***************************************************************************)
ClosedBeforeOpen == \A s \in emitted : s.from < s.to /\ s.to <= openedAt

(***************************************************************************)
(* No segment spans two work dates, by whichever of the two splits it was  *)
(* made: the server files a segment under the date of its start.           *)
(***************************************************************************)
OneWorkDate ==
  \A s \in emitted : \A t \in s.from .. s.to :
    IsMidnight(t) => t = s.from \/ t = s.to

(***************************************************************************)
(* The segments leave no hole: each one begins where the machine started   *)
(* or where another one ended, and so does the open one.                   *)
(***************************************************************************)
Reached(i) == i = StartedAt \/ \E s \in emitted : s.to = i
NoHole == Reached(openedAt) /\ \A s \in emitted : Reached(s.from)

(***************************************************************************)
(* Together: the segments tile the time from the start of the machine to   *)
(* the open segment, whatever instants the callers pass (G160).            *)
(***************************************************************************)
Tiled == NoOverlap /\ NoHole
=============================================================================
