----------------------- MODULE IdleStateMachineProofs -----------------------
(***************************************************************************)
(* Theorems about IdleStateMachine, for every set of instants, thresholds  *)
(* and lengths: whatever instants its callers pass, in whatever order, the *)
(* machine never returns overlapping segments nor one across a midnight,   *)
(* and it leaves no hole between two of them.                              *)
(***************************************************************************)
EXTENDS IdleStateMachine, WellFoundedInduction, TLAPS

\* What a method may add to the history: segments of its own stretch only,
\* which the open segment's start then leaves behind.
Fills(P, from, to) ==
  /\ P \subseteq Segment
  /\ \A p \in P : from <= p.from /\ p.from < p.to /\ p.to <= to
  /\ \A p, q \in P : p # q => Apart(p, q)
  /\ \A p \in P : \A t \in p.from .. p.to : IsMidnight(t) => t = p.from \/ t = p.to

\* And it adds a chain: each of its segments begins at the start or where
\* another one ends, and one ends where the next begins.
Chained(P, from, to) ==
  /\ \A p \in P : p.from = from \/ \E q \in P : q.to = p.from
  /\ from < to => \E q \in P : q.to = to

IInv == TypeOK /\ NoOverlap /\ ClosedBeforeOpen /\ OneWorkDate /\ NoHole

Less == {p \in Nat \X Nat : p[1] < p[2]}

\* Every set of naturals has a least one.
LEMMA Least == ASSUME NEW S \in SUBSET Nat, S # {} PROVE \E n \in S : \A k \in S : n <= k
<1>1. IsWellFoundedOn(Less, Nat)
  BY NatLessThanWellFounded DEF OpToRel, Less
<1>2. PICK n \in S : \A k \in S : ~(<<k, n>> \in Less)
  BY <1>1, WFMin
<1>3. \A k \in S : k < n => <<k, n>> \in Less
  BY DEF Less
<1>4. \A k \in S : ~(k < n)
  BY <1>2, <1>3
<1>5. QED
  BY <1>4

\* Among the points below one of them there is a last one: the least distance.
LEMMA PointBefore ==
  ASSUME NEW pts \in SUBSET Int, NEW x \in Int, NEW y \in pts, y < x
  PROVE  \E z \in pts : z < x /\ \A u \in pts : u <= z \/ x <= u
<1> DEFINE gaps == {n \in Nat : n > 0 /\ x - n \in pts}
<1>1. \A u \in pts : u < x => x - u \in gaps
  <2> TAKE u \in pts
  <2> HAVE u < x
  <2>1. u \in Int /\ x - u \in Nat /\ x - u > 0 /\ x - (x - u) = u
    OBVIOUS
  <2>2. QED
    BY <2>1
<1>2. PICK n \in gaps : \A k \in gaps : n <= k
  <2>1. gaps \in SUBSET Nat /\ gaps # {}
    BY <1>1
  <2> HIDE DEF gaps
  <2>2. QED
    BY <2>1, Least
<1>3. x - n \in pts /\ x - n < x
  OBVIOUS
<1>4. \A u \in pts : u < x => u <= x - n
  <2> TAKE u \in pts
  <2> HAVE u < x
  <2>1. n <= x - u /\ u \in Int /\ n \in Int
    BY <1>1, <1>2
  <2>2. QED
    BY <2>1
<1>5. QED
  BY <1>3, <1>4

\* Every point of a cut stretch but the first is where a piece ends.
LEMMA PiecesChained ==
  ASSUME NEW s \in State, NEW a \in Int, NEW b \in Int, a <= b, NEW cuts \in SUBSET Int
  PROVE  Chained(Pieces(s, a, b, cuts), a, b)
<1> DEFINE pts == Points(a, b, cuts)
<1>1. a \in pts /\ b \in pts /\ \A x \in pts : x \in Int /\ a <= x
  BY DEF Points
<1>2. ASSUME NEW x \in pts, a < x
      PROVE  \E q \in Pieces(s, a, b, cuts) : q.to = x
  <2>1. PICK z \in pts : z < x /\ \A u \in pts : u <= z \/ x <= u
    <3>1. pts \in SUBSET Int
      BY <1>1
    <3>2. QED
      BY <3>1, <1>1, <1>2, PointBefore
  <2>2. [state |-> s, from |-> z, to |-> x] \in Pieces(s, a, b, cuts)
    BY <2>1 DEF Pieces, Adjacent
  <2>3. QED
    BY <2>2
<1>3. \A p \in Pieces(s, a, b, cuts) : p.from \in pts
  BY DEF Pieces
<1>4. QED
  BY <1>1, <1>2, <1>3 DEF Chained

\* Cutting a stretch at points that include its midnights yields fresh segments.
LEMMA PiecesFresh ==
  ASSUME NEW s \in State, NEW a \in Int, NEW b \in Int, a <= b,
         NEW cuts \in SUBSET Int,
         \A t \in a .. b : IsMidnight(t) => t \in cuts \cup {a, b}
  PROVE  Fills(Pieces(s, a, b, cuts), a, b)
<1> DEFINE pts == Points(a, b, cuts)
<1>1. \A x \in pts : x \in Int /\ a <= x /\ x <= b
  BY DEF Points
<1>2. \A p \in Pieces(s, a, b, cuts) :
        /\ p \in Segment /\ p.from \in pts /\ p.to \in pts
        /\ p.state = s
        /\ p = [state |-> p.state, from |-> p.from, to |-> p.to]
        /\ Adjacent(pts, p.from, p.to)
  BY <1>1 DEF Pieces, Segment
<1>3. ASSUME NEW p \in Pieces(s, a, b, cuts), NEW q \in Pieces(s, a, b, cuts), p # q
      PROVE  Apart(p, q)
  <2>1. p.from # q.from \/ p.to # q.to
    BY <1>2, <1>3
  <2>2. QED
    BY <2>1, <1>1, <1>2 DEF Adjacent, Apart
<1>4. ASSUME NEW p \in Pieces(s, a, b, cuts), NEW t \in p.from .. p.to, IsMidnight(t)
      PROVE  t = p.from \/ t = p.to
  <2>1. t \in a .. b
    BY <1>1, <1>2
  <2>2. t \in pts
    BY <2>1, <1>4 DEF Points
  <2>3. QED
    BY <2>2, <1>1, <1>2 DEF Adjacent
<1>5. QED
  BY <1>1, <1>2, <1>3, <1>4 DEF Fills, Adjacent

LEMMA EmitSegmentFresh ==
  ASSUME NEW s \in State, NEW a \in Int, NEW b \in Int
  PROVE  /\ Fills(EmitSegment(s, a, b), a, Later(b, a))
         /\ Chained(EmitSegment(s, a, b), a, Later(b, a))
<1>1. CASE b <= a
  BY <1>1 DEF EmitSegment, Fills, Chained, Later
<1>2. CASE ~(b <= a)
  <2>1. Midnights(a, b) \in SUBSET Int
    BY DEF Midnights
  <2>2. \A t \in a .. b : IsMidnight(t) => t \in Midnights(a, b)
    BY DEF Midnights
  <2>3. Fills(Pieces(s, a, b, Midnights(a, b)), a, b)
    BY <1>2, <2>1, <2>2, PiecesFresh
  <2>4. Chained(Pieces(s, a, b, Midnights(a, b)), a, b)
    BY <1>2, <2>1, PiecesChained
  <2>5. QED
    BY <1>2, <2>3, <2>4 DEF EmitSegment, Later
<1>3. QED
  BY <1>1, <1>2

\* Two stretches, one after the other.
LEMMA FreshUnion ==
  ASSUME NEW P, NEW Q, NEW a \in Int, NEW b \in Int, NEW c \in Int,
         a <= b, b <= c, Fills(P, a, b), Fills(Q, b, c), Chained(P, a, b), Chained(Q, b, c)
  PROVE  Fills(P \cup Q, a, c) /\ Chained(P \cup Q, a, c)
<1>1. \A p \in P, q \in Q : Apart(p, q) /\ Apart(q, p)
  BY DEF Fills, Apart, Segment
<1>2. \A p \in P \cup Q : a <= p.from /\ p.from < p.to /\ p.to <= c
  BY DEF Fills, Segment
<1>3. \A p, q \in P \cup Q : p # q => Apart(p, q)
  BY <1>1 DEF Fills
<1>4. Chained(P \cup Q, a, c)
  BY DEF Chained
<1>5. QED
  BY <1>2, <1>3, <1>4 DEF Fills

\* The one step every method amounts to.
LEMMA FreshPreserves ==
  ASSUME IInv, NEW P, NEW end \in Int, openedAt <= end,
         Fills(P, openedAt, end), Chained(P, openedAt, end),
         emitted' = emitted \cup P, openedAt' = end, state' \in State
  PROVE  IInv'
<1>1. TypeOK'
  BY DEF IInv, TypeOK, Fills
<1>2. \A s \in emitted, p \in P : Apart(s, p) /\ Apart(p, s)
  BY DEF IInv, TypeOK, ClosedBeforeOpen, Fills, Apart, Segment
<1>3. NoOverlap'
  BY <1>2 DEF IInv, NoOverlap, Fills, Apart
<1>4. ClosedBeforeOpen'
  BY DEF IInv, TypeOK, ClosedBeforeOpen, Fills, Segment
<1>5. OneWorkDate'
  BY DEF IInv, OneWorkDate, Fills, IsMidnight
<1>6. NoHole'
  <2>1. Reached(openedAt) /\ \A s \in emitted : Reached(s.from)
    BY DEF IInv, NoHole
  <2>2. \A i : Reached(i) => Reached(i)'
    BY DEF Reached
  <2>3. \A p \in P : Reached(p.from)'
    BY <2>1, <2>2 DEF Chained, Reached
  <2>4. Reached(end)'
    BY <2>1, <2>2, InstantAssumption DEF Chained, Reached, IInv, TypeOK
  <2>5. QED
    BY <2>1, <2>2, <2>3, <2>4 DEF NoHole
<1>7. QED
  BY <1>1, <1>3, <1>4, <1>5, <1>6 DEF IInv

LEMMA EmitAndReopenInv ==
  ASSUME IInv, NEW next \in State, NEW at \in Int, EmitAndReopen(next, at)
  PROVE  IInv'
<1> DEFINE end == Later(at, openedAt)
<1>1. openedAt \in Int /\ state \in State /\ end \in Int /\ openedAt <= end
  BY DEF IInv, TypeOK, Later
<1>2. Later(end, openedAt) = end
  BY <1>1 DEF Later
<1>3. /\ Fills(EmitSegment(state, openedAt, end), openedAt, end)
      /\ Chained(EmitSegment(state, openedAt, end), openedAt, end)
  BY <1>1, <1>2, EmitSegmentFresh
<1>4. emitted' = emitted \cup EmitSegment(state, openedAt, end)
      /\ openedAt' = end /\ state' \in State
  BY DEF EmitAndReopen
<1>5. QED
  BY <1>1, <1>3, <1>4, FreshPreserves

LEMMA CloseAllInv ==
  ASSUME IInv, NEW at \in Int, CloseAll(at)
  PROVE  IInv'
<1>1. openedAt \in Int /\ state \in State /\ Later(at, openedAt) \in Int
      /\ openedAt <= Later(at, openedAt)
  BY DEF IInv, TypeOK, Later
<1>2. /\ Fills(EmitSegment(state, openedAt, at), openedAt, Later(at, openedAt))
      /\ Chained(EmitSegment(state, openedAt, at), openedAt, Later(at, openedAt))
  BY <1>1, EmitSegmentFresh
<1>3. emitted' = emitted \cup EmitSegment(state, openedAt, at)
      /\ openedAt' = Later(at, openedAt) /\ state' \in State
  BY <1>1 DEF CloseAll
<1>4. QED
  BY <1>1, <1>2, <1>3, FreshPreserves

LEMMA TickInv ==
  ASSUME IInv, NEW thr \in Nat \ {0}, NEW now \in Int, NEW since \in Nat,
         NEW locked \in BOOLEAN, NEW frozen \in BOOLEAN,
         Tick(thr, now, since, locked, frozen)
  PROVE  IInv'
<1>1. openedAt \in Int /\ state \in State
  BY DEF IInv, TypeOK
<1> DEFINE next == Wanted(thr, since, locked, frozen)
           at   == ChangeAt(thr, now, since, next)
<1>2. PICK m \in Greatest(MidnightCuts(now)) :
        \E b \in Greatest(LongCuts(m, now, thr)) :
        LET cuts == MidnightCuts(now) \cup LongCuts(m, now, thr)
            end  == IF next = state THEN b ELSE Later(at, b)
        IN /\ openedAt' = end
           /\ emitted' = emitted \cup Pieces(state, openedAt, b, cuts)
                                 \cup EmitSegment(state, b, end)
  BY DEF Tick
<1>3. PICK b \in Greatest(LongCuts(m, now, thr)) :
        LET cuts == MidnightCuts(now) \cup LongCuts(m, now, thr)
            end  == IF next = state THEN b ELSE Later(at, b)
        IN /\ openedAt' = end
           /\ emitted' = emitted \cup Pieces(state, openedAt, b, cuts)
                                 \cup EmitSegment(state, b, end)
  BY <1>2
<1> DEFINE cuts == MidnightCuts(now) \cup LongCuts(m, now, thr)
           end  == IF next = state THEN b ELSE Later(at, b)
<1>4. m \in Int /\ openedAt <= m /\ (m = openedAt \/ m <= now)
  BY <1>1, <1>2 DEF Greatest, MidnightCuts, Midnights
<1>5. b \in Int /\ m <= b /\ (b = m \/ b <= now - thr)
  BY <1>4 DEF Greatest, LongCuts
<1>6. cuts \in SUBSET Int
  BY <1>1, <1>4 DEF MidnightCuts, Midnights, LongCuts
<1>7. \A t \in openedAt .. b : IsMidnight(t) => t \in cuts \cup {openedAt, b}
  <2>1. b = openedAt \/ b <= now
    BY <1>4, <1>5, <1>1
  <2>2. QED
    BY <2>1, <1>1, <1>5 DEF MidnightCuts, Midnights
<1>8. /\ Fills(Pieces(state, openedAt, b, cuts), openedAt, b)
      /\ Chained(Pieces(state, openedAt, b, cuts), openedAt, b)
  <2>1. openedAt <= b
    BY <1>1, <1>4, <1>5
  <2>2. QED
    BY <2>1, <1>1, <1>5, <1>6, <1>7, PiecesFresh, PiecesChained
<1>9. at \in Int
  BY DEF ChangeAt
<1>10. end \in Int /\ b <= end /\ Later(end, b) = end
  BY <1>5, <1>9 DEF Later
<1>11. Fills(EmitSegment(state, b, end), b, end) /\ Chained(EmitSegment(state, b, end), b, end)
  <2>1. /\ Fills(EmitSegment(state, b, end), b, Later(end, b))
        /\ Chained(EmitSegment(state, b, end), b, Later(end, b))
    BY <1>1, <1>5, <1>10, EmitSegmentFresh
  <2>2. QED
    BY <2>1, <1>10
<1> DEFINE P == Pieces(state, openedAt, b, cuts) \cup EmitSegment(state, b, end)
<1>12. Fills(P, openedAt, end) /\ Chained(P, openedAt, end)
  <2>1. openedAt <= b
    BY <1>1, <1>4, <1>5
  <2>2. QED
    BY <2>1, <1>1, <1>5, <1>8, <1>10, <1>11, FreshUnion
<1>13. emitted' = emitted \cup P /\ openedAt' = end
  BY <1>3
<1>14. state' \in State
  BY DEF Tick, Wanted, State
<1>15. openedAt <= end
  BY <1>1, <1>4, <1>5, <1>10
<1>16. QED
  BY <1>10, <1>12, <1>13, <1>14, <1>15, FreshPreserves

LEMMA InitInv == Init => IInv
<1> SUFFICES ASSUME Init PROVE IInv
  OBVIOUS
<1>1. TypeOK
  BY InstantAssumption DEF Init, TypeOK, State
<1>2. QED
  BY <1>1 DEF Init, IInv, NoOverlap, ClosedBeforeOpen, OneWorkDate, NoHole, Reached

LEMMA NextInv == IInv /\ [Next]_machineVars => IInv'
<1> SUFFICES ASSUME IInv, [Next]_machineVars PROVE IInv'
  OBVIOUS
<1>1. CASE UNCHANGED machineVars
  BY <1>1 DEF machineVars, IInv, TypeOK, NoOverlap, ClosedBeforeOpen, OneWorkDate,
              NoHole, Reached, Apart, IsMidnight
<1>2. ASSUME NEW thr \in Thresholds, NEW now \in Instant, NEW since \in QuietTime,
             NEW locked \in BOOLEAN, NEW frozen \in BOOLEAN,
             Tick(thr, now, since, locked, frozen)
      PROVE  IInv'
  <2>1. thr \in Nat \ {0} /\ now \in Int /\ since \in Nat
    BY InstantAssumption, ThresholdAssumption
  <2>2. QED
    BY <1>2, <2>1, TickInv
<1>3. ASSUME NEW at \in Instant, OnSuspend(at)
      PROVE  IInv'
  <2>1. at \in Int /\ "Locked" \in State
    BY InstantAssumption DEF State
  <2>2. CASE UNCHANGED machineVars
    BY <2>2, <1>1
  <2>3. CASE EmitAndReopen("Locked", at)
    BY <2>1, <2>3, EmitAndReopenInv
  <2>4. QED
    BY <1>3, <2>2, <2>3 DEF OnSuspend
<1>4. ASSUME NEW at \in Instant, OnResume(at)
      PROVE  IInv'
  <2>1. at \in Int /\ "Idle" \in State
    BY InstantAssumption DEF State
  <2>2. QED
    BY <1>4, <2>1, EmitAndReopenInv DEF OnResume
<1>5. ASSUME NEW at \in Instant, CloseAll(at)
      PROVE  IInv'
  BY <1>5, InstantAssumption, CloseAllInv
<1>6. QED
  BY <1>1, <1>2, <1>3, <1>4, <1>5 DEF Next

LEMMA InvariantHolds == Spec => []IInv
BY InitInv, NextInv, PTL DEF Spec

\* The machine's variables keep their types.
THEOREM TypeCorrect == Spec => []TypeOK
BY InvariantHolds, PTL DEF IInv

\* G160 for every sequence of calls: the machine records no instant twice.
THEOREM Disjoint == Spec => []NoOverlap
BY InvariantHolds, PTL DEF IInv

\* What has been returned is over before the open segment began.
THEOREM ClosedIsPast == Spec => []ClosedBeforeOpen
BY InvariantHolds, PTL DEF IInv

\* No segment spans two work dates.
THEOREM WithinOneDate == Spec => []OneWorkDate
BY InvariantHolds, PTL DEF IInv

\* The segments tile the time from the start of the machine to the open one.
THEOREM Tiles == Spec => []Tiled
<1>1. IInv => Tiled
  BY DEF IInv, Tiled
<1>2. QED
  BY <1>1, InvariantHolds, PTL
=============================================================================
