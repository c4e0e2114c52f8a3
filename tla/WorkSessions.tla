---------------------------- MODULE WorkSessions ----------------------------
(***************************************************************************)
(* The envelope of a day's segments: one row of work_sessions per device,  *)
(* person and date (IngestService.ingestSegments, resolveSession, widen),  *)
(* closed by the PC's farewell (applySessionEffects), by the first batch   *)
(* of a later date, or by the day-close job.  When a person was first      *)
(* tracked, and so what is expected of them, is read from these rows.      *)
(*                                                                         *)
(* Segments arrive late, in any order and more than once, and every        *)
(* request is corrected by the clock drift measured for it alone: the same *)
(* segment may be sent again for other instants, or for another date.      *)
(***************************************************************************)
EXTENDS Integers, FiniteSets, Sequences, SequencesExt, Folds

CONSTANTS
  Seg, Person, FirstOwner,
  Span,        \* [Seg -> [from, to]]: when the PC recorded it, by its own clock
  ByeAt,       \* when the PC said good-bye
  Drifts,      \* the corrections a request may get
  SessionDay, LastDay,
  Batch,       \* bound: the requests under way at a time
  MaxLost      \* bound: how often an answer is lost

ASSUME SessionsAssumption ==
  /\ FirstOwner \in Person /\ SessionDay \in Nat \ {0} /\ LastDay \in Nat /\ MaxLost \in Nat
  /\ Drifts \subseteq Int /\ ByeAt \subseteq Int /\ IsFiniteSet(Seg)
  /\ \A s \in Seg : Span[s].from \in Int /\ Span[s].to \in Int
  /\ \A s \in Seg : Span[s].from < Span[s].to /\ Span[s].to - Span[s].from <= SessionDay
  \* An instant, as corrected, is counted from an epoch before all of them.
  /\ \A d \in Drifts : (\A s \in Seg : Span[s].from + d >= 0) /\ \A t \in ByeAt : t + d >= 0

VARIABLES
  date, owner,    \* the date, and whose PC it is
  unsent,         \* the segments in the PC's outbox
  batch,          \* the ingest transactions under way
  session,        \* the table work_sessions
  stored,         \* the table activity_segments
  byes, farewell, \* the good-byes to come, and the old sessions one is about to close
  closing,        \* the sessions the day-close job is about to close
  lost,
  again, raced, overtaken  \* history: segments sent again, sessions written by a
                           \* transaction that had read others, or closed too early

sessionVars == <<date, owner, unsent, batch, session, stored, byes, farewell, closing,
                 lost, again, raced, overtaken>>

Open     == -1
NoBatch  == [segs |-> {}]
Ids      == DOMAIN session
Date(t)     == t \div SessionDay
Midnight(t) == (Date(t) + 1) * SessionDay

\* splitAtMidnight, of a corrected segment.
Part(s, i, from, to) == [seg |-> s, i |-> i, from |-> from, to |-> to]
PartsOf(s, drift) ==
  LET from == Span[s].from + drift
      to   == Span[s].to + drift
  IN  IF to <= Midnight(from) THEN {Part(s, 0, from, to)}
      ELSE {Part(s, 0, from, Midnight(from)), Part(s, 1, Midnight(from), to)}

\* The one of these sessions that started last.
Latest(rows, ids) == CHOOSE i \in ids : \A j \in ids : rows[i].from >= rows[j].from

\* widen: only what the session does not hold yet, and never an open end.
Widened(row, from, to) ==
  [row EXCEPT !.from = IF from < @ THEN from ELSE @,
              !.to   = IF @ # Open /\ to > @ THEN to ELSE @]

\* The last open session of an earlier date, of anybody, ends at its own midnight.
EndedBefore(rows, day) ==
  LET old == {i \in DOMAIN rows : rows[i].day < day /\ rows[i].to = Open}
  IN  IF old = {} THEN rows
      ELSE LET i == Latest(rows, old) IN [rows EXCEPT ![i].to = Midnight(rows[i].from)]

\* Mutant: the session takes the first segment's bounds (what G164 was about).
FirstOnly(parts) ==
  LET p == CHOOSE q \in parts : \A o \in parts : q.from >= o.from IN [from |-> p.from, to |-> p.to]

\* The envelope of a date is measured before its session is looked for.
Envelope(parts) ==
  LET first == CHOOSE p \in parts : \A q \in parts : p.from <= q.from
      last  == CHOOSE p \in parts : \A q \in parts : p.to >= q.to
  IN  [from |-> first.from, to |-> last.to]

\* sessionByDate.set.
Put(at, day, i) == [d \in DOMAIN at \cup {day} |-> IF d = day THEN i ELSE at[d]]

\* resolveSession for one date: the date's open session, or its closed one, or a new one.
Resolve(view, who, day, parts) ==
  LET rows  == view.rows
      bound == Envelope({p \in parts : Date(p.from) = day})
      mine  == {i \in DOMAIN rows : rows[i].who = who /\ rows[i].day = day}
      open  == {i \in mine : rows[i].to = Open}
      i     == Latest(rows, IF open # {} THEN open ELSE mine)
  IN  IF mine # {}
      THEN [rows |-> [rows EXCEPT ![i] = Widened(@, bound.from, bound.to)],
            at   |-> Put(view.at, day, i)]
      ELSE [rows |-> Append(EndedBefore(rows, day),
                            [who |-> who, day |-> day, from |-> bound.from, to |-> Open]),
            at   |-> Put(view.at, day, Len(rows) + 1)]

\* Date after date, the last one last: the sessions as they become, and sessionByDate.
Resolved(who, parts) ==
  MapThenFoldSet(LAMBDA day, view : Resolve(view, who, day, parts), [rows |-> session, at |-> <<>>],
                 LAMBDA day : day, LAMBDA days : Max(days), {Date(p.from) : p \in parts})

(***************************************************************************)
(* A batch of segments: the transaction reads first and writes what it     *)
(* made of that, at its commit.                                            *)
(***************************************************************************)
Ingest(b) ==
  /\ batch[b] = NoBatch
  /\ \E segs \in SUBSET unsent \ {{}}, drift \in Drifts :
       LET parts == UNION {PartsOf(s, drift) : s \in segs}
       IN  /\ \A s \in segs : Date(Span[s].from) <= date
           /\ batch' = [batch EXCEPT ![b] =
                [segs |-> segs, parts |-> parts, who |-> owner, heard |-> TRUE,
                 read |-> session, plan |-> Resolved(owner, parts)]]
           /\ unsent' = unsent \ segs
  /\ UNCHANGED <<date, owner, session, stored, byes, farewell, closing, lost, again, raced, overtaken>>

\* What a transaction set in a row it read, over what is in the row by now.
Over(now, read, plan) ==
  [now EXCEPT !.from = IF plan.from # read.from THEN plan.from ELSE @,
              !.to   = IF plan.to # read.to THEN plan.to ELSE @]

\* Mutant: the same instants are the same part.
SameInstants(parts) == {p \in parts : ~\E q \in stored : q.seg = p.seg /\ q.from = p.from}

\* skipDuplicates: a part's client_uuid is derived from its segment's and its place.
Fresh(parts) == {p \in parts : ~\E q \in stored : q.seg = p.seg /\ q.i = p.i}

Commit(b) ==
  /\ batch[b] # NoBatch
  /\ LET r      == batch[b]
         shift  == Len(session) - Len(r.read)     \* rows others have added meanwhile
         at     == [d \in DOMAIN r.plan.at |->
                     IF r.plan.at[d] > Len(r.read) THEN r.plan.at[d] + shift ELSE r.plan.at[d]]
         Old(i) == IF i <= Len(r.read) THEN Over(session[i], r.read[i], r.plan.rows[i]) ELSE session[i]
     IN  /\ session' = [i \in Ids |-> Old(i)] \o SubSeq(r.plan.rows, Len(r.read) + 1, Len(r.plan.rows))
         /\ stored' = stored \cup {[seg |-> p.seg, i |-> p.i, from |-> p.from, to |-> p.to,
                                    who |-> r.who, in |-> at[Date(p.from)]] : p \in Fresh(r.parts)}
         /\ raced' = IF session = r.read THEN raced ELSE raced \cup Range(at)
  /\ batch' = [batch EXCEPT ![b] = NoBatch]
  /\ UNCHANGED <<date, owner, unsent, byes, farewell, closing, lost, again, overtaken>>

Lose == lost < MaxLost /\ lost' = lost + 1

\* The agent does not hear the answer, for this try or since it no longer waits, and
\* will send the segments again.
AnswerLost(b) ==
  /\ batch[b] # NoBatch /\ batch[b].heard /\ Lose
  /\ batch' = [batch EXCEPT ![b].heard = FALSE]
  /\ unsent' = unsent \cup batch[b].segs /\ again' = again \cup batch[b].segs
  /\ UNCHANGED <<date, owner, session, stored, byes, farewell, closing, raced, overtaken>>

\* The transaction breaks off.
Abort(b) ==
  /\ batch[b] # NoBatch /\ Lose
  /\ batch' = [batch EXCEPT ![b] = NoBatch]
  /\ unsent' = IF batch[b].heard THEN unsent \cup batch[b].segs ELSE unsent
  /\ UNCHANGED <<date, owner, session, stored, byes, farewell, closing, again, raced, overtaken>>

(***************************************************************************)
(* What ends a session.                                                    *)
(***************************************************************************)
\* Not one that began after it.
EndedBy(at) == {i \in Ids : session[i].day = Date(at) /\ session[i].to = Open /\ session[i].from <= at}

\* A good-bye, which a lost answer brings again.
Farewell(t) ==
  /\ t \in byes /\ Date(t) <= date /\ farewell = {}
  /\ \E drift \in Drifts :
       LET at == t + drift
       IN  /\ session' = [i \in Ids |-> IF i \in EndedBy(at) THEN [session[i] EXCEPT !.to = at] ELSE session[i]]
           /\ overtaken' = overtaken \cup {i \in EndedBy(at) : \E p \in stored : p.in = i /\ p.to > at}
           /\ farewell' = {i \in Ids : session[i].day < Date(at) /\ session[i].to = Open}
  /\ \/ byes' = byes \ {t} /\ UNCHANGED lost
     \/ Lose /\ UNCHANGED byes
  /\ UNCHANGED <<date, owner, unsent, batch, stored, closing, again, raced>>

AtOwnMidnight(ids) ==
  [i \in Ids |-> IF i \in ids THEN [session[i] EXCEPT !.to = Midnight(session[i].from)] ELSE session[i]]

\* Each old session it found, at its own midnight.
FarewellToOld ==
  /\ farewell # {}
  /\ session' = AtOwnMidnight(farewell) /\ farewell' = {}
  /\ UNCHANGED <<date, owner, unsent, batch, stored, byes, closing, lost, again, raced, overtaken>>

\* closeStaleSessions reads, and then writes by id.
CloseReads ==
  /\ date > 0 /\ closing = {}
  /\ closing' = {i \in Ids : session[i].day < date /\ session[i].to = Open}
  /\ closing' # {}
  /\ UNCHANGED <<date, owner, unsent, batch, session, stored, byes, farewell, lost, again, raced, overtaken>>

CloseWrites ==
  /\ closing # {}
  /\ session' = AtOwnMidnight(closing) /\ closing' = {}
  /\ UNCHANGED <<date, owner, unsent, batch, stored, byes, farewell, lost, again, raced, overtaken>>

NextDate ==
  /\ date < LastDay /\ date' = date + 1
  /\ UNCHANGED <<owner, unsent, batch, session, stored, byes, farewell, closing, lost, again, raced, overtaken>>

\* The office gives the PC to somebody else.
HandOver ==
  /\ Lose /\ \E p \in Person \ {owner} : owner' = p
  /\ UNCHANGED <<date, unsent, batch, session, stored, byes, farewell, closing, again, raced, overtaken>>

(***************************************************************************)
(* Specification.                                                          *)
(***************************************************************************)
SessionsInit ==
  /\ date = 0 /\ owner = FirstOwner /\ unsent = Seg /\ byes = ByeAt
  /\ batch = [b \in Batch |-> NoBatch]
  /\ session = <<>> /\ stored = {} /\ farewell = {} /\ closing = {} /\ lost = 0
  /\ again = {} /\ raced = {} /\ overtaken = {}

SessionsNext ==
  \/ \E b \in Batch : Ingest(b) \/ Commit(b) \/ AnswerLost(b) \/ Abort(b)
  \/ \E t \in ByeAt : Farewell(t)
  \/ FarewellToOld \/ CloseReads \/ CloseWrites \/ NextDate \/ HandOver

SessionsSpec == SessionsInit /\ [][SessionsNext]_sessionVars

(***************************************************************************)
(* Properties.                                                             *)
(***************************************************************************)
SessionsTypeOK ==
  /\ date \in 0..LastDay /\ owner \in Person /\ {unsent, again} \subseteq SUBSET Seg
  /\ \A i \in Ids : session[i].who \in Person /\ session[i].to \in {Open} \cup Int
  /\ \A p \in stored : p.seg \in Seg /\ p.who \in Person /\ p.in \in Ids
  /\ {farewell, closing, raced, overtaken} \subseteq SUBSET Ids
  /\ byes \subseteq ByeAt /\ lost \in 0..MaxLost

\* A session holds its segments, of its own person and date ...
Holds ==
  \A p \in stored : LET row == session[p.in] IN
    /\ row.who = p.who /\ row.day = Date(p.from)
    /\ \/ p.in \in raced \cup overtaken
       \/ row.from <= p.from /\ (row.to = Open \/ p.to <= row.to)

\* ... it never ends before it began, nor on another date ...
OfOneDate ==
  \A i \in Ids : LET row == session[i] IN
    /\ Date(row.from) = row.day
    /\ row.to # Open => row.to <= Midnight(row.from) /\ (row.from <= row.to \/ i \in raced)

\* ... and there is none without a segment, which would make its person tracked from
\* that day, but by a segment that came again under another date or person.
NotEmpty ==
  \A i \in Ids : \/ \E p \in stored : p.in = i
                 \/ \E s \in again, d \in Drifts : \E p \in PartsOf(s, d) : Date(p.from) = session[i].day

\* What widen, resolveSession and applySessionEffects say of themselves
\* (ingest.service.ts:103-111, 176-180, 223-246, 580-607), but for transactions that
\* overlap and a farewell that comes after the segments of a later start.
SessionsHold == Holds /\ OfOneDate /\ NotEmpty

Crosses(s, d) == Span[s].to + d > Midnight(Span[s].from + d)

\* All there is of a segment, in one part or in two that meet.
StoredWhole(s) ==
  \E p, q \in stored :
    /\ {r \in stored : r.seg = s} = {p, q}
    /\ p = q \/ p.to = q.from
    /\ q.to - p.from = Span[s].to - Span[s].from

\* A segment is stored once and whole, however often it is sent
\* (ingest.service.ts:337-340), but for one sent again with another drift near
\* midnight: its second part has an id of its own and is new.
StoredOnce ==
  \A s \in Seg :
    \/ \A p \in stored : p.seg # s
    \/ StoredWhole(s)
    \/ s \in again /\ (\E d \in Drifts : Crosses(s, d)) /\ \E d \in Drifts : ~Crosses(s, d)

\* What the server stores of a PC's segments: each once, under a session that holds it.
SessionsSound == SessionsHold /\ StoredOnce
=============================================================================
