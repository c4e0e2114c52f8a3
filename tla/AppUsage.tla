------------------------------ MODULE AppUsage ------------------------------
(***************************************************************************)
(* Which application was in front, and for how long (AppUsageTracker,      *)
(* AppUsageService, AgentHost.AppUsageLoopAsync).  A loop of its own looks *)
(* once a second and keeps one stretch open; a second thread, the          *)
(* tracker's, closes it when the office changes the configuration, and     *)
(* tells the state, ACTIVE or IDLE, which every record carries.            *)
(*                                                                         *)
(* A unit of time is a second of the loop.  A window stands for what       *)
(* SameWindow tells apart, the process and the domain; titles and what is  *)
(* left out of private pages are not modelled.                             *)
(***************************************************************************)
EXTENDS Integers, FiniteSets, FiniteSetsExt

CONSTANTS
  Window,        \* process and domain
  NoWindow,      \* nothing in front, or nothing open
  MinPiece,        \* shorter stretches are not recorded (D04)
  MaxPiece,        \* longer ones are recorded piecewise
  DateLength,
  Sights,        \* what may be in front, and the machine's state then
  MaxSecond,     \* bound: the seconds followed
  MaxTurns       \* bound: what else happens: the office's and the gate's turns, late ticks

ASSUME RowAssumption == /\ MinPiece \in Nat \ {0} /\ MaxPiece \in Nat /\ MinPiece < MaxPiece
                        /\ DateLength \in Nat /\ MaxPiece <= DateLength
                        /\ MaxSecond \in Nat /\ MaxTurns \in Nat
                        /\ NoWindow \notin Window
                        /\ Sights \subseteq (Window \cup {NoWindow}) \X {"active", "idle", "locked"}

VARIABLES
  second, front, doing,  \* the clock, the window in front, the machine's state
  enrolled,   \* TrackingGate.Allows
  service,    \* _apps: NoService, or its life, and the stretch open since a second
  ticker,       \* "ticks", or "gone": it returned because there was no service
  tick,       \* the tick in hand: NoTick, or what it has read
  rows,       \* the records queued
  seen,       \* history: what each tick observed, second by second
  lives,      \* history: the services made so far
  lost,       \* history: the services whose open stretch was dropped
  raced,      \* history: both threads closed the same stretch
  turns       \* counts up to MaxTurns

deskVars == <<second, front, doing, enrolled>>
appVars  == <<deskVars, service, ticker, tick, rows, seen, lives, lost, raced, turns>>

Doing     == {"active", "idle", "locked"}
NoService == [life |-> 0, open |-> NoWindow, at |-> 0, state |-> "active"]
NoTick    == [life |-> 0, win |-> NoWindow, at |-> 0, state |-> "active"]
NewService == [NoService EXCEPT !.life = lives + 1]
Turn == turns < MaxTurns /\ turns' = turns + 1

(***************************************************************************)
(* Where an open stretch is cut (SplitIfLong), and what is recorded (Emit).*)
(***************************************************************************)
LongCuts(at, to) == {c \in at .. to : (c - at) % MaxPiece = 0}
Cuts(at, to) ==
  LongCuts(at, to) \cup {c \in Max(LongCuts(at, to)) + 1 .. to : c % DateLength = 0}

Pieces(s, cuts, who) ==
  {[from |-> p[1], to |-> p[2], win |-> s.open, state |-> s.state, by |-> who] :
     p \in {q \in cuts \X cuts : /\ q[2] - q[1] >= MinPiece
                                 /\ \A c \in cuts : c <= q[1] \/ q[2] <= c}}

Closing(s, to, who) == IF s.open = NoWindow THEN {} ELSE Pieces(s, Cuts(s.at, to) \cup {to}, who)

(***************************************************************************)
(* AppUsageLoopAsync.  The sample is taken without a lock, and Observe is  *)
(* applied to the service the loop has read before.                        *)
(***************************************************************************)
TickRead ==
  /\ ticker = "ticks" /\ enrolled /\ tick = NoTick
  /\ second \notin DOMAIN seen
  /\ service # NoService            \* else the exception is logged, and that is all
  /\ tick' = [life |-> service.life, win |-> front, at |-> second, state |-> doing]
  /\ UNCHANGED <<deskVars, service, ticker, rows, seen, lives, lost, raced, turns>>

NothingToSee == tick.state = "locked" \/ tick.win = NoWindow

\* Mutant: the state of an open stretch is that of its beginning, whatever comes.
ContinuesWhatever == service.open = tick.win
Continues == service.open = tick.win /\ service.state = tick.state

\* Observe, on the service that is still _apps.
Observe ==
  /\ tick # NoTick /\ tick.life = service.life
  /\ CASE NothingToSee ->
            /\ rows' = rows \cup Closing(service, tick.at, "loop")
            /\ service' = [service EXCEPT !.open = NoWindow]
       [] ~NothingToSee /\ Continues ->
            /\ rows' = rows \cup Pieces(service, Cuts(service.at, tick.at), "loop")
            /\ service' = [service EXCEPT !.at = Max(Cuts(service.at, tick.at))]
       [] OTHER ->
            /\ rows' = rows \cup Closing(service, tick.at, "loop")
            /\ service' = [service EXCEPT !.open = tick.win, !.at = tick.at, !.state = tick.state]
  /\ seen' = [t \in DOMAIN seen \cup {tick.at} |->
                IF t = tick.at THEN [win |-> tick.win, state |-> tick.state, life |-> tick.life] ELSE seen[t]]
  /\ tick' = NoTick
  /\ UNCHANGED <<deskVars, ticker, lives, lost, raced, turns>>

\* Observe, on one that was closed and replaced meanwhile: it opens, and is forgotten.
ObserveOrphan ==
  /\ tick # NoTick /\ tick.life # service.life
  /\ tick' = NoTick
  /\ UNCHANGED <<deskVars, service, ticker, rows, seen, lives, lost, raced, turns>>

(***************************************************************************)
(* The tracker's thread: ApplyAppTracking, StopTrackingForRevoke.  The     *)
(* tracker of applications has no lock: a CloseAll beside an Observe that  *)
(* closes may record the same stretch twice.                               *)
(***************************************************************************)
InHand == tick # NoTick /\ tick.life = service.life

\* Mutant: what is open is let go.
LetGo == UNCHANGED <<rows, raced>>
CloseAll ==
  \/ rows' = rows \cup Closing(service, second, "config") /\ UNCHANGED raced
  \/ /\ InHand /\ service.open # NoWindow /\ (~Continues \/ NothingToSee)
     /\ rows' = rows \cup Closing(service, second, "config") \cup Closing(service, tick.at, "loop")
     /\ raced' = TRUE

TurnOff ==
  /\ service # NoService /\ Turn
  /\ CloseAll
  /\ service' = NoService
  /\ UNCHANGED <<deskVars, ticker, tick, seen, lives, lost>>

TurnOn ==
  /\ service = NoService /\ Turn
  /\ service' = NewService /\ lives' = lives + 1
  /\ UNCHANGED <<deskVars, ticker, tick, rows, seen, lost, raced>>

\* Another shortest stretch: the service is made anew.
Replace ==
  /\ service # NoService /\ Turn
  /\ CloseAll
  /\ service' = NewService /\ lives' = lives + 1
  /\ UNCHANGED <<deskVars, ticker, tick, seen, lost>>

\* The device is revoked: CloseAll's records are not queued.
Revoked ==
  /\ service # NoService /\ Turn
  /\ lost' = lost \cup {service.life}
  /\ service' = NoService /\ enrolled' = FALSE
  /\ UNCHANGED <<second, front, doing, ticker, tick, rows, seen, lives, raced>>

\* The agent ends: DisposeAsync queues what is open, a crash does not.
Ends(crash) ==
  /\ Turn
  /\ IF crash \/ service = NoService THEN UNCHANGED <<rows, raced>> ELSE CloseAll
  /\ lost' = IF crash THEN lost \cup {service.life} ELSE lost
  /\ \E on \in BOOLEAN : /\ service' = IF on THEN NewService ELSE NoService
                         /\ lives' = IF on THEN lives + 1 ELSE lives
                         /\ ticker' = IF on THEN "ticks" ELSE "gone"
  /\ tick' = NoTick
  /\ UNCHANGED <<deskVars, seen>>

(***************************************************************************)
(* The desk.                                                               *)
(***************************************************************************)
LooksNow == enrolled /\ service # NoService

\* A second passes; a tick that has not come by then is late.
Second ==
  /\ second < MaxSecond /\ second' = second + 1
  /\ IF LooksNow /\ second \notin DOMAIN seen THEN Turn ELSE UNCHANGED turns
  /\ \E w \in Sights : front' = w[1] /\ doing' = w[2]
  /\ UNCHANGED <<enrolled, service, ticker, tick, rows, seen, lives, lost, raced>>

\* Somebody signs in or out: the service is left as it is.
SignInOrOut ==
  /\ Turn
  /\ enrolled' = ~enrolled
  /\ UNCHANGED <<second, front, doing, service, ticker, tick, rows, seen, lives, lost, raced>>

AppInit ==
  /\ second = 0 /\ (\E w \in Sights : front = w[1] /\ doing = w[2]) /\ enrolled = TRUE
  /\ ticker = "ticks" /\ service = [NoService EXCEPT !.life = 1] /\ lives = 1
  /\ tick = NoTick /\ rows = {} /\ seen = [t \in {} |-> NoTick]
  /\ lost = {} /\ raced = FALSE /\ turns = 0

AppNext == \/ TickRead \/ Observe \/ ObserveOrphan
           \/ TurnOff \/ TurnOn \/ Replace \/ Revoked
           \/ \E crash \in BOOLEAN : Ends(crash)
           \/ Second \/ SignInOrOut

AppSpec == AppInit /\ [][AppNext]_appVars

(***************************************************************************)
(* Properties.                                                             *)
(***************************************************************************)
AppTypeOK ==
  /\ second \in 0 .. MaxSecond /\ front \in Window \cup {NoWindow} /\ doing \in Doing
  /\ enrolled \in BOOLEAN /\ ticker \in {"ticks", "gone"} /\ lives \in 1 .. 1 + MaxTurns /\ turns \in 0 .. MaxTurns
  /\ service \in [life : 0 .. 1 + MaxTurns, open : Window \cup {NoWindow}, at : 0 .. MaxSecond, state : Doing]
  /\ rows \subseteq [from : 0 .. MaxSecond, to : 0 .. MaxSecond, win : Window,
                     state : {"active", "idle"}, by : {"loop", "config"}]

\* No second is recorded twice, unless both threads closed the same stretch; nothing
\* shorter than MinPiece or longer than MaxPiece is recorded (AppUsageTracker.cs:44-56).
OncePerSecond ==
  \A r \in rows : /\ r.to - r.from \in MinPiece .. MaxPiece
                  /\ \A q \in rows \ {r} : raced \/ r.to <= q.from \/ q.to <= r.from

\* No tick that fell into a record saw another window or another state than the one
\* recorded: no row is half ACTIVE and half IDLE (AppUsageTracker.cs:64-71).
RowsAsSeen ==
  \A r \in rows : \A t \in DOMAIN seen :
    r.from <= t /\ t < r.to => seen[t].win = r.win /\ seen[t].state = r.state

\* Of a stretch that was looked at throughout, MinPiece long and within a date, some is
\* recorded or still open; when the agent crashed or was revoked, of one MaxPiece long:
\* no more than that is ever lost (AppUsageTracker.cs:50-56, G53).
Stretch(t, len) ==
  /\ t .. t + len \subseteq DOMAIN seen
  /\ \A u \in t .. t + len : seen[u] = seen[t]
  /\ seen[t].win # NoWindow /\ seen[t].state # "locked"
  /\ \A c \in t + 1 .. t + len : c % DateLength # 0
StretchesKept ==
  \A t \in DOMAIN seen :
    Stretch(t, IF seen[t].life \in lost THEN MaxPiece ELSE MinPiece)
      => \/ \E r \in rows : r.from < t + MaxPiece /\ t < r.to
         \/ service.life = seen[t].life /\ service.open = seen[t].win

AppsSound == OncePerSecond /\ RowsAsSeen /\ StretchesKept
=============================================================================
