------------------------------ MODULE IdleTabs ------------------------------
(***************************************************************************)
(* Nobody at the web application for Timeout: the tabs sign out            *)
(* (useIdleLogout), each with a clock of its own and what it hears from    *)
(* the others through localStorage.  And the session cookie, which the     *)
(* server renews on a request when it is older than RefreshAfter           *)
(* (JwtAuthGuard): a tab in use asks for something every PingEvery, so     *)
(* that the screen and the cookie say the same.                            *)
(*                                                                         *)
(* Times are kept as ages, up to the largest one told apart.  A unit is as *)
(* long as a browser keeps the timer of a hidden tab waiting, a minute;    *)
(* the timer ticks at the end of each and soon after somebody touched the  *)
(* tab.  A sleeping computer lets many units pass between two ticks.       *)
(***************************************************************************)
EXTENDS Integers, FiniteSets

CONSTANTS
  Tab,
  Timeout,       \* the screen's and the cookie's: SESSION_TTL_MIN
  WarnBefore,
  Throttle,      \* THROTTLE_MS
  PingEvery,     \* PING_EVERY_MS
  RefreshAfter   \* SESSION_REFRESH_AFTER_MIN

ASSUME IdleAssumption ==
  /\ {Timeout, WarnBefore, Throttle, PingEvery, RefreshAfter} \subseteq Nat \ {0}
  /\ PingEvery = RefreshAfter /\ WarnBefore <= PingEvery /\ 2 * PingEvery < Timeout
  /\ 2 * Throttle < Timeout

VARIABLES
  user,      \* the tabs that show somebody signed in
  quiet,     \* the age of lastActivityRef
  pinged,    \* the age of lastPingRef
  throttle,  \* what is left of throttleUntil
  told,      \* what is left of the Throttle since lastWriteRef
  due,       \* the tabs whose timer is to tick: at the end of a unit, and soon after a touch
  cookie,    \* the age of the session cookie, or None
  mute,      \* history: the tabs whose last write to localStorage threw
  missed,    \* history: the tabs whose last me() did not find a living session
  touch,     \* history: how long ago somebody last touched a tab
  voiced,    \* history: how long ago they did in a tab that is not mute
  slept,     \* history: the computer slept since somebody touched a tab
  early      \* history: somebody was signed out too early

tabVars     == <<user, quiet, pinged, throttle, told>>
personVars  == <<touch, voiced, slept, early>>
idleVars    == <<tabVars, due, cookie, mute, missed, personVars>>

NoCookie  == -1
Older(age, n, max) == IF age + n < max THEN age + n ELSE max
Less(left, n)      == IF left > n THEN left - n ELSE 0

\* idleStateAt.
Phase(t) == IF quiet[t] >= Timeout THEN "expired"
            ELSE IF quiet[t] >= Timeout - WarnBefore THEN "warning" ELSE "active"

Alive == cookie # NoCookie /\ cookie < Timeout

(***************************************************************************)
(* A request (JwtAuthGuard): the cookie is renewed when it is old; without *)
(* a living one the answer is 401, and the tab shows nobody any more.      *)
(***************************************************************************)
\* Mutant: the cookie is never renewed.
RenewedNever == cookie
Renewed == IF cookie > RefreshAfter THEN 0 ELSE cookie

\* A page that polls, or a click.
Asks(t) ==
  /\ t \in user
  /\ IF Alive THEN cookie' = Renewed /\ UNCHANGED user
     ELSE user' = user \ {t} /\ UNCHANGED cookie
  /\ UNCHANGED <<quiet, pinged, throttle, told, due, mute, missed, personVars>>

(***************************************************************************)
(* Somebody moves the mouse or types.                                      *)
(***************************************************************************)
\* Mutant: a tab hears nothing from the others.
HeardByItself(t) == [quiet EXCEPT ![t] = 0]
\* What is written to localStorage is heard by the tabs that show somebody.
HeardByAll(t) == [u \in Tab |-> IF u = t \/ u \in user THEN 0 ELSE quiet[u]]

\* The tab keeps it to itself.
KeepsQuiet(t) == /\ quiet' = [quiet EXCEPT ![t] = 0] /\ due' = {t}
                 /\ voiced' = IF t \in mute THEN voiced ELSE 0
                 /\ UNCHANGED mute

\* It tells the others, or localStorage throws: a private window, or no room.
Tells(t) == \/ /\ quiet' = HeardByAll(t) /\ due' = Tab
               /\ mute' = mute \ {t} /\ voiced' = 0
            \/ /\ quiet' = [quiet EXCEPT ![t] = 0] /\ due' = {t}
               /\ mute' = mute \cup {t} /\ UNCHANGED voiced

MarkActive(t, wait) ==
  IF wait > 0 THEN KeepsQuiet(t) /\ told' = [told EXCEPT ![t] = wait]
  ELSE Tells(t) /\ told' = [told EXCEPT ![t] = Throttle]

Touch(t) ==
  /\ t \in user /\ due = {}
  /\ touch' = 0 /\ slept' = FALSE
  /\ IF throttle[t] > 0
     THEN KeepsQuiet(t) /\ UNCHANGED <<throttle, told>>
     ELSE MarkActive(t, told[t]) /\ throttle' = [throttle EXCEPT ![t] = Throttle]
  /\ UNCHANGED <<user, pinged, cookie, missed, early>>

\* A click or a key while the warning shows (IdleWarning, stayLoggedIn).
Stay(t) ==
  /\ t \in user /\ due = {} /\ Phase(t) = "warning"
  /\ touch' = 0 /\ slept' = FALSE
  /\ MarkActive(t, 0)
  /\ pinged' = [pinged EXCEPT ![t] = Timeout]
  /\ UNCHANGED <<user, throttle, cookie, missed, early>>

(***************************************************************************)
(* The timer.                                                              *)
(***************************************************************************)
Pings(t) == Phase(t) = "active" /\ quiet[t] <= pinged[t] /\ pinged[t] >= PingEvery

\* me() finds the session alive; or its 401 is silent, and so is a server out of reach.
Ping(t) == /\ pinged' = [pinged EXCEPT ![t] = 0]
           /\ \/ Alive /\ cookie' = Renewed /\ missed' = missed \ {t}
              \/ missed' = missed \cup {t} /\ UNCHANGED cookie

\* expire: the cookie is cleared, for every tab, unless the server cannot be reached.
Expire(t) ==
  /\ Phase(t) = "expired"
  /\ user' = user \ {t} /\ cookie' \in {NoCookie, cookie}
  /\ early' = (early \/ voiced < Timeout - 2 * Throttle)
  /\ UNCHANGED <<pinged, missed>>

Tick(t) ==
  /\ t \in due /\ due' = due \ {t}
  /\ \/ t \notin user /\ UNCHANGED <<user, cookie, early, pinged, missed>>
     \/ t \in user /\ Expire(t)
     \/ /\ t \in user /\ Phase(t) # "expired" /\ UNCHANGED <<user, early>>
        /\ IF Pings(t) THEN Ping(t) ELSE UNCHANGED <<cookie, pinged, missed>>
  /\ UNCHANGED <<quiet, throttle, told, mute, touch, voiced, slept>>

\* A unit is over, or the computer slept for more.
TimePasses(n) ==
  /\ due = {} /\ due' = Tab
  /\ quiet'    = [t \in Tab |-> IF t \in user THEN Older(quiet[t], n, Timeout) ELSE 0]
  /\ pinged'   = [t \in Tab |-> IF t \in user THEN Older(pinged[t], n, Timeout) ELSE 0]
  /\ throttle' = [t \in Tab |-> Less(throttle[t], n)]
  /\ told'     = [t \in Tab |-> Less(told[t], n)]
  /\ cookie'   = IF cookie = NoCookie THEN NoCookie ELSE Older(cookie, n, Timeout)
  /\ touch'    = Older(touch, n, 3 * Timeout)
  /\ voiced'   = Older(voiced, n, Timeout)
  /\ slept'    = (slept \/ n > 1)
  /\ UNCHANGED <<user, mute, missed, early>>

(***************************************************************************)
(* Somebody signs in, opens another tab (loadSession), closes one.         *)
(***************************************************************************)
Enter(t) ==
  /\ user' = user \cup {t} /\ touch' = 0 /\ slept' = FALSE
  /\ quiet' = [quiet EXCEPT ![t] = 0] /\ pinged' = [pinged EXCEPT ![t] = 0]
  /\ throttle' = [throttle EXCEPT ![t] = 0]
  /\ missed' = missed \ {t}
  /\ UNCHANGED <<due, mute, voiced, early>>

\* In a tab that may have shown somebody before: lastWriteRef is kept.
SignIn(t) == /\ t \notin user /\ due = {}
             /\ Enter(t) /\ cookie' = 0 /\ UNCHANGED told

\* From a bookmark, or by a click in another tab: a page of its own.
OpenTab(t) == /\ t \notin user /\ due = {} /\ Alive
              /\ Enter(t) /\ cookie' = Renewed /\ told' = [told EXCEPT ![t] = 0]

Close(t) == /\ t \in user
            /\ user' = user \ {t}
            /\ UNCHANGED <<quiet, pinged, throttle, told, due, cookie, mute, missed, personVars>>

IdleInit ==
  /\ user = {} /\ quiet = [t \in Tab |-> 0] /\ pinged = [t \in Tab |-> 0]
  /\ throttle = [t \in Tab |-> 0] /\ told = [t \in Tab |-> 0]
  /\ due = {} /\ cookie = NoCookie /\ mute = {} /\ missed = {}
  /\ touch = 0 /\ voiced = 0 /\ slept = FALSE /\ early = FALSE

IdleNext == \/ \E t \in Tab : \/ Asks(t) \/ Touch(t) \/ Stay(t) \/ Tick(t)
                              \/ SignIn(t) \/ OpenTab(t) \/ Close(t)
            \/ \E n \in 1 .. Timeout : TimePasses(n)

IdleSpec == IdleInit /\ [][IdleNext]_idleVars

(***************************************************************************)
(* Properties.                                                             *)
(***************************************************************************)
IdleTypeOK ==
  /\ user \subseteq Tab /\ due \subseteq Tab
  /\ quiet \in [Tab -> 0 .. Timeout] /\ pinged \in [Tab -> 0 .. Timeout]
  /\ throttle \in [Tab -> 0 .. Throttle] /\ told \in [Tab -> 0 .. Throttle]
  /\ cookie \in NoCookie .. Timeout /\ mute \subseteq Tab /\ missed \subseteq Tab
  /\ touch \in 0 .. 3 * Timeout /\ voiced \in 0 .. Timeout /\ slept \in BOOLEAN

\* A tab signs out, and everybody with it, only when no tab was touched for the timeout,
\* less the two throttles a touch may wait before it is told (useIdleLogout.ts:95-130).
\* A tab that cannot write to localStorage is not heard: touches in it do not count.
NobodyCutOff == ~early

\* The cookie of somebody who is there does not run out: unless a tab clears it, it does so
\* at the earliest one PingEvery before the screen would say so, and two when the computer
\* slept.  Except where me() failed: the next is asked for a PingEvery later, and nothing
\* tells the person (useIdleLogout.ts:207-216).
CookieLasts ==
  [][\A t \in user \ missed :
       Alive /\ ~Alive' /\ cookie' # NoCookie
         => quiet'[t] >= Timeout - (IF slept' THEN 2 ELSE 1) * PingEvery]_idleVars

\* And nobody's cookie lives on: two timeouts after the last touch the session is over,
\* even when the browser is gone (useIdleLogout.ts:200-205); three when the computer slept,
\* and a page asked for something before its timer ticked.
CookieEnds == Alive => touch < (IF slept THEN 3 ELSE 2) * Timeout

IdleSound == []NobodyCutOff /\ []CookieEnds /\ CookieLasts
=============================================================================
