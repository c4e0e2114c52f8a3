------------------------------- MODULE Alerts -------------------------------
(***************************************************************************)
(* The server's alert about a PC that has gone silent: the check that      *)
(* raises it (agent-down.check.ts), the throttle (alerts.service.ts), the  *)
(* resolution when the PC returns, and the mail (alerts.dispatcher.ts).    *)
(*                                                                         *)
(* A period is the ten minutes after which a PC counts as silent; both     *)
(* tasks run once in it, in any order and interleaved, because each timer  *)
(* skips a tick whose predecessor still runs (alerts.scheduler.ts:149).    *)
(* The check's other conditions (office hours, holidays, leave) are a free *)
(* choice at each look.                                                    *)
(***************************************************************************)
EXTENDS Integers, FiniteSets

CONSTANTS
  Pc,              \* the enrolled PCs
  Alert, NoAlert,  \* rows of the table; a bound
  Throttle,        \* THROTTLE_HOURS, in periods
  Grace,           \* STARTUP_GRACE_MIN
  Batch,           \* DISPATCH_BATCH
  MaxTries,        \* MAX_EMAIL_ATTEMPTS
  MaxAge           \* DISPATCH_MAX_AGE_HOURS

ASSUME AlertsAssumption ==
  /\ NoAlert \notin Alert /\ Throttle \in Nat \ {0} /\ Grace \in Nat \ {0}
  /\ {Batch, MaxTries} \subseteq Nat \ {0} /\ MaxAge \in Nat /\ MaxAge >= Throttle

VARIABLES
  on,       \* the PCs whose agent runs and reaches the server
  quiet,    \* periods since lastSeenAt, up to Long
  stopped,  \* a clean stop's event: none since it was heard, this period, before
  gone,     \* the PCs that were off in this period or the last (history)
  alert,    \* the table
  tries,    \* AlertDispatcher.attempts, in memory
  check,    \* the check's run
  post,     \* the dispatcher's run
  due,      \* the tasks whose timer is still to fire in this period
  up,       \* periods since the server started, up to Grace; Down
  settled      \* nothing changes or fails any more (for liveness)

pcVars     == <<on, quiet, stopped, gone>>
serverVars == <<tries, check, post, due, up>>
alertVars  == <<pcVars, alert, serverVars, settled>>

Long == 2          \* silent: more than one period
Down == -1
Idle == [at |-> "idle"]
Tasks == {"check", "post"}
Live  == {a \in Alert : alert[a] # NoAlert}
Later(n, cap) == IF n < cap THEN n + 1 ELSE n

(***************************************************************************)
(* The PCs.                                                                *)
(***************************************************************************)
Heard(p) ==
  /\ p \in on /\ up # Down /\ quiet[p] > 0
  /\ quiet' = [quiet EXCEPT ![p] = 0]
  /\ stopped' = [stopped EXCEPT ![p] = IF @ = "before" THEN "no" ELSE @]
  /\ alert' = [a \in Alert |-> IF a \in Live /\ alert[a].pc = p THEN [alert[a] EXCEPT !.news = FALSE]
                               ELSE alert[a]]
  /\ UNCHANGED <<on, gone, serverVars, settled>>

\* A shutdown whose event arrives, or one nobody hears of.
Stops(p, told) ==
  /\ ~settled /\ p \in on
  /\ told => up # Down
  /\ on' = on \ {p} /\ gone' = gone \cup {p}
  /\ stopped' = [stopped EXCEPT ![p] = IF told THEN "now" ELSE @]
  /\ UNCHANGED <<quiet, alert, serverVars, settled>>

Starts(p) == /\ ~settled /\ p \notin on /\ on' = on \cup {p}
             /\ UNCHANGED <<quiet, stopped, gone, alert, serverVars, settled>>

(***************************************************************************)
(* The check: AgentDownCheck.                                              *)
(***************************************************************************)
HeardOf(p) == quiet[p] < Long

\* Mutant: no grace after a start.
NoGrace == FALSE

\* isWithinStartupGrace.
InGrace == up < Grace

Runs(step) == check' = step /\ UNCHANGED <<tries, post, due, up>>

\* resolveReturned: the open alerts whose PC has been heard.
CheckTick ==
  /\ up # Down /\ "check" \in due
  /\ due' = due \ {"check"}
  /\ check' = [at |-> "resolve",
               ids |-> {a \in Live : alert[a].open /\ HeardOf(alert[a].pc)}]
  /\ UNCHANGED <<pcVars, alert, tries, post, up, settled>>

Resolve ==
  /\ check.at = "resolve"
  /\ alert' = [a \in Alert |-> IF a \in check.ids \cap Live THEN [alert[a] EXCEPT !.open = FALSE]
                               ELSE alert[a]]
  /\ Runs(IF InGrace THEN Idle ELSE [at |-> "judge"])
  /\ UNCHANGED <<pcVars, settled>>

\* runOnce: the silent PCs whose people are expected now (office hours, holiday,
\* leave), without those that stopped cleanly.
Judge ==
  /\ check.at = "judge"
  /\ \E expected \in IF settled THEN {Pc} ELSE SUBSET Pc :
       LET down == {p \in expected : ~HeardOf(p) /\ stopped[p] = "no"}
       IN  Runs(IF down = {} THEN Idle ELSE [at |-> "raise", pcs |-> down])
  /\ UNCHANGED <<pcVars, alert, settled>>

\* Mutant: the throttle looks only at alerts not acknowledged or resolved yet.
ThrottledWhileOpen(p) == \E a \in Live : alert[a].pc = p /\ alert[a].open /\ alert[a].age < Throttle

\* isThrottledFor, over the rows raiseMany reads.
Throttled(p) == \E a \in Live : alert[a].pc = p /\ alert[a].age < Throttle

NewAlert(p) == [pc |-> p, age |-> 0, open |-> TRUE, channel |-> "none", mail |-> "no",
                news |-> quiet[p] = Long]

\* raiseMany: one check runs at a time, so nobody raises between its read and
\* its insert.
Raise ==
  /\ check.at = "raise"
  /\ LET loud == {p \in check.pcs : ~Throttled(p)}
     IN  \E into \in [loud -> Alert \ Live] :
           /\ \A p, q \in loud : into[p] = into[q] => p = q
           /\ alert' = [a \in Alert |-> IF \E p \in loud : into[p] = a
                                        THEN NewAlert(CHOOSE p \in loud : into[p] = a)
                                        ELSE alert[a]]
  /\ Runs(Idle)
  /\ UNCHANGED <<pcVars, settled>>

\* tick() catches what a query throws; the next tick starts over.
CheckFails == /\ ~settled /\ check # Idle /\ Runs(Idle)
              /\ UNCHANGED <<pcVars, alert, settled>>

Acknowledge(a) ==
  /\ ~settled /\ a \in Live /\ alert[a].open
  /\ alert' = [alert EXCEPT ![a].open = FALSE]
  /\ UNCHANGED <<pcVars, serverVars, settled>>

(***************************************************************************)
(* The mail: AlertDispatcher.                                              *)
(***************************************************************************)
Untold == {a \in Live : alert[a].channel = "none" /\ alert[a].age < MaxAge}

\* The oldest, a batch of them.
IsBatch(ids) ==
  /\ ids \subseteq Untold /\ Cardinality(ids) <= Batch
  /\ Cardinality(ids) < Batch => ids = Untold
  /\ \A a \in ids, b \in Untold \ ids : alert[a].age >= alert[b].age

PostTick ==
  /\ up # Down /\ "post" \in due
  /\ due' = due \ {"post"}
  /\ \E ids \in SUBSET Alert :
       IsBatch(ids) /\ post' = IF ids = {} THEN Idle ELSE [at |-> "send", ids |-> ids]
  /\ UNCHANGED <<pcVars, alert, tries, check, up, settled>>

\* What the owner has in his mailbox; once a mark or an answer was lost, who knows.
Mailed(mail, out) == IF out = "lost" \/ mail = "unsure" THEN "unsure"
                     ELSE IF mail = "no" THEN "once" ELSE "twice"

\* One mail for all: sent, refused, sent with the answer lost, or no address.
Send ==
  /\ post.at = "send"
  /\ \E out \in {"sent", "failed", "lost", "nobody"} :
       /\ alert' = [a \in Alert |-> IF a \in post.ids \cap Live /\ out \in {"sent", "lost"}
                                    THEN [alert[a] EXCEPT !.mail = Mailed(@, out)]
                                    ELSE alert[a]]
       /\ post' = [at |-> "mark", ids |-> post.ids,
                   out |-> IF out = "lost" THEN "failed" ELSE out]
  /\ UNCHANGED <<pcVars, tries, check, due, up, settled>>

UsedUp(ids) == {a \in ids : tries[a] + 1 >= MaxTries}

\* The failures counted: attempts forgotten where the mail is done with.
Counted(ids, out) ==
  [a \in Alert |-> CASE a \notin ids \/ out = "nobody"         -> tries[a]
                     [] out = "failed" /\ a \in ids \ UsedUp(ids) -> tries[a] + 1
                     [] OTHER                                      -> 0]

\* Mutant: attempts counted, and no mark once they are used up.
NeverMarked(ids, out) == IF out = "failed" THEN {} ELSE ids

\* The rows markSent writes: sent, given up, or kept for the log.
MarkedSent(ids, out) == IF out = "failed" THEN UsedUp(ids) ELSE ids

Mark ==
  /\ post.at = "mark"
  /\ tries' = Counted(post.ids, post.out)
  /\ alert' = [a \in Alert |-> IF a \in MarkedSent(post.ids, post.out) \cap Live
                               THEN [alert[a] EXCEPT !.channel = "marked"]
                               ELSE alert[a]]
  /\ post' = Idle
  /\ UNCHANGED <<pcVars, check, due, up, settled>>

\* What was sent and not marked will be sent again.
Unmarked == [a \in Alert |-> IF a \in Live /\ post.at = "mark" /\ a \in post.ids /\ post.out = "sent"
                             THEN [alert[a] EXCEPT !.mail = "unsure"] ELSE alert[a]]

\* markSent's update fails; countFailures has counted, for "sent" nothing is.
MarkFails ==
  /\ ~settled /\ post.at = "mark"
  /\ tries' = IF post.out = "failed" THEN Counted(post.ids, "failed") ELSE tries
  /\ alert' = Unmarked /\ post' = Idle
  /\ UNCHANGED <<pcVars, check, due, up, settled>>

(***************************************************************************)
(* The server, and time.                                                   *)
(***************************************************************************)
ServerStops ==
  /\ ~settled /\ up # Down
  /\ up' = Down /\ check' = Idle /\ post' = Idle /\ due' = {}
  /\ tries' = [a \in Alert |-> 0] /\ alert' = Unmarked
  /\ UNCHANGED <<pcVars, settled>>

ServerStarts == /\ up = Down /\ up' = 0 /\ due' = Tasks
                /\ UNCHANGED <<pcVars, alert, tries, check, post, settled>>

\* A row no code will look at again: told or too old, past the throttle, and
\* closed - or repeated by a newer one of its PC.
Aging(a) == IF a \in Live THEN [alert[a] EXCEPT !.age = Later(@, MaxAge)] ELSE NoAlert
Past(a) == /\ alert[a].age + 1 >= Throttle
           /\ alert[a].channel # "none" \/ alert[a].age + 1 >= MaxAge
           /\ ~alert[a].open \/ \E b \in Live : alert[b].pc = alert[a].pc /\ alert[b].age < alert[a].age

TenMinutes ==
  /\ due = {} /\ check = Idle /\ post = Idle
  /\ up # Down => \A p \in on : quiet[p] = 0
  /\ quiet' = [p \in Pc |-> Later(quiet[p], Long)]
  /\ gone' = Pc \ on
  /\ stopped' = [p \in Pc |-> IF stopped[p] = "now" THEN "before" ELSE stopped[p]]
  /\ alert' = [a \in Alert |-> IF a \in Live /\ Past(a) THEN NoAlert ELSE Aging(a)]
  /\ up' = IF up = Down THEN Down ELSE Later(up, Grace)
  /\ due' = IF up = Down THEN {} ELSE Tasks
  /\ UNCHANGED <<on, tries, check, post, settled>>

SettleDown == /\ ~settled /\ up # Down /\ settled' = TRUE
            /\ UNCHANGED <<pcVars, alert, serverVars>>

(***************************************************************************)
(* Specification.                                                          *)
(***************************************************************************)
AlertsInit ==
  /\ on = Pc /\ quiet = [p \in Pc |-> 0] /\ stopped = [p \in Pc |-> "no"]
  /\ gone = {}
  /\ alert = [a \in Alert |-> NoAlert] /\ tries = [a \in Alert |-> 0]
  /\ check = Idle /\ post = Idle /\ due = Tasks /\ up = 0 /\ settled = FALSE

CheckRun == CheckTick \/ Resolve \/ Judge \/ Raise
PostRun  == PostTick \/ Send \/ Mark
World    == \/ CheckFails \/ MarkFails \/ ServerStops \/ ServerStarts \/ SettleDown
            \/ \E p \in Pc : Starts(p) \/ \E told \in BOOLEAN : Stops(p, told)
            \/ \E a \in Alert : Acknowledge(a)

AlertsNext == CheckRun \/ PostRun \/ World \/ TenMinutes \/ \E p \in Pc : Heard(p)

\* The timers fire, the tasks end, the agents beat and time passes.
AlertsFairness == /\ WF_alertVars(CheckRun) /\ WF_alertVars(PostRun) /\ WF_alertVars(TenMinutes)
                  /\ \A p \in Pc : WF_alertVars(Heard(p))

AlertsSpec == AlertsInit /\ [][AlertsNext]_alertVars
LiveAlertsSpec == AlertsSpec /\ AlertsFairness

(***************************************************************************)
(* Properties.                                                             *)
(***************************************************************************)
\* The owner is told of a PC at most once in THROTTLE_HOURS, through restarts,
\* acknowledged and resolved alerts (alerts.rules.ts:118-125), and no mail goes out
\* twice but one whose mark was lost or whose answer never came
\* (alerts.dispatcher.ts:91-94).
Spaced(a, b) == alert[a].age >= alert[b].age + Throttle \/ MaxAge \in {alert[a].age, alert[b].age}
ToldOnce ==
  /\ \A a, b \in Live : a # b /\ alert[a].pc = alert[b].pc => Spaced(a, b) \/ Spaced(b, a)
  /\ \A a \in Live : alert[a].mail # "twice"

\* A PC that was running all the time is never called silent because the server
\* was not (alerts.scheduler.ts:66-75), nor one that said goodbye; a PC that comes
\* back between the check's read and its insert had been gone.
OnlyRealOutages ==
  [][ \A a \in Alert : alert[a] = NoAlert /\ alert'[a] # NoAlert
        => alert'[a].pc \in gone /\ stopped[alert'[a].pc] # "before" ]_alertVars

\* An outage nobody explained is told, throttle, failing mail and restarts
\* before it notwithstanding; and the alert of a PC that is back leaves the list.
Outage(p)  == p \notin on /\ stopped[p] = "no"
Told(p)    == \E a \in Live : alert[a].pc = p /\ alert[a].news /\ alert[a].channel # "none"
Listed(p)  == \E a \in Live : alert[a].pc = p /\ alert[a].open
AlertsSettle ==
  \A p \in Pc : settled ~> IF p \in on THEN ~Listed(p) ELSE Outage(p) => Told(p)

\* What is told is told once, and is true.
AlertsSound == []ToldOnce /\ OnlyRealOutages
=============================================================================
