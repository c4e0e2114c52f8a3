------------------------------ MODULE Watchdog ------------------------------
(***************************************************************************)
(* The watchdog process beside the agent: every period it reads its clock, *)
(* then the agent's lock, then the heartbeat, decides, and acts            *)
(* (WatchdogLoop.Tick);                                                    *)
(* RestartLadder spaces its launches.  The agents are the other actors:    *)
(* they start, take the lock, beat, freeze, thaw, crash, quit, and are     *)
(* started by the user.  The PC sleeps, which the ladder's clock counts    *)
(* and the heartbeat's does not.                                           *)
(*                                                                         *)
(* Time is counted in periods of the loop (30 s).  A clock value appears   *)
(* as its age, up to the largest age the code tells apart.  The age of a   *)
(* beat is counted from the clock the watchdog has read for this tick; a   *)
(* beat made after that reading may have the age Newer.                    *)
(***************************************************************************)
EXTENDS Integers

CONSTANTS Pid,           \* process ids, reused
          NoPid,
          StaleAfter,    \* AgentLiveness.StaleAfter
          BaseDelay, Multiplier, MaxDelay, GiveUpAfter, CoolOff, StabilityWindow  \* RestartPolicy

ASSUME WatchdogAssumption ==
  /\ NoPid \notin Pid
  /\ StaleAfter \in Nat
  /\ BaseDelay \in Nat \ {0} /\ Multiplier \in Nat \ {0}
  /\ MaxDelay \in Nat /\ MaxDelay >= BaseDelay
  /\ GiveUpAfter \in Nat \ {0}
  /\ CoolOff \in Nat /\ CoolOff >= MaxDelay
  /\ StabilityWindow \in Nat \ {0}

VARIABLES proc,       \* what each process is: gone, starting, locked, beating, frozen, leaving
          holder,     \* who holds agent.lock
          beat,       \* agent.alive: whose it is and its age
          lastGood,   \* HeartbeatReader._lastGood
          ladder,     \* failures, periods since the last launch and since healthySince, alarm
          alarmFile,  \* watchdog.alarm
          onDisk,     \* _alarmOnDisk
          tick,       \* what is left of this period's tick
          calm,       \* from now on nothing fails and the session can be supervised: the
                      \* condition of the liveness property
          streak      \* history: looks in a row that found the agent healthy, or Gapped

worldVars == <<proc, holder, beat, calm>>
dogVars   == <<lastGood, ladder, alarmFile, onDisk, tick, streak>>
watchVars == <<worldVars, dogVars>>

NoBeat   == [pid |-> NoPid, age |-> 0]
Never    == -1                    \* healthySince = null
Newer    == -1                    \* the age of a beat written after the tick's clock was read
Gapped   == -1                    \* the PC slept or a look was blind since the row began
Resting  == [do |-> "nothing"]
Smallest(a, b) == IF a < b THEN a ELSE b

(***************************************************************************)
(* RestartLadder.                                                          *)
(***************************************************************************)
NewLadder == [failures |-> 0, since |-> 0, steady |-> Never, alarm |-> FALSE]
Exhausted == ladder.failures >= GiveUpAfter

DelayAfter == LET delay[n \in Nat] == IF n <= 1 THEN BaseDelay ELSE Multiplier * delay[n - 1]
              IN  Smallest(delay[ladder.failures], MaxDelay)

\* Mutant: after the alarm nothing is tried any more.
MayLaunchOnce == \/ ladder.failures = 0
                 \/ ~Exhausted /\ ladder.since >= DelayAfter

MayLaunch == \/ ladder.failures = 0
             \/ ladder.since >= IF Exhausted THEN CoolOff ELSE DelayAfter

\* failures above GiveUpAfter are not told apart.
RecordLaunch == [failures |-> Smallest(ladder.failures + 1, GiveUpAfter + 1), since |-> 0,
                 steady |-> Never, alarm |-> ladder.alarm]

\* Mutant: an unhealthy look does not end the steady time.
ObservedOnce(healthy) ==
  LET steady == IF ladder.steady = Never THEN 0 ELSE ladder.steady
  IN  IF ~healthy THEN ladder
      ELSE IF steady >= StabilityWindow THEN NewLadder
      ELSE [ladder EXCEPT !.steady = steady]

\* Mutant: a steady window takes one failure back, however many there were.
ObservedDown(healthy) ==
  LET steady == IF ladder.steady = Never THEN 0 ELSE ladder.steady
  IN  IF ~healthy THEN [ladder EXCEPT !.steady = Never]
      ELSE IF steady >= StabilityWindow THEN [NewLadder EXCEPT !.failures = ladder.failures - 1]
      ELSE [ladder EXCEPT !.steady = steady]

Observed(healthy) ==
  LET steady == IF ladder.steady = Never THEN 0 ELSE ladder.steady
  IN  IF ~healthy THEN [ladder EXCEPT !.steady = Never]
      ELSE IF steady >= StabilityWindow THEN NewLadder
      ELSE [ladder EXCEPT !.steady = steady]

Aged(l, n) == [failures |-> l.failures, since |-> Smallest(l.since + n, CoolOff),
               steady |-> IF l.steady = Never THEN Never ELSE Smallest(l.steady + n, StabilityWindow),
               alarm |-> l.alarm]

(***************************************************************************)
(* The tick: the clock, the lock, the heartbeat; then act.                 *)
(***************************************************************************)
\* Mutant: the first good beat is kept.
FirstGood == IF lastGood = NoBeat THEN beat ELSE lastGood

\* HeartbeatReader.Read: a file that is missing leaves the last good beat.
ReadBeat == IF beat = NoBeat THEN lastGood ELSE beat

\* A beat newer than the clock it is held against is not fresh.
Fresh(b) == b.pid # NoPid /\ b.age \in 0..StaleAfter
Alive(p) == p # NoPid /\ proc[p] # "gone"

Health(b) == IF ~tick.held THEN "not running"
             ELSE IF Fresh(b) THEN "healthy"
             ELSE IF Alive(b.pid) THEN "wedged" ELSE "unreachable"

\* The clock was read when the period ended; now the lock is tried.
ProbeLock == /\ tick.do = "look"
             /\ tick' = [do |-> "read", held |-> holder # NoPid]
             /\ UNCHANGED <<worldVars, lastGood, ladder, alarmFile, onDisk, streak>>

\* A look that learns nothing: the clock cannot be read, in which case neither
\* is the heartbeat; or the lock cannot be probed, the session is not one to
\* supervise, or Windows is shutting down.  The ladder is not told.
Blind ==
  /\ ~calm
  /\ \/ tick.do = "look" /\ UNCHANGED lastGood
     \/ tick.do = "read" /\ lastGood' \in {ReadBeat, lastGood}
  /\ tick' = Resting /\ streak' = Gapped
  /\ UNCHANGED <<worldVars, ladder, alarmFile, onDisk>>

\* WatchdogPolicy.Decide, with the lock probed before and the beat b; recalled
\* says that b was not read from the file now.
Decide(b, recalled) ==
  /\ lastGood' = b
  /\ ladder' = Observed(Health(b) = "healthy")
  /\ tick' = IF Health(b) = "healthy" /\ onDisk /\ ~ladder'.alarm THEN [do |-> "clear"]
             ELSE IF Health(b) \in {"healthy", "unreachable"} THEN Resting
             ELSE IF Exhausted /\ ~ladder.alarm THEN [do |-> "give up"]
             ELSE IF ~MayLaunch THEN Resting
             ELSE IF Health(b) = "wedged"
                  THEN [do |-> "kill", pid |-> b.pid, was |-> proc[b.pid],
                        newer |-> b.age = Newer, recalled |-> recalled]
                  ELSE [do |-> "start"]
  /\ streak' = IF Health(b) # "healthy" THEN 0
               ELSE IF streak = Gapped THEN Gapped ELSE Smallest(streak + 1, StabilityWindow + 1)

\* The file may be impossible to open at that moment.
Look ==
  /\ tick.do = "read"
  /\ \/ Decide(ReadBeat, beat = NoBeat)
     \/ ~calm /\ Decide(lastGood, TRUE)
  /\ UNCHANGED <<worldVars, alarmFile, onDisk>>

Clear == /\ tick.do = "clear"
         /\ alarmFile' = FALSE /\ onDisk' = FALSE /\ tick' = Resting
         /\ UNCHANGED <<worldVars, lastGood, ladder, streak>>

\* Writing the file may fail; the loop goes on as if it were there.
GiveUp == /\ tick.do = "give up"
          /\ alarmFile' \in {TRUE, alarmFile}
          /\ onDisk' = TRUE /\ ladder' = [ladder EXCEPT !.alarm = TRUE] /\ tick' = Resting
          /\ UNCHANGED <<worldVars, lastGood, streak>>

\* TryKill: the process dies and its lock goes with it, now or a moment later;
\* or it is not killed, which costs a step of the ladder.
Kill ==
  /\ tick.do = "kill"
  /\ \/ /\ proc' = [proc EXCEPT ![tick.pid] = "gone"]
        /\ holder' \in {holder, IF holder = tick.pid THEN NoPid ELSE holder}
        /\ tick' = [do |-> "probe"] /\ UNCHANGED ladder
     \/ /\ ~calm \/ proc[tick.pid] = "gone"
        /\ ladder' = RecordLaunch /\ tick' = Resting
        /\ UNCHANGED <<proc, holder>>
  /\ UNCHANGED <<beat, calm, lastGood, alarmFile, onDisk, streak>>

Probe == /\ tick.do = "probe"
         /\ tick' = IF holder = NoPid THEN [do |-> "start"] ELSE Resting
         /\ UNCHANGED <<worldVars, lastGood, ladder, alarmFile, onDisk, streak>>

\* RecordLaunch first; then the executable may be missing or blocked.
StartAgent ==
  /\ tick.do = "start"
  /\ ladder' = RecordLaunch /\ tick' = Resting
  /\ streak' = 0
  /\ \/ \E p \in Pid : proc[p] = "gone" /\ proc' = [proc EXCEPT ![p] = "starting"]
     \/ (~calm \/ \A p \in Pid : proc[p] # "gone") /\ UNCHANGED proc
  /\ UNCHANGED <<holder, beat, calm, lastGood, alarmFile, onDisk>>

\* The watchdog is stopped and started again: all it knew is gone.
WatchdogRestarts ==
  /\ ~calm
  /\ lastGood' = NoBeat /\ ladder' = NewLadder /\ onDisk' = alarmFile
  /\ tick' = Resting /\ streak' = 0
  /\ UNCHANGED <<worldVars, alarmFile>>

(***************************************************************************)
(* The agents.                                                             *)
(***************************************************************************)
Become(p, from, to) == proc[p] \in from /\ proc' = [proc EXCEPT ![p] = to]

UserStarts(p) == /\ ~calm /\ Become(p, {"gone"}, "starting")
                 /\ UNCHANGED <<holder, beat, calm, dogVars>>

\* LivenessBeacon.TryAcquire.  The watchdog's own probe opens the file too, for
\* a moment, and an agent that comes just then goes away.
Probing == tick.do \in {"look", "probe"}

Acquire(p) ==
  /\ \/ holder = NoPid /\ Become(p, {"starting"}, "locked") /\ holder' = p
     \/ (holder # NoPid \/ Probing) /\ Become(p, {"starting"}, "gone") /\ UNCHANGED holder
  /\ UNCHANGED <<beat, calm, dogVars>>

\* LivenessBeacon.Write, every 15 s; while the watchdog looks it may come on
\* either side of its clock.
Looking    == tick.do \in {"look", "read"}
NewBeat(p) == \E a \in IF Looking THEN {Newer, 0} ELSE {0} : beat' = [pid |-> p, age |-> a]

FirstBeat(p) == /\ Become(p, {"locked"}, "beating") /\ NewBeat(p)
                /\ UNCHANGED <<holder, calm, dogVars>>
BeatsOn(p)   == /\ Looking /\ proc[p] = "beating" /\ NewBeat(p)
                /\ UNCHANGED <<proc, holder, calm, dogVars>>

\* An agent that no longer writes its beat: hung, or the disk is full.
Freeze(p) == /\ ~calm /\ Become(p, {"locked", "beating"}, "frozen")
             /\ UNCHANGED <<holder, beat, calm, dogVars>>
Thaw(p)   == /\ ~calm /\ Become(p, {"frozen"}, "beating") /\ NewBeat(p)
             /\ UNCHANGED <<holder, calm, dogVars>>

Crash(p) == /\ ~calm /\ Become(p, {"starting", "locked", "beating", "frozen", "leaving"}, "gone")
            /\ holder' = IF holder = p THEN NoPid ELSE holder
            /\ UNCHANGED <<beat, calm, dogVars>>

\* Dispose: the lock is released, then the file deleted, whosever it is by now.
Quit(p) == /\ ~calm /\ Become(p, {"locked", "beating"}, "leaving") /\ holder' = NoPid
           /\ UNCHANGED <<beat, calm, dogVars>>
DeleteBeat(p) == /\ Become(p, {"leaving"}, "gone") /\ beat' = NoBeat
                 /\ UNCHANGED <<holder, calm, dogVars>>

\* The lock of a killed process.
LockFreed == /\ holder # NoPid /\ proc[holder] = "gone" /\ holder' = NoPid
           /\ UNCHANGED <<proc, beat, calm, dogVars>>

(***************************************************************************)
(* Time and circumstances.                                                 *)
(***************************************************************************)
Older(b) == IF b = NoBeat THEN b
            ELSE [b EXCEPT !.age = Smallest(@ + 1, StaleAfter + 1)]

\* A period: the agent that beats has beaten, and none is between the two
\* statements of Dispose.  In calm times a period is longer than a start or a
\* release.
Settled == /\ \A p \in Pid : proc[p] \notin {"starting", "locked"}
           /\ holder # NoPid => proc[holder] # "gone"

Period ==
  /\ tick = Resting /\ (calm => Settled) /\ \A p \in Pid : proc[p] # "leaving"
  /\ beat' = IF holder # NoPid /\ proc[holder] = "beating" THEN [pid |-> holder, age |-> 0]
             ELSE Older(beat)
  /\ lastGood' = Older(lastGood)
  /\ ladder' = Aged(ladder, 1)
  /\ tick' = [do |-> "look"]
  /\ UNCHANGED <<proc, holder, calm, alarmFile, onDisk, streak>>

\* The unbiased clock of the heartbeat stands still; the ladder's runs on.
PcSleeps == /\ ~calm /\ tick = Resting /\ ladder # Aged(ladder, CoolOff + StabilityWindow)
            /\ ladder' = Aged(ladder, CoolOff + StabilityWindow) /\ streak' = Gapped
            /\ UNCHANGED <<worldVars, lastGood, alarmFile, onDisk, tick>>

CalmDown == /\ ~calm /\ tick = Resting /\ calm' = TRUE
            /\ UNCHANGED <<proc, holder, beat, dogVars>>

(***************************************************************************)
(* Specification.                                                          *)
(***************************************************************************)
WatchInit ==
  /\ proc = [p \in Pid |-> "gone"] /\ holder = NoPid /\ beat = NoBeat
  /\ calm = FALSE
  /\ lastGood = NoBeat /\ ladder = NewLadder /\ alarmFile = FALSE /\ onDisk = FALSE
  /\ tick = Resting /\ streak = 0

Tick  == ProbeLock \/ Blind \/ Look \/ Clear \/ GiveUp \/ Kill \/ Probe \/ StartAgent
Comes(p)  == Acquire(p) \/ FirstBeat(p) \/ DeleteBeat(p)
Agent(p)  == UserStarts(p) \/ BeatsOn(p) \/ Freeze(p) \/ Thaw(p) \/ Crash(p) \/ Quit(p)

WatchNext ==
  \/ Tick \/ WatchdogRestarts
  \/ \E p \in Pid : Comes(p) \/ Agent(p)
  \/ LockFreed \/ Period \/ PcSleeps \/ CalmDown

\* The loop waits for its period and nothing else, and the processes run.
WatchFairness == /\ WF_watchVars(Tick) /\ WF_watchVars(Period)
                 /\ WF_watchVars(LockFreed)
                 /\ \A p \in Pid : WF_watchVars(Comes(p))

WatchSpec == WatchInit /\ [][WatchNext]_watchVars
LiveWatchSpec == WatchSpec /\ WatchFairness

(***************************************************************************)
(* Properties.                                                             *)
(***************************************************************************)
\* The shapes.  One agent at a time holds the lock, and only the holder beats or
\* hangs (LivenessBeacon.cs:45-73).  No launch is beyond the ladder without the
\* alarm, which stays up until the ladder has started over
\* (WatchdogPolicy.cs:197-206, WatchdogLoop.cs:101).
WatchTypeOK ==
  /\ proc \in [Pid -> {"gone", "starting", "locked", "beating", "frozen", "leaving"}]
  /\ holder \in Pid \cup {NoPid}
  /\ {beat, lastGood} \subseteq [pid : Pid \cup {NoPid}, age : Newer..StaleAfter + 1]
  /\ {calm, alarmFile, onDisk} \subseteq BOOLEAN
  /\ ladder \in [failures : 0..GiveUpAfter + 1, since : 0..CoolOff,
                 steady : Never..StabilityWindow, alarm : BOOLEAN]
  /\ tick \in [do : {"nothing", "look", "clear", "give up", "probe", "start"}]
             \cup [do : {"read"}, held : BOOLEAN]
             \cup [do : {"kill"}, pid : Pid, was : {"starting", "locked", "beating", "frozen", "leaving"},
                   newer : BOOLEAN, recalled : BOOLEAN]
  /\ streak \in Gapped..StabilityWindow + 1
  /\ \A p \in Pid : proc[p] \in {"locked", "beating", "frozen"} => holder = p
  /\ ladder.failures > GiveUpAfter \/ (tick.do = "start" /\ Exhausted) => ladder.alarm /\ onDisk

\* An agent that was beating when the watchdog looked is killed in two cases
\* only, through reused pids, deleted files, beats remembered from earlier looks
\* and locks that change hands while it looks.  Its beat fell between the
\* watchdog's clock and its reading of the file, and the code takes an age below
\* zero for a file of the last boot (WatchdogLoop.cs:136-140,
\* WatchdogPolicy.cs:130-136); or the file was not there to read, and the beat
\* remembered instead was an old one with the same pid (HeartbeatReader.cs:22-32).
BeatingSpared == tick.do = "kill" => tick.was # "beating" \/ tick.newer \/ tick.recalled

\* The ladder starts over only for an agent found healthy at every look of a
\* whole window (RestartLadder.cs:84-85) - unless the PC slept or a look was blind
\* within that window, which the ladder's clock counts as health.  (A restart of
\* the watchdog, with which the row begins anew, forgets the ladder.)
SteadinessEarned == [][ (ladder.failures > 0 /\ ladder'.failures = 0 /\ streak' # 0)
                          => streak' = Gapped \/ streak' > StabilityWindow ]_watchVars

\* Once nothing fails any more an agent runs again and again, whatever state the
\* ladder, the processes and the files were left in, and it runs for good unless
\* its beats fall between the watchdog's clock and its reading time after time;
\* except for a frozen agent whose pid no heartbeat names, which the watchdog
\* leaves alone (WatchdogPolicy.cs:150-241, RestartLadder.cs).
Foreign  == holder # NoPid /\ proc[holder] = "frozen" /\ ReadBeat.pid # holder
Guarded  == holder # NoPid /\ proc[holder] = "beating"
Raced    == tick.do = "kill" /\ tick.newer
AgentComesBack == <>calm => /\ []<>(Guarded \/ Foreign)
                            /\ <>[](Guarded \/ Foreign) \/ []<>Raced

\* A healthy agent is spared but for those two, and only a healthy one resets
\* the ladder.
WatchdogSound == []BeatingSpared /\ SteadinessEarned
=============================================================================
