# Verification of the oXeio monitor

The oXeio monitor measures the working time of an office's staff. A Windows
agent (`oxeio-monitor/agent/src`, C#) turns input, lock and power events into
*activity segments*, takes screenshots, keeps everything in an offline queue and
uploads it; a NestJS server (`oxeio-monitor/server/src`, TypeScript) stores it,
rolls it up into daily and monthly summaries, closes months for payroll, and
manages leave, deposits, design targets, agent releases, alerts and backups; a
React application (`oxeio-monitor/web/src`) shows it. Pay follows from these
figures, so the questions asked here are: is any time paid twice, is any lost,
is it booked on the right person, and does a closed month stay what it was?

`PROJECT.json` maps every definition to the lines it stands for and lists the
runs, mutants, findings, hazards and theorems. To repeat a run:
`tlc -config MCDesk.cfg MCDesk.tla`; a proof: `tlapm IngestProofs.tla`.

## 1. The system and its parts

| Component | State it keeps | Operations modelled | Modules |
|---|---|---|---|
| Idle state machine (`oXeio.Core/Tracking`) | state and start of the open segment | `Tick`, `OnSuspend`, `OnResume`, `CloseAll`, both splits | `IdleStateMachine` |
| Agent host, tracking threads | the sample, the gap detector's last look, the pending configuration | an iteration of `TrackLoop`, `OnPower`, `ReloadConfig`, `DisposeAsync` | `AgentHost` |
| Outbox and sync worker | rows with lease and not-before time, batch size, "revoked" | enqueue, lease, ack, retry, abandon, reclaim, evict, open; a drain | `Outbox` over `RecordDelivery` |
| Sign-in, credentials, gates | who is signed in: in memory, on disk, in the client | sign in, sign out and sweep, revoke, restart | `SignIn` |
| Enrolment (agent and server) | token file, device row, code | by code or login, retries, probe; `bind` | `Enrolment`, `SignIn` |
| Camera loop | slots, fingerprints, suspicion of a frozen screen | a turn of `CaptureLoopAsync` | `CaptureLoop` |
| Application usage | the open stretch | a tick, a new configuration, disposal | `AppUsage` |
| Screenshots | file, row, sweep; the server's row, file, thumbnail | capture, upload, retention | `Screenshots` |
| Ingest and work sessions | segments, sessions, farewells | `ingestSegments`, `applySessionEffects`, day close | `WorkSessions` |
| Summaries, adjustments, month close | daily and monthly rows, marks, closures | `refreshDate`, `refreshMonth`, `drainDirty`, jobs K05 and K06, create and revoke, close and reopen | `SummaryRollup` |
| Deposits, leave, salary, settlement | ledger, leave days, salary history | their requests against `month_closures` | `ClosedBooks` |
| A line of the pay sheet | what is on record of a month | every entry; the recounts; `computePayroll` | `PayMonth` |
| Design targets | rows of `design_targets` | distribute, top up, done, skip, night return; the stages after it | `DesignRows`, `TargetPool`, `TargetStages` |
| Releases | stage of each version, pilot; files on a PC | publish, stages, hourly job; download, compare, install | `Rollout`, `UpdateStaging` |
| Watchdog | ladder, alarm file | `WatchdogLoop.Tick` beside the agents | `Watchdog` |
| Alerts | alerts, throttle, attempts | agent-down check, dispatcher, resolution | `Alerts` |
| Backups | dumps on two disks, state row | dump, renames, copy, rotations, verdict | `Backups` |
| Web application | links of a gallery page; idle clocks of tabs | `useFreshUrls`; `useIdleLogout` and the cookie | `FreshUrls`, `IdleTabs` |
| Digests, reports, dashboard | none of their own | read-only queries | not modelled |

How a second of work travels: the tracker samples the input and calls the
machine; a closed segment is handed to the outbox in the background (`Record`
does not wait); a drain leases rows and posts them with the token the client
holds *at that moment*; the server books them on the employee the device is
bound to, widens the session of the date, marks the day if it is over already;
the jobs recount the marked days and their months until a month is closed; the
payroll multiplies what it finds there with the salary of the month.

What is hard, and so what the models keep:

* **Old values.** The tracker reads the clock once and passes it through several
  lock acquisitions. Services look at `month_closures`, at a design, at a stage in one
  statement and write in a later one.
* **Steps that are not one step.** Sign-out (memory, disk, survey, evict), sign-in
  (bind, disk, memory), a recount (read, write, sum, write), file and row of a
  picture, dump and rename have no transaction around them.
* **At-least-once delivery.** Answers get lost, requests come late, leases run out
  while the PC sleeps, writes fail silently, every process dies anywhere.
* **Shared state.** Two drains share one batch size; K05, K06 and an adjustment recount
  the same month; two jobs hand out the same designs.
* **Time.** Clocks step back, midnights fall inside segments, 00:15 is missed, a
  PC's clock is wrong and corrected differently in each request.

The full list, at the line where each bites, is `hazards` in `PROJECT.json`.

## 2. The modules and the code

An action is one handler, or one statement of it where others may come between
two statements; what a lock or a transaction joins is one step. Variables named
`slips`, `slipped`, `holes`, `moved`, `wiped`, `missed`, `overlooked`, `orphan`
are histories: the step that causes a known defect writes down that it did, and
the property then says that there is *no other* way. Each such excuse is a
behaviour of the code; section 7 names them.

**IdleStateMachine.** One action per public method, each under the object's lock in
the code. `Next` allows any method with any instant in any order, so the properties
need nothing of the callers. A midnight is a multiple of `DayLength`; the splits are
`Pieces`, `MidnightCuts`, `LongCuts`. `emitted` is everything returned so far.

**AgentHost.** The tracker's iteration is `ReadSample`, `ApplyConfig`, `Observe`,
`TrackTick`: one step per lock acquisition, with the message pump and disposal
in between. The machine is used through `INSTANCE`, so its steps are the
machine's methods. `site` says whether Windows announces sleeps and which
thresholds the office may set.

**Outbox, RecordDelivery.** A store method is one statement under the write gate. A
drain's steps interleave with the other drain's; a write may fail, silently as in
the code. `RecordDelivery` is what the queue promises, and `Outbox` implements it
under the mapping `Delivery`.

**SignIn, Enrolment.** `SignIn` has the three places of the credentials, the gate, the
sweep, the revocation that comes with a heartbeat, and the device row; a segment is
a number, `of[s]` who was signed in while it lasted. `Enrolment` has how a token
comes to be: codes, logins, two Windows accounts on a PC, a cloned PC, the probe.

**CaptureLoop, AppUsage, Screenshots.** The loop that owns the camera with its two
clocks as ages; the stretch in front with the second thread that may close it; and
the picture's way from file and row on the PC to row, file and thumbnail on the
server, which are never written in one step at either end.

**WorkSessions.** Two devices' requests read a session and write it later;
a request is corrected by a drift of its own, so that the same segment may come
again for other instants or another date.

**SummaryRollup.** One employee. A row stands for what it was counted from, two
counters. `Read`, `WriteDay`, `SumMonth`, `WriteMonth` are the queries of
`refreshDate` and `refreshMonth`, the same for K06, K05 and an adjustment (`run[j]`).

**ClosedBooks, PayMonth.** `ClosedBooks` has the requests that R1 (a closed month
stands) is about, `paper` what payroll said when the month was closed. `PayMonth`
takes a recount as one step and asks who has one made; it adds the arithmetic
of a line: proration, observed days, extra time, deductions.

**DesignRows, TargetPool, TargetStages.** A row and what each statement does to it;
the pool with overlapping requests; the stages, whose marks read and write in two
statements.

**Rollout, UpdateStaging.** The server's stages with the pilot, the owner and the
hourly job; one PC's loop, its `.part` files and the tray. A hash that decides a
device's turn is the constant `FirstStage`.

**Watchdog, Alerts, Backups.** The loop beside agents that start, freeze, thaw, crash and
quit. A look reads the clock (`Period`), the lock (`ProbeLock`) and the heartbeat (`Look`) one
after the other, and agents act in between: a beat may be newer than the clock it is held
against (`Newer`), and such a beat is not fresh, as in `WatchdogPolicy.Classify`. A clock, lock or
session that tells nothing is a `Blind` look. The check, throttle and mail of one alert kind; the dump with two
rotations, failing or dying between any two steps.

**FreshUrls, IdleTabs.** The hook that renews the links of a page left open, with
React's renders in between: any link may lapse, any picture be shown anew, any answer lack
pictures or bring the same link, any load fail on the network. What loses its second chance in
one of these ways is in `excused`. Tabs with clocks of their own and the cookie: `localStorage`
may throw (`mute`), `me()` may fail after `lastPing` has moved (`missed`), and the computer may sleep
through any number of ticks (`TimePasses`, `slept`). A unit of time is a minute, what a browser may
hold back the timer of a hidden tab; the office's other values of the timeout are other constants.

`MC*` modules give constants their values. `MCAgent`, `MCDelivery`, `MCDesk`,
`MCJobs`, `MCWatch` and `MCOffice` check several modules in one run: modules that
share no state take no step together, and `focus`, chosen in the initial state, says
which one moves; nothing is lost by it, since a property speaks of one of
them (and section 4 proves that the others stutter). A comment marks the altered copies of a definition (mutants) the properties
are tested against; no specification uses them.

## 3. What the runs show

| Run | What is in it | Result |
|---|---|---|
| `agent` | `AgentHost` where the threshold is left alone, `SignIn` | The three threads are callers of one machine (`UsesOneMachine`); the gap detector alone keeps sleep out of work; idle time is taken back; an hour is credited once, on somebody else only if a sweep could not take it; a sign-in outlives a restart |
| `delivery` | `IdleStateMachine`, `Outbox`, `WorkSessions`, `SummaryRollup`, `Screenshots` | Segments tile the time and fall into one date; no row has two senders whose leases run, and nothing vanishes; late hours are lost in the named ways only; a closed month moves only by a recount that had found it open; a picture the agent deletes is whole on the server; a session holds its segments, each stored once |
| `desk` | `TargetPool`, `TargetStages`, `ClosedBooks`, `PayMonth`, `Rollout`, `UpdateStaging`, `Backups` | Rows change hands once and the cap holds; no stage is jumped; paper figures stand; a line of the sheet is the ledger of its days and of what was entered in time; no version is moved on without proof; only published bytes run; silence of the backups means a good dump |
| `silence` | `Watchdog`, `Alerts`, with fairness | A healthy agent is killed in two named cases only, the alarm is up before the slow attempts, an agent comes back; an outage is told once, in time, and not forgotten |
| `office` | `CaptureLoop`, `AppUsage`, `FreshUrls`, `IdleTabs`, `Enrolment` | The loop neither spins nor keeps its own suspicion alive; stretches are true to what was looked at; no picture hangs, and none is called gone but in the named cases; tabs and cookie agree, but for the named failures; the token on disk is the one the server knows |
| `outbox_live` | `Outbox`, with fairness | Every row leaves the table |
| `jobs_live` | `SummaryRollup`, `Rollout`, `UpdateStaging`, with fairness | The current day and month become right, every mark leaves; a sound version reaches everybody and gets ready on the PC |
| `sleep_notified` | `AgentHost` | **Violation:** a suspend handled between the tracker's sleep check and its tick is undone by that tick; the sleep is work |
| `hours_before` | `SignIn` | **Violation:** time before a sign-in is booked on whoever signs in |
| `lost_mark` | `SummaryRollup` | **Violation:** a segment that commits while its day is recounted finds the old mark, which the tick then removes |
| `whole_leave` | `PayMonth` | **Violation:** one person on leave on every workday makes the payroll sheet of everybody throw |
| `day_shots` | `FreshUrls` | **Violation:** `DayShots` passes a new query object on every render; the render a failing picture causes aborts the request for its new link |

The violations are disagreements of code and comments; `findings` quotes both. Each
property of a passing run has a mutant, an altered definition under which TLC finds it
violated.

### Bounds, and why they suffice

* *Idle machine:* seven instants, dates of three and pieces of at most two give
  every order of a midnight, a long cut, a threshold and an instant before, at or
  after the open segment's start. What it says is proved for all values.
* *Agent host:* the hazards need one message or one sleep between two steps of an
  iteration, and two events hold them. A threshold of three cadences, pieces of two and six
  instants hold a length split and the iteration that then finds the user idle.
  `GapTolerance` is no less than a cadence, as a normal iteration must not look like a sleep.
* *Outbox:* two rows are a head and a follower, a batch that is full and one that is
  not, and one halving; a second drain shares the narrowing; one mishap at any place.
* *Sign-in:* properties speak of one segment, and segments do not influence one another (a
  lease or a sweep takes all there are); two bindings are one hand-over. The two
  people are interchangeable, hence the symmetry. `MaxBind = 2` hides one case the proof
  found (section 5); it is proved for any number.
* *Rollup:* two-day months over three days give a first and a last day, a past and
  a current month; two events hold an upload with a closing, an adjustment, a
  failure or another upload. `PerTick = 1` makes a second mark wait.
* *Screenshots, sessions:* two shots, two paths and two requests; two segments, two PCs'
  batches, two owners, a clock that is right or fast: the least in which one overtakes
  the other; of two shots in one slot, which are alike, one is sent under two drifts. One mishap,
  two lost answers.
* *Targets:* two rows, two designers with a target of one each, two overlapping calls
  and a third after them. *Stages:* two slots for requests, one design.
* *Books:* three months hold a start month, a closed and a current one; two clerks, two
  amounts, three changes. *Pay month:* in `desk` a month of two days without a weekly
  day off, with three doings of any kind; `whole_leave` has three days and one off.
* *Releases:* two devices whose turns differ, two builds, three orders (a publication, a
  stage, and one that overtakes). The case the proof found needs four (section 5).
* *Watchdog, alerts:* two pids, a ladder of two launches, delays 1 and 2; one PC, two
  alerts, a throttle of two periods and two attempts. *Backups:* five nights, two kept.
* *Office:* two windows; two pictures, two seconds of signing and two pages, so that an answer
  can serve one picture and not the other; two tabs, one to be touched and one to hear of it,
  with a timeout of five units, the least the assumptions allow with pings of two; of the enrolment two
  accounts, two tokens and one mishap.

Histories, counters and days are bounded in the guards; every bound is a CONSTANT
commented as such. `CHECK_DEADLOCK FALSE` is set where a bounded run ends: no
day, event or instant is left. That the capture loop never waits for nothing is part of
`LoopSound`.

### Fairness

*Outbox.* The sync loop is a timer around a drain and swallows every exception, so a
drain always takes its next step; a request has a timeout; waiting times and leases
run out by themselves: weak fairness. Of the network, strong fairness that whoever
keeps asking is at some time heard. Rows parked by a revocation are excepted, as in
the code. *Rollup.* The scheduler fires K06 every fifteen minutes and K05 daily and
database calls return: weak fairness of the jobs, of the ingest transaction and of
an adjustment; nothing of users, uploads or midnight. *Releases.* Requests and jobs
come to an end, devices keep beating (weak); the hourly job is scheduled and hours pass
however often the owner interferes (strong, as either may be interrupted). *Staging.* The six-hour
loop and the installer's start (weak). *Watchdog.* Its timer, the passing of time, the
operating system's release of a dead process' lock and the start of a launched process
(weak); nothing makes an agent thaw or a person act, and nothing keeps a beat from falling between
the clock and the reading, so `AgentComesBack` lets an agent be killed for that time and again and
says that one is back each time. *Alerts.* Both tasks, the passing
of ten minutes and the beat of a PC that is up (weak).

## 4. What is proved

TLAPS checks the following for every value of the constants under the named
assumptions of the modules, which say that bounds are naturals, lengths and sizes
positive and sets of people, rows and devices finite where the code counts them, and
which TLC evaluates in the runs. A theorem that states a property of a run has its
name in brackets.

* **IdleStateMachineProofs**: types; `ClosedIsPast`; `WithinOneDate` (`OneWorkDate`);
  `Tiles` (`Tiled`: no overlap, no hole). None of these is inductive alone: that a
  new segment misses the earlier ones needs that these ended before the open one
  began. `FreshPreserves` is the argument: what a method emits lies between the old and the
  new start of the open segment, touches both and spans no midnight. That there is no
  hole rests on the order of the cuts: a piece's end is the *least* cut after its
  start, and `Least` gets it from the well-foundedness of the naturals.
* **AgentHostProofs**: `ImplementsMachine` (`UsesOneMachine`), a refinement: where the
  office leaves the threshold alone, every step of the host is a call of one machine
  with arguments it accepts or leaves it as it is. Hence `NothingPaidTwice`.
  `SleepsNoticed` (`DetectorSuffices`), by `SleepInv`: with nothing announced the detector's
  last look is that of the last iteration (`LookInv`), so a primed iteration that has a sleep
  behind it finds the gap before it ticks (`Noticed`), and no open segment reaches over one.
  `SplitsAreSafe` (`CutsAreSafe`), by `CrashInv` and `RetroInv`: an iteration is never more
  than a cadence behind the last (`OnTime`), an open stretch of work never outgrows the
  longest segment and the threshold (`Young`), and what a split has sent ends the threshold
  before its iteration (`Sent`), so before any input that can make the user idle now.
  Over `Watchdog`, `LadderHasAlarm` (`WatchTypeOK`) and `HealthySpared` (`WatchdogSound`), by
  `WatchInv`: a beating agent's file is its own, and fresh or newer than the watchdog's clock,
  unless a quitting one deleted it (`BeatInv`), so a kill of a beating agent judged by a beat that
  was newer or not read now (`TickInv`); and the ladder's steady time is never ahead of the looks in
  a row that found the agent healthy unless there was a gap (`SteadyInv`). Over `Alerts`, `ToldTruly`
  (`AlertsSound`), by `AlertInv`: once the grace is over, a PC not heard for a whole period
  was off in it (`QuietInv`), so what the check is about to raise was gone and had not said so
  (`JudgeInv`); rows of one PC are a throttle apart however they age (`SpacedInv`); and a mail
  that went out is marked or about to be (`MailInv`), by one run at a time (`PostInv`).
* **DeliveryProofs**: `OutboxTyped`; `ImplementsDelivery` (`NothingVanishes`), the refinement
  of `RecordDelivery`, by `OutboxInv`: a live lease holds only rows of its drain's batch
  (`LeaseInv`), "Success" means a stored batch (`StoredInv`), waiting or gone rows have no
  lease (`FreeInv`), and queue, server and drops are all there is (`AllInv`). `OneSender`
  (`SingleSender`), with any number of drains, crashes, failed writes and leases that run out
  under others: what a drain sends is in the table under its lease for as long as that has not run
  out, whatever is reclaimed, and two drains never share a lease (`SenderInv`). `RefusedAlone`
  (`OnlyRefusedRejected`): a size of one means a batch of one, and "Permanent" means the
  server refused this batch (`BatchInv`).
* **SignInProofs**: `TypeCorrect` (`SignTypeOK`). `BookedOnce` (`CreditedOnce`): only the
  ingest credits, and it stores by id. `StillSignedIn` (`SurvivesRestart`): nobody is in
  memory while a sign-in is under way, and what it is about to adopt is on disk or was
  wiped (`EnterInv`). `HoursStayApart` (`OnlySlippedHours`), the longest argument here: no
  credential is newer than the device's token, and equal tokens mean equal people
  (`BoundInv`); a row on its way into the table is in no other place (`ApartInv`); every
  measured hour has slipped through a sweep or is of whoever is signed in, of nobody, or
  surveyed by the sweep under way (`OwnInv`); a request with the newest token carries
  its owner's rows (`AskInv`).
* **IngestProofs**, over `SummaryRollup`: `HoursArrive` (`LateHoursCounted`) and `FiguresStay`
  (`ClosedMonthFrozen`), by `RollupInv`. A day is *safe* while it is current, a hole is known
  or a job is about to read it; *mark-safe* while it is marked and K06 is not past reading it.
  A row, and what any job is about to write, is right or its day is safe or mark-safe
  (`RowInv`, `WriteInv`). To keep that: two recounts of one day that overlap leave a hole
  (`OneWriter`); K06's list holds marked days, each once, and the day in hand is its head
  (`DrainInv`), so that removing a mark takes the one just counted and an upload that will
  mark finds no mark (`UploadInv`); a month is written by a job that found it open (`PcInv`).
  `CountsKept` is the frame every action goes through. Over `Screenshots`, `ShotsArrive`
  (`ShotsSound`): `ShotInv` says of every step of the upload, the sweep and the thumbnail
  which of the two files and the two rows are there before the next may be removed.
  `RollupTyped`, by `CountsInv`: a job about to write a month has a row of each of its days in
  hand (`HandOK`), the rows of a month are of its days, and only months that are over are
  closed.
  Over `WorkSessions`, `OnceAndWhole` (`StoredOnce`), by `SegmentsInv`: a segment never sent
  again is in the outbox, in one request or stored (`SentOnceInv`), one row stands for each of
  its parts (`UniqueInv`), and its rows are what one of the drifts makes of it (`WholeInv`)
  unless it was sent again and the drifts differ on its midnight. `SessionsTyped`; and
  `SessionsAreSound` (`SessionsSound`), by `StoreInv`: whatever dates a batch has, what
  `Resolved` makes of a table leaves every session its person and date, no later a start and
  an end that went on or became its midnight, and gives each date a session that holds its
  parts (`ResolvedIs`); the plan of a request under way stays one for the table it read, which
  only grew since (`PlansInv`); so a commit onto a table nobody changed keeps every promise,
  and onto another one names the sessions it wrote (`CommitRows`, `CommitHolds`).
* **BooksProofs**: `PapersStand` (`PaperStands`): every request that has looked at the
  closures looked right or has been overtaken (`LookOK`); one change of the salary at a time,
  and what payroll said of a closed month is what the salary before the pending change comes
  to (`SalaryInv`). `LateHoursPaid` (`RowFollowsFacts`): every daily row is what its facts
  come to, or its day is behind and due (`RowInv`), and so is the month's (`MonthInv`); a row
  of a month that is over does not change with the calendar. `MonthTyped`; and
  `SheetComesToLedger` (`SheetIsLedger`) under `WholeHours`, a daily target of whole hours as
  208 in 26 days: how many days a month's row counts as working, employed, owed and seen are
  the cardinalities the ledger speaks of (`RowCounts`), and the rest is arithmetic
  (`LineIsLedger`), for naturals whatever they are. Over `Backups`, `NewestKept`: types, and
  the newest dumps and copies ever made are there. `SilenceMeansBackup` (`BackupsGood`):
  silence means a dump of the last day that can be restored from both places, because what the
  record or the run under way calls good is on both disks and not yet doomed (`RecordInv`,
  `RunInv`). It holds under `Lasting`: what the verdict still calls fresh is what a rotation
  keeps. The code's constants (`BACKUP_KEEP_MIN` 2, `BACKUP_STALE_HOURS` 26) satisfy it
  whatever `BACKUP_KEEP_DAYS` is. Over `ClosedBooks`, `BooksTyped`, by `ShelfInv`: a request
  has in hand no month to come (`InHand`), and what is paid out is a sum of the ledger, so a
  natural number (`TotalIsNat`).
* **DeskProofs**: `StagesInOrder` (`OnlySlippedStages`): what a mark read still allows it,
  unless a request moved the row in between (`StageInv`). `CapAndRows` (`PoolSound`): of those
  who finish, one per designer is inside the advisory lock, and the count he read is still
  below the target at his update (`LockInv`); everything else gives nobody a finished design.
  `PoolTyped`, by `ShapesInv`: a request under way has what its next statement needs
  (`Carries`), and what a distribution gives each designer is a natural number, as is what the
  earlier ones leave of the pool (`SizesTyped`). `StagesTyped`: every statement leaves a row
  of its designers and days, whatever was read before (`RowsStayTyped`).
  Over `UpdateStaging` and `Rollout`, `PublishedRun` (`OnlyPublishedRun`): "verified" is
  written only behind the comparison and taken back before the bytes are touched (`LoopInv`,
  `ReadyInv`), and under a click the loop has gone on to another version (`ClickInv`).
  `ProvenRollout` (`RolloutSound`): a version on its way is offered to some active device or
  known to be orphaned (`Covered`), whatever the owner is about to save (`OrderInv`); what the
  job read holds at its write unless it was overtaken (`JobInv`). `StagingTyped` and
  `RolloutTyped`: the newest of some builds is one of them (`LatestIsBuild`), and ages stop at
  the soak (`AgesTyped`).
* **OfficeProofs**: over `CaptureLoop`, `NoSpinning`: types, and a loop with nothing to do
  sleeps. `SuspicionIsFair` (`LoopSound`): how long the screen has really been still bounds
  what the fingerprints say (`StillInv`, `BusySeenInv`), and how long it has been changing
  bounds them too (`BusyInv`); a slot fires once because the loop fires it when it begins and
  no sleep goes past it (`PauseInv`, `SlotInv`).
  Over `FreshUrls`, `OneRequest`: types; and `NoPictureHangs` (`UrlsSound`), for a page that
  keeps its query between renders (`Memoised`): there is one request at most (`CallInv`), and a
  picture that failed once waits for its answer or loads a link again, which has lapsed only where
  it is excused (`WaitInv`). A page that does not keep it is the run `day_shots`.
  Over `AppUsage`, `StretchesRecorded` (`AppsSound`), by `AppInv`: records end before what is
  open begins (`RowsInv`), what is open is as it was seen and less than a whole piece old
  (`OpenInv`), and a stretch still looked at is open since its start, recorded, or past a
  midnight (`OngoingInv`). `CutsOf` is the arithmetic of the cuts: neighbours are no further
  apart than a whole piece, and closer than the shortest record only at a midnight or the end.
  `AppsTyped`: nothing is open or recorded of no window or of a locked PC (`FurtherTypes`).
  Over `IdleTabs`, `TabsTyped` and `SignedOutInTime` (`IdleSound`), by `TabInv`: no tab is
  further behind the last touch of a tab that can write than two throttles, the one of the
  listener and the one of the writes (`HeardInv`); a tab used since its last ping has pinged in
  time or is warning (`PingInv`); a cookie is no older than the last ping that arrived and one
  interval (`CookieInv`); and a tab that slept past its end is about to notice (`TouchInv`).
  Over `Enrolment`, `EnrolmentTyped` and `WhoseTokenItIs` (`EnrolmentSound`), by `EnrolInv`:
  an attempt waits for one request at most, and an agent for one unless two windows were open
  (`WaitedInv`); a token is on one PC, or on disks that name one PC (`PlaceInv`); the device
  has the token of every answer under way, every agent and every file that would be loaded, or
  the next one is already under way to it (`CurrentInv`); and who has passed the check would
  pass it still (`CheckedInv`).

The runs put components side by side, and so do the theorems. `DeliverySideBySide`,
`DeskSideBySide`, `OfficeSideBySide`, `AgentSideBySide` and `WatchersSideBySide` say that a
behaviour of the composed specification is one of every component: whichever is in focus, the
others stutter. So each theorem above, stated of its component, holds of the run that
checks it; `DeliveryTyped` (`DeliveryTypeOK`), `DeskTyped` (`DeskTypeOK`) and `OfficeTyped`
(`OfficeTypeOK`) follow from them.

Every inductive invariant was first checked by TLC as an invariant of its module.

### What the proofs changed

* `SignIn`: a file lost to a late deletion, then a restart, then another sign-in
  books the first person's rows on the second. It takes three bindings, one more than
  the run's bound; the history now records it.
* `Rollout`: `setStage` picks a pilot only where there is none, so a version that
  comes back to a stage after its pilot was revoked may be offered to nobody. It
  takes four orders, one more than the run's bound (section 7).
* `ClosedBooks`: the assumption on the months allowed none at all; it now says
  `Month = 1 .. Cardinality(Month)`.
* `CaptureLoop`: two arms of a CASE in `AfterCapture` overlapped, and TLA+ then allows
  either; the code's order of the questions is now an IF around them.
* `Backups`: with a minimum of one dump kept (not the code's) and a check more patient
  than the rotation, TLC finds silence without a dump; hence `Lasting`.
* `IdleTabs`: the two throttles add up, as a touch kept back by the listener may then be kept back
  by `markActive` too; the bound of `NobodyCutOff` was one throttle and is two.
* `IdleTabs`: with pings further apart than half the timeout (not the code's: five and
  thirty minutes) TLC finds the cookie of somebody who is there expired; the assumption
  now says `2 * PingEvery < Timeout`.
* `Enrolment`: a disk that is cloned to another PC and, after its own PC was enrolled anew,
  cloned back brings an outdated token that passes the binding's comparison. It takes two
  mishaps, one more than the run's bound; the history now records it (`restored`).
* `Alerts`: with no grace after a start (not the code's: fifteen minutes, more than a
  period) TLC finds a running PC called silent; the assumption now says `Grace >= 1`. Two
  arms of a CASE overlapped in `Mailed` and in `Counted`, as in `CaptureLoop`.
* `AgentHost`: that what was sent ends a cadence after the last input held in the run only
  because its threshold was no larger than the cadence. With a threshold of four TLC finds
  an earlier stretch that reaches further, since a lock, a frozen screen or a sleep ends a
  stretch where it comes. `RetroAdjusted` now speaks of the stretch that turns out idle
  (history `stretch`), and the run's threshold is three cadences.
* `AppUsage`: records are as they were seen in every life of the service; the exception for
  those that crashed was not needed, and has gone from `RowsAsSeen`.
* `WorkSessions`: `StoredOnce` compared a sum of parts with the length of the segment. It
  now needs no sum and says more: there is one part, or two that meet.
* `WorkSessions`: `Resolved` went over a sorted sequence of dates; it is now a fold over the set
  of dates, the last one outermost, with `sessionByDate` as a function of the date (`Put`). The
  assumptions now say that the segments are finitely many and that no corrected instant lies
  before the epoch: dates are counted from it.
* `AppUsage`, `TargetPool`, `TargetStages`, `Rollout`: that the bounds are naturals, that there
  is a day, and that the builds are finitely many was used and nowhere said; it is now.
* `Screenshots`: that no family of a capture is empty was used and nowhere said.
* `TargetPool`, `Outbox`: the number of rows, and of drains that count attempts, has to be
  finite; the code counts them, so the assumptions say so.

## 5. Model-checked only

* *Liveness* (`EveryRowLeaves`, `SummariesSettle`, `VersionsArrive`, `AgentComesBack`,
  `AlertsSettle`): fairness and ENABLED are outside the prover's reach.
* What a `RECURSIVE` operator computes; none is used where something is proved. The library's
  induction theorems take an operator as parameter, so what a fold over a finite set computes
  (a sum of days, sessions resolved date by date) is proved by a least counterexample instead:
  of the sets for which it fails, one of least cardinality, less its last element (`SumStays`,
  `ViewsExist`, `ResolvedIs`).

Everything else a run checks, every invariant and every action property, is a theorem.

## 6. Not modelled

The contents of segments (busy score, titles, images), HTTP and SQL themselves, encryption,
passwords and second factors, audit entries, parsing of pasted lists, the other alert
kinds, the record of the largest drift, deploy scripts, the pages of the web
application, a restart of the PC between two looks of the watchdog (a heartbeat of an earlier boot; it
is a crash of everything, with an old beat left), a session policy that cannot be
read (the tabs then use their own defaults), and digests, reports and the dashboard, which only read. `PROJECT.json`
says for each component what is left out and why.

## 7. What the code does, and no property forbids

Known from the models, and named by the excuses in the properties:

* *Late hours* are lost where an upload meets the removal of its day's mark, two
  recounts of a day overlap, a skewed clock misjudges the date, the server is down at 00:15, an
  adjustment's recount fails, or a mark is found in a closed month
  (`admin/month-close.service.ts:137`). Rows entered after the last recount are frozen by
  closing (92-95), and somebody who has left is not recounted at all
  (`summary.service.ts:714`; the leaver's workdays are then not prorated).
* *Sessions:* two requests that read before either commits keep one's bounds; a segment
  sent again under another drift is stored partly twice; a late farewell ends the next
  session. *Screenshots:* a torn file is accepted as a duplicate, two PCs of one person may
  share a path, a thumbnail may be left over, a shot without a row for an hour is swept.
* *Releases:* the job overwrites a halt that comes between its read and its write
  (`rollout-advance.job.ts:136`, against 47-48); a revoked pilot is kept
  (`agent-versions.service.ts:279-286`; the comment above it says the trap is averted); a
  version halted after it was verified stays ready to install.
* *Threshold:* a machine replaced for a new threshold starts at the iteration's old
  clock value (`AgentHost.cs:1702`), and time may be recorded twice.
* *Sign-out:* a deletion of the credentials that fails signs the person in again at the
  restart; one that comes late takes the next person's file; a window closed while a
  request is under way lets two sign-ins overlap.
* *Enrolment:* a rejected code is answered with 401 (`enrollment.service.ts:83-85`), which
  the agent takes for transient (`EnrollmentClient.cs:75-77` says permanent): it retries for a day
  with the tray's sign-in blocked (`AgentHost.cs:1383`, 1414-1417). `device.dat` grants its writer
  alone (`DeviceTokenStore.cs:366-380`, against 80-88) and the probe is a file of its own
  (283-317): a second Windows account's token is minted and lost each time, although
  `enrollment.service.ts:155-161` counts on two accounts. An old image of the PC's own disk
  passes `DescribeBindingMismatch` (210-225) with a token the server has replaced.
* *Watchdog:* the clock is read before the heartbeat (`WatchdogLoop.cs:136`, 140), and a negative age
  is not fresh (`WatchdogPolicy.cs:130-136`, meant for the file of an earlier boot): a beat in between
  has a healthy agent killed, and counts as a failure of the ladder. While the heartbeat cannot be
  read, an old one is remembered whose pid may be in use again (`HeartbeatReader.cs:22-32`).
* *Outbox:* a drain whose lease ran out while it waited for its answer, as in a sleep, may still be
  sending rows that another drain has leased since; the server tells them by `client_uuid`.
* *Idle tabs:* the cookie is renewed only if older than five minutes, strictly
  (`jwt-auth.guard.ts:49-50`), and the ping comes at exactly five (`useIdleLogout.ts:207-216`). A `me()`
  that fails counts as a ping (212-215), so an outage longer than the rest of the timeout ends the
  session of somebody active. Where `localStorage` throws (102-107) other tabs hear nothing, and
  sign somebody active out. A touch may be told two throttles late (99-130). After a sleep the
  cookie may be two pings older than the screen says, and a session be renewed that the screen
  would have ended.
* *Applications:* a stretch across sign-out or sleep is recorded as active
  (`AgentHost.cs:908-915`); the loop is never started if tracking was off at the start
  (902); the tracker has no lock. *Gallery:* a picture whose file is there is said to be gone when the page could not be had
  again, or came without it because a late upload shifted the rows (`useFreshUrls.ts:162`,
  `screenshots.service.ts:106-113`), or signed in the same second (173-183); when the new link lapses
  before a lazy tile or a closed light box loads it (`ShotGrid.tsx:76`, `Lightbox.tsx:173-185`); when
  it is shown anew with the old link while it waits; and when the network fails twice (217-224).
* *Outbox:* two overlapping drains share the narrowing, so a refused batch may drop good rows;
  the first row's age decides for its whole lease; parked rows are dropped by the budget; the drop
  log is best effort.
* *Targets:* a mark by job number may start somebody else's row; two top-ups at once may
  exceed the daily issue; an undo keeps an old review date; `markUploaded` asks
  neither for the check nor for the fix.
* *Deposits:* `setStartMonth` that dies halfway cannot be repeated.

## 8. Plan

1. *Done:* the components of section 1 and the proofs of section 4.
2. *Next proofs:* none of what the runs check is left but liveness; what a new model brings.
3. *Next models:* the reports' queries as readers of the rollup (which figures of one page
   may disagree), the other alert kinds, several staff on one sheet.
