------------------------------- MODULE SignIn -------------------------------
(***************************************************************************)
(* Whose hours are they? The agent's credentials in memory, on disk and in *)
(* the HTTP client (DeviceCredentials), signing in and out, the tracker's  *)
(* gate, the rows in the outbox meanwhile, and the server that books a row *)
(* on whoever the device is bound to. All of it on one Windows account,    *)
(* which people use one after the other.                                   *)
(*                                                                         *)
(* A segment is a number; of[s] says who was signed in while it lasted.    *)
(***************************************************************************)
EXTENDS Integers

CONSTANTS
  Person,    \* the staff
  Nobody,    \* nobody is signed in
  MaxSeg,    \* bound: how many segments are ever closed
  MaxBind,   \* bound: how often the server binds the device
  MaxFaults  \* bound: how many mishaps there are: restarts, files that cannot be
             \* written or deleted, a sweep that fails

ASSUME PersonAssumption == Nobody \notin Person
ASSUME BoundAssumption  == MaxSeg \in Nat /\ MaxBind \in Nat /\ MaxFaults \in Nat

Seg    == 1 .. MaxSeg
NoCred == [who |-> Nobody, token |-> 0]
Cred   == {NoCred} \cup [who : Person, token : 1 .. MaxBind]

VARIABLES
  memory, disk,   \* DeviceCredentials._record and the credentials file
  wire,           \* HttpSyncClient._token
  revoked,        \* DeviceCredentials._revoked
  wiping,         \* Revoke has still to delete the file
  gate,           \* the tracker: has this iteration passed the gate?
  halted,         \* _trackingStoppedForRevoke
  open, made, of, \* the open segment's signers, and the closed segments
  flight,         \* handed to EnqueueAsync, not yet in the table
  queue, batch,   \* the rows, and those of them that are leased
  sync, stopped,  \* the worker: its step and request, and SyncWorker.Revoked
  beat,           \* the heartbeat
  out,            \* the sign-out: its step and what it has surveyed
  in,             \* the sign-in: its step and the credential it got
  device,         \* the server's row of this device
  credited,       \* activity_segments: segment and employee
  slipped,        \* history: what the sweep at a sign-out could not take
  wiped,          \* history: the tokens whose file was deleted
  faults

credVars    == <<memory, disk, wire, revoked>>
trackVars   == <<gate, halted, open, made, of>>
queueVars   == <<flight, queue>>
workVars    == <<batch, sync, stopped>>
serverVars  == <<device, credited>>
historyVars == <<slipped, wiped>>
signVars == <<credVars, wiping, trackVars, queueVars, workVars, beat, out, in, serverVars,
          historyVars, faults>>

-----------------------------------------------------------------------------

SignedIn == memory # NoCred      \* IsEnrolled: revoking clears the record as well
Fault    == faults < MaxFaults /\ faults' = faults + 1
Answered(ok) == IF ok THEN UNCHANGED faults ELSE Fault

\* ApplyTo, whenever the credentials have changed.
Announce == wire' = memory'

NoSync == [pc |-> "idle", token |-> 0, reply |-> "none"]
NoBeat == [pc |-> "idle", token |-> 0]
NoOut  == [pc |-> "none", rows |-> {}]
NoIn   == [pc |-> "none", cred |-> NoCred]

\* Everything measured so far, the open segment included.
Measured == queue \cup flight \cup (IF open = {} THEN {} ELSE {made + 1})

-----------------------------------------------------------------------------
\* Tracking. The machine is open from the start of the agent, whoever is there.

MomentPasses ==
  /\ memory.who \notin open /\ made < MaxSeg
  /\ open' = open \cup {memory.who}
  /\ UNCHANGED <<credVars, wiping, gate, halted, made, of, queueVars, workVars, beat, out, in,
                 serverVars, historyVars, faults>>

\* Record: the segment is closed and queued in the background.
Close ==
  /\ open # {}
  /\ made' = made + 1
  /\ of' = [of EXCEPT ![made + 1] = open]
  /\ flight' = flight \cup {made + 1}
  /\ open' = {}

\* TrackingGate.Check, then the tick that closes a segment or none.
PassGate ==
  /\ ~gate /\ SignedIn
  /\ gate' = TRUE
  /\ UNCHANGED <<credVars, wiping, halted, open, made, of, queueVars, workVars, beat, out, in,
                 serverVars, historyVars, faults>>

Tick ==
  /\ gate /\ gate' = FALSE
  /\ Close \/ UNCHANGED <<open, made, of, flight>>
  /\ UNCHANGED <<credVars, wiping, halted, queue, workVars, beat, out, in, serverVars,
                 historyVars, faults>>

\* OnPower, ApplyIdleThreshold and DisposeAsync do not ask the gate.
CloseUngated ==
  /\ Close
  /\ UNCHANGED <<credVars, wiping, gate, halted, queue, workVars, beat, out, in, serverVars,
                 historyVars, faults>>

\* The tracker sees the revocation; what it closes is not recorded.
StopTrackingForRevoke ==
  /\ ~gate /\ revoked /\ ~halted
  /\ halted' = TRUE
  /\ open' = {}
  /\ UNCHANGED <<credVars, wiping, gate, made, of, queueVars, workVars, beat, out, in,
                 serverVars, historyVars, faults>>

Enqueue ==
  /\ \E s \in flight : flight' = flight \ {s} /\ queue' = queue \cup {s}
  /\ UNCHANGED <<credVars, wiping, trackVars, workVars, beat, out, in, serverVars, historyVars,
                 faults>>

-----------------------------------------------------------------------------
\* Sending, which the gate does not hold back. The server knows the device by its
\* token alone.

\* Mutant: a token from before the last binding is still taken.
AnyToken(token) == token # 0
Known(token)    == token = device.token /\ token # 0

\* Mutant: client_uuid is unique for each employee only.
NewForOwner(s) == <<s, device.owner>> \notin credited
IsNew(s)       == \A p \in Person : <<s, p>> \notin credited

LeaseRows ==
  /\ sync.pc = "idle" /\ ~stopped /\ queue # {}
  /\ batch' = queue
  /\ sync' = [NoSync EXCEPT !.pc = "leased"]
  /\ UNCHANGED <<credVars, wiping, trackVars, queueVars, stopped, beat, out, in, serverVars,
                 historyVars, faults>>

Send ==
  /\ sync.pc = "leased"
  /\ sync' = [sync EXCEPT !.pc = "asking", !.token = wire.token]
  /\ UNCHANGED <<credVars, wiping, trackVars, queueVars, batch, stopped, beat, out, in,
                 serverVars, historyVars, faults>>

\* DeviceAuthGuard and the ingest. An unknown token (401) is tried again later; so is
\* a request whose answer is lost.
Ingest ==
  /\ sync.pc = "asking"
  /\ \E reply \in {"ok", "later", "revoked"} :
       /\ sync' = [NoSync EXCEPT !.pc = "answered", !.reply = reply]
       /\ \/ reply = "later" /\ UNCHANGED credited
          \/ /\ Known(sync.token) /\ device.active /\ reply # "revoked"
             /\ credited' = credited \cup {<<s, device.owner>> : s \in {r \in batch : IsNew(r)}}
          \/ Known(sync.token) /\ ~device.active /\ reply = "revoked" /\ UNCHANGED credited
  /\ UNCHANGED <<credVars, wiping, trackVars, queueVars, batch, stopped, beat, out, in, device,
                 historyVars, faults>>

\* The rows go, stay, or (after a revocation) are put off for a year, which this
\* model does not reach.
ApplyReply ==
  /\ sync.pc = "answered"
  /\ queue' = IF sync.reply = "later" THEN queue ELSE queue \ batch
  /\ stopped' = (sync.reply = "revoked")
  /\ batch' = {} /\ sync' = NoSync
  /\ UNCHANGED <<credVars, wiping, trackVars, flight, beat, out, in, serverVars, historyVars,
                 faults>>

-----------------------------------------------------------------------------
\* The heartbeat, which is how the agent learns of a revocation.

Beat ==
  /\ beat.pc = "idle" /\ SignedIn
  /\ beat' = [pc |-> "asking", token |-> wire.token]
  /\ UNCHANGED <<credVars, wiping, trackVars, queueVars, workVars, out, in, serverVars,
                 historyVars, faults>>

AnswerBeat ==
  /\ beat.pc = "asking"
  /\ beat' = IF Known(beat.token) /\ ~device.active THEN [NoBeat EXCEPT !.pc = "revoked"]
             ELSE NoBeat
  /\ UNCHANGED <<credVars, wiping, trackVars, queueVars, workVars, out, in, serverVars,
                 historyVars, faults>>

\* DeviceCredentials.Revoke, whatever token had been asked about: memory, then disk.
\* Nothing is swept.
Revoke ==
  /\ beat.pc = "revoked" /\ beat' = NoBeat
  /\ revoked' = TRUE
  /\ memory' = NoCred
  /\ wiping' = (wiping \/ ~revoked)
  /\ slipped' = slipped \cup Measured
  /\ UNCHANGED <<disk, wire, trackVars, queueVars, workVars, out, in, serverVars, wiped, faults>>

\* TryDelete, which may fail, and Changed.
Wipe ==
  /\ \E ok \in BOOLEAN :
       /\ Answered(ok)
       /\ disk' = IF ok THEN NoCred ELSE disk
       /\ wiped' = IF ok THEN wiped \cup {disk.token} ELSE wiped
  /\ UNCHANGED <<memory, revoked>> /\ Announce

WipeAfterRevoke ==
  /\ wiping /\ wiping' = FALSE
  /\ Wipe
  /\ UNCHANGED <<trackVars, queueVars, workVars, beat, out, in, serverVars, slipped>>

-----------------------------------------------------------------------------
\* Signing out: confirm, memory, disk, survey, evict.

Sweeping == out.pc \in {"wipe", "survey", "evict"}

OutVars == <<trackVars, flight, workVars, beat, wiping, in, serverVars>>

AskSignOut ==
  /\ out.pc = "none" /\ SignedIn
  /\ out' = [NoOut EXCEPT !.pc = "confirm"]
  /\ UNCHANGED <<credVars, queue, OutVars, historyVars, faults>>

CancelSignOut ==
  /\ out.pc = "confirm" /\ out' = NoOut
  /\ UNCHANGED <<credVars, queue, OutVars, historyVars, faults>>

\* SignOut does nothing if nobody is signed in by now; the sweep follows all the same.
SignOut ==
  /\ out.pc = "confirm"
  /\ memory' = NoCred
  /\ out' = [out EXCEPT !.pc = IF SignedIn THEN "wipe" ELSE "survey"]
  /\ UNCHANGED <<disk, wire, revoked, queue, OutVars, historyVars, faults>>

WipeAfterSignOut ==
  /\ out.pc = "wipe" /\ out' = [out EXCEPT !.pc = "survey"]
  /\ Wipe
  /\ UNCHANGED <<queue, OutVars, slipped>>

\* DiscardOutboxAsync reads which rows are not leased; the mutant takes the others.
SweptLeased == batch
Swept       == queue \ batch

Survey ==
  /\ out.pc = "survey"
  /\ out' = [pc |-> "evict", rows |-> Swept]
  /\ slipped' = slipped \cup flight \cup batch \cup (Measured \ queue)
  /\ UNCHANGED <<credVars, queue, OutVars, wiped, faults>>

\* EvictAsync leaves alone what has been leased meanwhile; the mutant does not.
EvictsLeased == out.rows
Evicted      == out.rows \ batch

Evict ==
  /\ out.pc = "evict" /\ out' = NoOut
  /\ queue' = queue \ Evicted
  /\ slipped' = slipped \cup (out.rows \cap batch)
  /\ UNCHANGED <<credVars, OutVars, wiped, faults>>

\* "Sign out failed": the outbox is left as it is.
SweepFails ==
  /\ out.pc \in {"survey", "evict"} /\ Fault
  /\ out' = NoOut
  /\ slipped' = slipped \cup Measured
  /\ UNCHANGED <<credVars, queue, OutVars, wiped>>

-----------------------------------------------------------------------------
\* Signing in: the form, the server's binding, disk, memory.

InVars == <<trackVars, queueVars, workVars, beat, wiping, out, credited>>

OpenForm ==
  /\ in.pc = "none" /\ ~SignedIn /\ ~revoked
  /\ in' = [NoIn EXCEPT !.pc = "form"]
  /\ UNCHANGED <<credVars, device, InVars, historyVars, faults>>

\* enrollWithLogin and bind; the answer may be lost. Who is not the one the device is
\* bound to is refused while it is active.
Bind ==
  /\ in.pc = "form" /\ ~SignedIn /\ ~revoked
  /\ device.token < MaxBind
  /\ \E p \in Person, ok \in BOOLEAN :
       /\ device.owner \in {Nobody, p} \/ ~device.active
       /\ Answered(ok)
       /\ device' = [owner |-> p, active |-> TRUE, token |-> device.token + 1]
       /\ in' = IF ok THEN [pc |-> "save", cred |-> [who |-> p, token |-> device.token + 1]]
                ELSE in
  /\ UNCHANGED <<credVars, InVars, historyVars>>

\* Persist: a token that could not be saved is not adopted (in the mutant it is).
AdoptsAnyhow(ok) == "adopt"
AfterSave(ok)    == IF ok THEN "adopt" ELSE "form"

Save ==
  /\ in.pc = "save"
  /\ \E ok \in BOOLEAN :
       /\ Answered(ok)
       /\ disk' = IF ok THEN in.cred ELSE disk
       /\ in' = [in EXCEPT !.pc = AfterSave(ok)]
  /\ UNCHANGED <<memory, wire, revoked, device, InVars, historyVars>>

Adopt ==
  /\ in.pc = "adopt"
  /\ memory' = in.cred /\ Announce
  /\ revoked' = FALSE
  /\ in' = NoIn
  /\ slipped' = IF Sweeping THEN slipped \cup Measured ELSE slipped
  /\ UNCHANGED <<disk, device, InVars, wiped, faults>>

-----------------------------------------------------------------------------
\* The office, and the agent dying.

RevokeDevice ==
  /\ device.active /\ device.owner # Nobody
  /\ device' = [device EXCEPT !.active = FALSE]
  /\ UNCHANGED <<credVars, in, InVars, historyVars, faults>>

\* turnAgentOn
RestoreDevice ==
  /\ ~device.active /\ device.owner # Nobody
  /\ device' = [device EXCEPT !.active = TRUE]
  /\ UNCHANGED <<credVars, in, InVars, historyVars, faults>>

\* TryStart of the next agent: it knows what is on disk and in the table. Where a late
\* deletion has taken the file, that signs out whoever was there, with no sweep.
Restart ==
  /\ Fault
  /\ memory' = disk /\ Announce
  /\ revoked' = FALSE /\ wiping' = FALSE
  /\ gate' = FALSE /\ halted' = FALSE /\ open' = {}
  /\ flight' = {} /\ batch' = {}
  /\ sync' = NoSync /\ stopped' = FALSE /\ beat' = NoBeat
  /\ out' = NoOut /\ in' = NoIn
  /\ slipped' = IF Sweeping \/ (SignedIn /\ disk # memory) THEN slipped \cup Measured ELSE slipped
  /\ UNCHANGED <<disk, made, of, queue, serverVars, wiped>>

-----------------------------------------------------------------------------

SignInit ==
  /\ memory = NoCred /\ disk = NoCred /\ wire = NoCred
  /\ revoked = FALSE /\ wiping = FALSE
  /\ gate = FALSE /\ halted = FALSE
  /\ open = {} /\ made = 0 /\ of = [s \in Seg |-> {}]
  /\ flight = {} /\ queue = {} /\ batch = {}
  /\ sync = NoSync /\ stopped = FALSE /\ beat = NoBeat
  /\ out = NoOut /\ in = NoIn
  /\ device = [owner |-> Nobody, active |-> FALSE, token |-> 0]
  /\ credited = {} /\ slipped = {} /\ wiped = {} /\ faults = 0

Track  == MomentPasses \/ PassGate \/ Tick \/ CloseUngated \/ StopTrackingForRevoke \/ Enqueue
Upload == LeaseRows \/ Send \/ Ingest \/ ApplyReply
Pulse  == Beat \/ AnswerBeat \/ Revoke \/ WipeAfterRevoke
Leave  == AskSignOut \/ CancelSignOut \/ SignOut \/ WipeAfterSignOut \/ Survey \/ Evict
            \/ SweepFails
Enter  == OpenForm \/ Bind \/ Save \/ Adopt
Office == RevokeDevice \/ RestoreDevice

SignNext == Track \/ Upload \/ Pulse \/ Leave \/ Enter \/ Office \/ Restart

SignSpec == SignInit /\ [][SignNext]_signVars

-----------------------------------------------------------------------------

SignTypeOK ==
  /\ memory \in Cred /\ disk \in Cred /\ wire \in Cred
  /\ revoked \in BOOLEAN /\ wiping \in BOOLEAN /\ gate \in BOOLEAN /\ halted \in BOOLEAN
  /\ open \subseteq Person \cup {Nobody}
  /\ made \in 0 .. MaxSeg /\ of \in [Seg -> SUBSET (Person \cup {Nobody})]
  /\ flight \subseteq 1 .. made /\ batch \subseteq queue /\ queue \subseteq 1 .. made
  /\ sync \in [pc : {"idle", "leased", "asking", "answered"}, token : 0 .. MaxBind,
               reply : {"none", "ok", "later", "revoked"}]
  /\ stopped \in BOOLEAN
  /\ beat \in [pc : {"idle", "asking", "revoked"}, token : 0 .. MaxBind]
  /\ out \in [pc : {"none", "confirm", "wipe", "survey", "evict"}, rows : SUBSET (1 .. made)]
  /\ in \in [pc : {"none", "form", "save", "adopt"}, cred : Cred]
  /\ device \in [owner : Person \cup {Nobody}, active : BOOLEAN, token : 0 .. MaxBind]
  /\ credited \subseteq (1 .. made) \X Person
  /\ slipped \subseteq 1 .. made + 1 /\ wiped \subseteq 0 .. MaxBind
  /\ faults \in 0 .. MaxFaults

(***************************************************************************)
(* A segment is booked on one person only, however often it is sent and    *)
(* whoever signs in between (the unique client_uuid).                      *)
(***************************************************************************)
CreditedOnce == \A c, e \in credited : c[1] = e[1] => c = e

(***************************************************************************)
(* Signing out first and sweeping then keeps a person's hours from the     *)
(* next one: the only hours of somebody else that are ever booked on a     *)
(* person belong to what the sweep could not take, namely what was leased, *)
(* on its way into the table or still open at that moment, or what had no  *)
(* sweep in time: the device was revoked, the sign-out broke off, the next *)
(* sign-in was faster, or a deletion that came late took the new file and  *)
(* a restart then signed that person out.                                  *)
(***************************************************************************)
OnlySlippedHours ==
  \A c \in credited : of[c[1]] \subseteq {c[2], Nobody} \/ c[1] \in slipped

(***************************************************************************)
(* Whoever is signed in still is after a restart: memory and disk agree    *)
(* whatever fails, unless the deletion of an earlier sign-out or of a      *)
(* revocation came late and took the new file.                             *)
(***************************************************************************)
SurvivesRestart == SignedIn => disk = memory \/ memory.token \in wiped

(***************************************************************************)
(* TrackingGate, which keeps the time before a sign-in from being booked   *)
(* on whoever signs in ("before sign-in there cannot be an open segment"): *)
(* no segment holds a moment at which nobody was signed in.                *)
(***************************************************************************)
HoursOfTheSigner == \A c \in credited : Nobody \notin of[c[1]]
=============================================================================
