---------------------------- MODULE SignInProofs ----------------------------
(***************************************************************************)
(* Whose hours they are, for any number of people, segments, bindings and  *)
(* mishaps: the types, that nothing is booked twice, that whoever is       *)
(* signed in still is after a restart, and that nobody is booked the hours *)
(* of somebody else but for what a sweep could not take.                   *)
(***************************************************************************)
EXTENDS MCAgent, FiniteSetTheorems, TLAPS

\* A segment is open only if it can still be numbered.
MadeInv == open # {} => made < MaxSeg

\* A device that has ever been bound has an owner.
OwnerInv == device.token # 0 \/ device.active => device.owner # Nobody

TypeInv == SignTypeOK /\ MadeInv /\ OwnerInv

LEMMA Credentials ==
  /\ NoCred \in Cred /\ NoCred.who = Nobody /\ NoCred.token = 0
  /\ \A c \in Cred : /\ c.who \in Person \cup {Nobody} /\ c.token \in 0 .. MaxBind
                     /\ c # NoCred => c.who \in Person /\ c.token \in 1 .. MaxBind
  /\ \A p \in Person, t \in 1 .. MaxBind : [who |-> p, token |-> t] \in Cred
BY PersonAssumption, BoundAssumption DEF Cred, NoCred

LEMMA MeasuredMade ==
  ASSUME TypeInv
  PROVE  Measured \subseteq 1 .. (made + 1) /\ made \in Nat /\ made + 1 \in 1 .. (made + 1)
<1>1. made \in 0 .. MaxSeg /\ queue \subseteq 1 .. made /\ flight \subseteq 1 .. made
  BY DEF TypeInv, SignTypeOK
<1> QED
  BY <1>1, BoundAssumption DEF Measured

LEMMA InitTyped == SignInit => TypeInv
<1> SUFFICES ASSUME SignInit PROVE TypeInv
  OBVIOUS
<1> USE BoundAssumption DEF SignInit
<1>1. memory \in Cred /\ disk \in Cred /\ wire \in Cred /\ in.cred \in Cred
  BY Credentials DEF NoIn
<1>2. /\ sync \in [pc : {"idle", "leased", "asking", "answered"}, token : 0 .. MaxBind,
                   reply : {"none", "ok", "later", "revoked"}]
      /\ beat \in [pc : {"idle", "asking", "revoked"}, token : 0 .. MaxBind]
      /\ out \in [pc : {"none", "confirm", "wipe", "survey", "evict"}, rows : SUBSET (1 .. made)]
      /\ in \in [pc : {"none", "form", "save", "adopt"}, cred : Cred]
      /\ device \in [owner : Person \cup {Nobody}, active : BOOLEAN, token : 0 .. MaxBind]
  BY <1>1, Credentials DEF NoSync, NoBeat, NoOut, NoIn
<1>3. of \in [Seg -> SUBSET (Person \cup {Nobody})] /\ made \in 0 .. MaxSeg /\ faults \in 0 .. MaxFaults
  OBVIOUS
<1>4. SignTypeOK
  BY <1>1, <1>2, <1>3 DEF SignTypeOK
<1> QED
  BY <1>4 DEF TypeInv, MadeInv, OwnerInv

\* Closing gives the open segment the next number.
LEMMA CloseTyped ==
  ASSUME TypeInv, Close
  PROVE  /\ made' \in 0 .. MaxSeg /\ made' = made + 1 /\ 1 .. made \subseteq 1 .. made'
         /\ of' \in [Seg -> SUBSET (Person \cup {Nobody})]
         /\ flight' \subseteq 1 .. made' /\ open' = {}
         /\ 1 .. (made + 1) \subseteq 1 .. (made' + 1)
         /\ \A s \in 1 .. made : of'[s] = of[s]
         /\ of'[made'] = open
<1>1. made \in 0 .. MaxSeg /\ made < MaxSeg /\ made' = made + 1 /\ open' = {}
  BY DEF TypeInv, SignTypeOK, MadeInv, Close
<1>2. made' \in 0 .. MaxSeg /\ 1 .. made \subseteq 1 .. made' /\ 1 .. (made + 1) \subseteq 1 .. (made' + 1)
        /\ made + 1 \in Seg /\ made + 1 \notin 1 .. made
  BY <1>1, BoundAssumption DEF Seg
<1>3. of \in [Seg -> SUBSET (Person \cup {Nobody})] /\ open \subseteq Person \cup {Nobody}
        /\ flight \subseteq 1 .. made
  BY DEF TypeInv, SignTypeOK
<1>4. of' = [of EXCEPT ![made + 1] = open] /\ flight' = flight \cup {made + 1}
  BY DEF Close
<1>5. flight' \subseteq 1 .. made'
  BY <1>1, <1>2, <1>3, <1>4, BoundAssumption
<1>6. \A s \in 1 .. made : s \in Seg
  BY <1>1, BoundAssumption DEF Seg
<1> QED
  BY <1>1, <1>2, <1>3, <1>4, <1>5, <1>6

LEMMA FaultTyped ==
  ASSUME TypeInv
  PROVE  /\ Fault => faults' \in 0 .. MaxFaults
         /\ \A ok \in BOOLEAN : Answered(ok) => faults' \in 0 .. MaxFaults
BY BoundAssumption DEF TypeInv, SignTypeOK, Fault, Answered

LEMMA TrackTyped == ASSUME TypeInv, Track PROVE TypeInv'
<1> USE DEF TypeInv, credVars, trackVars, queueVars, workVars, serverVars, historyVars
<1>1. CASE MomentPasses
  <2>1. memory.who \in Person \cup {Nobody}
    BY Credentials DEF SignTypeOK
  <2>2. SignTypeOK'
    BY <1>1, <2>1 DEF MomentPasses, SignTypeOK
  <2> QED
    BY <1>1, <2>2 DEF MomentPasses, MadeInv, OwnerInv
<1>2. ASSUME Close, UNCHANGED <<credVars, wiping, halted, queue, workVars, beat, out, in,
                                serverVars, historyVars, faults>>, gate' \in BOOLEAN
      PROVE  TypeInv'
  <2>1. SignTypeOK'
    BY <1>2, CloseTyped DEF SignTypeOK
  <2> QED
    BY <1>2, <2>1, CloseTyped DEF MadeInv, OwnerInv
<1>3. CASE PassGate \/ StopTrackingForRevoke \/ Enqueue
  <2>1. SignTypeOK'
    BY <1>3 DEF PassGate, StopTrackingForRevoke, Enqueue, SignTypeOK
  <2> QED
    BY <1>3, <2>1 DEF PassGate, StopTrackingForRevoke, Enqueue, MadeInv, OwnerInv
<1>4. CASE Tick
  <2>1. CASE Close
    BY <1>2, <1>4, <2>1 DEF Tick
  <2>2. CASE UNCHANGED <<open, made, of, flight>>
    <3>1. /\ gate' \in BOOLEAN
          /\ UNCHANGED <<memory, disk, wire, revoked, wiping, halted, open, made, of, flight, queue,
                         batch, sync, stopped, beat, out, in, device, credited, slipped, wiped,
                         faults>>
      BY <1>4, <2>2 DEF Tick
    <3> QED
      BY <3>1 DEF SignTypeOK, MadeInv, OwnerInv
  <2> QED
    BY <1>4, <2>1, <2>2 DEF Tick
<1>5. CASE CloseUngated
  BY <1>2, <1>5 DEF CloseUngated, SignTypeOK
<1> QED
  BY <1>1, <1>3, <1>4, <1>5 DEF Track

LEMMA UploadTyped == ASSUME TypeInv, Upload PROVE TypeInv'
<1> USE DEF TypeInv, credVars, trackVars, queueVars, workVars, serverVars, historyVars
<1>1. CASE LeaseRows
  <2>1. sync' \in [pc : {"idle", "leased", "asking", "answered"}, token : 0 .. MaxBind,
                   reply : {"none", "ok", "later", "revoked"}]
    BY <1>1, BoundAssumption DEF LeaseRows, NoSync
  <2> QED
    BY <1>1, <2>1 DEF LeaseRows, SignTypeOK, MadeInv, OwnerInv
<1>2. CASE Send
  <2>1. wire.token \in 0 .. MaxBind
    BY Credentials DEF SignTypeOK
  <2>2. sync' \in [pc : {"idle", "leased", "asking", "answered"}, token : 0 .. MaxBind,
                   reply : {"none", "ok", "later", "revoked"}]
    BY <1>2, <2>1 DEF Send, SignTypeOK
  <2> QED
    BY <1>2, <2>2 DEF Send, SignTypeOK, MadeInv, OwnerInv
<1>3. CASE Ingest
  <2>1. sync' \in [pc : {"idle", "leased", "asking", "answered"}, token : 0 .. MaxBind,
                   reply : {"none", "ok", "later", "revoked"}]
    <3>1. PICK reply \in {"ok", "later", "revoked"} :
            sync' = [NoSync EXCEPT !.pc = "answered", !.reply = reply]
      BY <1>3 DEF Ingest
    <3>2. sync' = [pc |-> "answered", token |-> 0, reply |-> reply]
      BY <3>1 DEF NoSync
    <3> QED
      BY <3>2, BoundAssumption
  <2>2. credited' \subseteq (1 .. made) \X Person
    <3>1. CASE UNCHANGED credited
      BY <3>1 DEF SignTypeOK
    <3>2. CASE /\ device.active
               /\ credited' = credited \cup {<<s, device.owner>> : s \in {r \in batch : IsNew(r)}}
      <4>1. device.owner \in Person /\ batch \subseteq 1 .. made
        BY <3>2 DEF SignTypeOK, OwnerInv
      <4> QED
        BY <3>2, <4>1 DEF SignTypeOK
    <3> QED
      BY <1>3, <3>1, <3>2 DEF Ingest
  <2>3. UNCHANGED <<credVars, wiping, trackVars, queueVars, batch, stopped, beat, out, in, device,
                    historyVars, faults>>
    BY <1>3 DEF Ingest
  <2> QED
    BY <2>1, <2>2, <2>3 DEF SignTypeOK, MadeInv, OwnerInv
<1>4. CASE ApplyReply
  <2>1. sync' \in [pc : {"idle", "leased", "asking", "answered"}, token : 0 .. MaxBind,
                   reply : {"none", "ok", "later", "revoked"}]
    BY <1>4, BoundAssumption DEF ApplyReply, NoSync
  <2> QED
    BY <1>4, <2>1 DEF ApplyReply, SignTypeOK, MadeInv, OwnerInv
<1> QED
  BY <1>1, <1>2, <1>3, <1>4 DEF Upload

\* What a deletion of the file may do.
LEMMA WipeTyped ==
  ASSUME TypeInv, Wipe
  PROVE  /\ disk' \in Cred /\ wire' \in Cred /\ wiped' \subseteq 0 .. MaxBind
         /\ faults' \in 0 .. MaxFaults
<1>1. PICK ok \in BOOLEAN : /\ Answered(ok)
                            /\ disk' = IF ok THEN NoCred ELSE disk
                            /\ wiped' = IF ok THEN wiped \cup {disk.token} ELSE wiped
  BY DEF Wipe
<1>2. memory' \in Cred /\ disk \in Cred /\ wiped \subseteq 0 .. MaxBind
  BY DEF Wipe, TypeInv, SignTypeOK
<1>3. disk.token \in 0 .. MaxBind /\ NoCred \in Cred
  BY <1>2, Credentials
<1>4. wire' \in Cred
  BY <1>2 DEF Wipe, Announce
<1>5. faults' \in 0 .. MaxFaults
  BY <1>1, FaultTyped
<1> QED
  BY <1>1, <1>2, <1>3, <1>4, <1>5

LEMMA PulseTyped == ASSUME TypeInv, Pulse PROVE TypeInv'
<1> USE DEF TypeInv, credVars, trackVars, queueVars, workVars, serverVars, historyVars
<1>1. CASE Beat \/ AnswerBeat
  <2>1. wire.token \in 0 .. MaxBind
    BY Credentials DEF SignTypeOK
  <2>2. beat' \in [pc : {"idle", "asking", "revoked"}, token : 0 .. MaxBind]
    BY <1>1, <2>1, BoundAssumption DEF Beat, AnswerBeat, NoBeat
  <2> QED
    BY <1>1, <2>2 DEF Beat, AnswerBeat, SignTypeOK, MadeInv, OwnerInv
<1>2. CASE Revoke
  <2>1. beat' \in [pc : {"idle", "asking", "revoked"}, token : 0 .. MaxBind]
    BY <1>2, BoundAssumption DEF Revoke, NoBeat
  <2>2. memory' \in Cred /\ slipped' \subseteq 1 .. (made + 1)
    BY <1>2, Credentials, MeasuredMade DEF Revoke, SignTypeOK
  <2>3. wiping' \in BOOLEAN /\ revoked' \in BOOLEAN
    BY <1>2 DEF Revoke, SignTypeOK
  <2> QED
    BY <1>2, <2>1, <2>2, <2>3 DEF Revoke, SignTypeOK, MadeInv, OwnerInv
<1>3. CASE WipeAfterRevoke
  <2>1. Wipe /\ wiping' = FALSE
    BY <1>3 DEF WipeAfterRevoke
  <2>2. UNCHANGED <<memory, revoked>>
    BY <2>1 DEF Wipe
  <2>3. UNCHANGED <<gate, halted, open, made, of, flight, queue, batch, sync, stopped, beat, out, in,
                    device, credited, slipped>>
    BY <1>3 DEF WipeAfterRevoke
  <2> QED
    <3>1. /\ disk' \in Cred /\ wire' \in Cred /\ wiped' \subseteq 0 .. MaxBind
          /\ faults' \in 0 .. MaxFaults
      BY <2>1, WipeTyped
    <3>2. wiping' = FALSE
      BY <2>1
    <3>2a. memory' \in Cred /\ revoked' \in BOOLEAN /\ wiping' \in BOOLEAN
      BY <2>2, <3>2 DEF SignTypeOK
    <3>3. SignTypeOK'
      BY <2>3, <3>1, <3>2a DEF SignTypeOK
    <3>4. MadeInv' /\ OwnerInv'
      BY <2>3 DEF MadeInv, OwnerInv
    <3> QED
      BY <3>3, <3>4
<1> QED
  BY <1>1, <1>2, <1>3 DEF Pulse

OutType == [pc : {"none", "confirm", "wipe", "survey", "evict"}, rows : SUBSET (1 .. made)]

LEMMA LeaveTyped == ASSUME TypeInv, Leave PROVE TypeInv'
<1> USE DEF TypeInv, credVars, trackVars, queueVars, workVars, serverVars, historyVars, OutVars
<1>0. NoOut \in OutType /\ out \in OutType
  BY DEF NoOut, OutType, SignTypeOK
<1>1. CASE AskSignOut \/ CancelSignOut
  <2>1. out' \in OutType
    BY <1>0, <1>1 DEF AskSignOut, CancelSignOut, OutType
  <2> QED
    BY <1>1, <2>1 DEF AskSignOut, CancelSignOut, SignTypeOK, MadeInv, OwnerInv, OutType
<1>2. CASE SignOut
  <2>1. out' \in OutType
    BY <1>0, <1>2 DEF SignOut, OutType
  <2> QED
    BY <1>2, <2>1, Credentials DEF SignOut, SignTypeOK, MadeInv, OwnerInv, OutType
<1>3. CASE WipeAfterSignOut
  <2>1. out' \in OutType
    BY <1>0, <1>3 DEF WipeAfterSignOut, OutType
  <2> QED
    BY <1>3, <2>1, WipeTyped DEF WipeAfterSignOut, Wipe, SignTypeOK, MadeInv, OwnerInv, OutType
<1>4. CASE Survey
  <2>1. out' \in OutType
    BY <1>4 DEF Survey, Swept, OutType, SignTypeOK
  <2>2. slipped' \subseteq 1 .. (made + 1)
    <3>1. slipped' = slipped \cup flight \cup batch \cup (Measured \ queue)
      BY <1>4 DEF Survey
    <3>2. slipped \subseteq 1 .. (made + 1) /\ flight \subseteq Measured /\ batch \subseteq Measured
      BY DEF SignTypeOK, Measured
    <3> QED
      BY <3>1, <3>2, MeasuredMade
  <2> QED
    BY <1>4, <2>1, <2>2 DEF Survey, SignTypeOK, MadeInv, OwnerInv, OutType
<1>5. CASE Evict
  <2>1. slipped' \subseteq 1 .. (made + 1) /\ batch \subseteq queue' /\ queue' \subseteq 1 .. made
    <3>1. /\ queue' = queue \ (out.rows \ batch) /\ slipped' = slipped \cup (out.rows \cap batch)
      BY <1>5 DEF Evict, Evicted
    <3>2. slipped \subseteq 1 .. (made + 1) /\ batch \subseteq queue /\ queue \subseteq 1 .. made
      BY DEF SignTypeOK
    <3>3. batch \subseteq 1 .. (made + 1)
      BY <3>2, MeasuredMade DEF Measured
    <3> QED
      BY <3>1, <3>2, <3>3
  <2> QED
    BY <1>0, <1>5, <2>1 DEF Evict, SignTypeOK, MadeInv, OwnerInv, OutType
<1>6. CASE SweepFails
  <2>1. slipped' \subseteq 1 .. (made + 1) /\ faults' \in 0 .. MaxFaults
    BY <1>6, MeasuredMade, FaultTyped DEF SweepFails, SignTypeOK
  <2> QED
    BY <1>0, <1>6, <2>1 DEF SweepFails, SignTypeOK, MadeInv, OwnerInv, OutType
<1> QED
  BY <1>1, <1>2, <1>3, <1>4, <1>5, <1>6 DEF Leave

InType == [pc : {"none", "form", "save", "adopt"}, cred : Cred]

LEMMA EnterTyped == ASSUME TypeInv, Enter PROVE TypeInv'
<1> USE DEF TypeInv, credVars, trackVars, queueVars, workVars, serverVars, historyVars, InVars
<1>0. NoIn \in InType /\ in \in InType
  BY Credentials DEF NoIn, InType, SignTypeOK
<1>1. CASE OpenForm
  <2>1. in' \in InType
    BY <1>0, <1>1 DEF OpenForm, InType
  <2> QED
    BY <1>1, <2>1 DEF OpenForm, SignTypeOK, MadeInv, OwnerInv, InType
<1>2. CASE Bind
  <2>1. device.token + 1 \in 1 .. MaxBind
    BY <1>2, BoundAssumption DEF Bind, SignTypeOK
  <2>2. PICK p \in Person, ok \in BOOLEAN :
          /\ Answered(ok)
          /\ device' = [owner |-> p, active |-> TRUE, token |-> device.token + 1]
          /\ in' = IF ok THEN [pc |-> "save", cred |-> [who |-> p, token |-> device.token + 1]]
                   ELSE in
    BY <1>2 DEF Bind
  <2>3. in' \in InType /\ faults' \in 0 .. MaxFaults
    BY <1>0, <2>1, <2>2, Credentials, FaultTyped DEF InType
  <2>4. /\ device' \in [owner : Person \cup {Nobody}, active : BOOLEAN, token : 0 .. MaxBind]
        /\ device'.owner # Nobody
    BY <2>1, <2>2, PersonAssumption, BoundAssumption
  <2>5. UNCHANGED <<credVars, InVars, historyVars>>
    BY <1>2 DEF Bind
  <2> QED
    BY <2>3, <2>4, <2>5 DEF SignTypeOK, MadeInv, OwnerInv, InType
<1>3. CASE Save
  <2>1. in' \in InType /\ disk' \in Cred /\ faults' \in 0 .. MaxFaults
    BY <1>0, <1>3, FaultTyped DEF Save, AfterSave, InType, SignTypeOK
  <2> QED
    BY <1>3, <2>1 DEF Save, SignTypeOK, MadeInv, OwnerInv, InType
<1>4. CASE Adopt
  <2>1. slipped' \subseteq 1 .. (made + 1) /\ memory' \in Cred /\ wire' \in Cred
    <3>1. slipped' \in {slipped \cup Measured, slipped} /\ slipped \subseteq 1 .. (made + 1)
      BY <1>4 DEF Adopt, SignTypeOK
    <3>2. memory' = in.cred /\ wire' = in.cred /\ in.cred \in Cred
      BY <1>0, <1>4 DEF Adopt, Announce, InType
    <3> QED
      BY <3>1, <3>2, MeasuredMade
  <2>2. /\ in' \in InType /\ revoked' \in BOOLEAN
        /\ UNCHANGED <<disk, gate, halted, open, made, of, flight, queue, batch, sync, stopped, beat,
                       wiping, out, credited, device, wiped, faults>>
    BY <1>0, <1>4 DEF Adopt
  <2> QED
    BY <2>1, <2>2 DEF SignTypeOK, MadeInv, OwnerInv, InType
<1> QED
  BY <1>1, <1>2, <1>3, <1>4 DEF Enter

LEMMA OfficeTyped == ASSUME TypeInv, Office PROVE TypeInv'
<1> USE DEF TypeInv, credVars, trackVars, queueVars, workVars, serverVars, historyVars, InVars
<1>1. device' \in [owner : Person \cup {Nobody}, active : BOOLEAN, token : 0 .. MaxBind]
        /\ device'.owner # Nobody
  BY DEF Office, RevokeDevice, RestoreDevice, SignTypeOK
<1> QED
  BY <1>1 DEF Office, RevokeDevice, RestoreDevice, SignTypeOK, MadeInv, OwnerInv

LEMMA RestartTyped == ASSUME TypeInv, Restart PROVE TypeInv'
<1> USE DEF TypeInv, serverVars
<1>1. /\ sync' \in [pc : {"idle", "leased", "asking", "answered"}, token : 0 .. MaxBind,
                    reply : {"none", "ok", "later", "revoked"}]
      /\ beat' \in [pc : {"idle", "asking", "revoked"}, token : 0 .. MaxBind]
      /\ out' \in OutType /\ in' \in InType
  BY BoundAssumption, Credentials DEF Restart, NoSync, NoBeat, NoOut, NoIn, OutType, InType
<1>2. slipped' \subseteq 1 .. (made + 1) /\ faults' \in 0 .. MaxFaults
  BY MeasuredMade, FaultTyped DEF Restart, SignTypeOK
<1>3. memory' \in Cred /\ wire' \in Cred
  BY DEF Restart, Announce, SignTypeOK
<1> QED
  BY <1>1, <1>2, <1>3 DEF Restart, SignTypeOK, MadeInv, OwnerInv, OutType, InType

LEMMA TypedStep == TypeInv /\ [SignNext]_signVars => TypeInv'
<1>1. TypeInv /\ UNCHANGED signVars => TypeInv'
  BY DEF signVars, credVars, trackVars, queueVars, workVars, serverVars, historyVars, TypeInv,
         SignTypeOK, MadeInv, OwnerInv
<1> QED
  BY <1>1, TrackTyped, UploadTyped, PulseTyped, LeaveTyped, EnterTyped, OfficeTyped, RestartTyped
     DEF SignNext

(***************************************************************************)
(* Credentials, tracker, outbox, worker, heartbeat, sign-out, sign-in and  *)
(* the server's row keep their types: what is leased is in the table, and  *)
(* nothing is booked on nobody.                                            *)
(***************************************************************************)
THEOREM TypeCorrect == SignSpec => []SignTypeOK
<1>1. TypeInv => SignTypeOK
  BY DEF TypeInv
<1> QED
  BY InitTyped, TypedStep, <1>1, PTL DEF SignSpec

-----------------------------------------------------------------------------
\* Booked once.

LEMMA OnlyIngestCredits == [SignNext]_signVars => Ingest \/ UNCHANGED credited
<1> USE DEF signVars, credVars, trackVars, queueVars, workVars, serverVars, historyVars, OutVars,
            InVars
<1>1. Track => UNCHANGED credited
  BY DEF Track, MomentPasses, PassGate, Tick, CloseUngated, StopTrackingForRevoke, Enqueue
<1>2. Upload => Ingest \/ UNCHANGED credited
  BY DEF Upload, LeaseRows, Send, ApplyReply
<1>3. Pulse => UNCHANGED credited
  BY DEF Pulse, Beat, AnswerBeat, Revoke, WipeAfterRevoke
<1>4. Leave => UNCHANGED credited
  BY DEF Leave, AskSignOut, CancelSignOut, SignOut, WipeAfterSignOut, Survey, Evict, SweepFails
<1>5. Enter => UNCHANGED credited
  BY DEF Enter, OpenForm, Bind, Save, Adopt
<1>6. Office \/ Restart => UNCHANGED credited
  BY DEF Office, RevokeDevice, RestoreDevice, Restart
<1> QED
  BY <1>1, <1>2, <1>3, <1>4, <1>5, <1>6 DEF SignNext

\* What an ingest books: rows of the batch that nobody has been booked yet, on the owner.
LEMMA IngestBooks ==
  ASSUME TypeInv, Ingest
  PROVE  \/ UNCHANGED credited
         \/ /\ Known(sync.token) /\ device.owner \in Person
            /\ credited' = credited \cup {<<s, device.owner>> : s \in {r \in batch : IsNew(r)}}
<1>1. device.active => device.owner \in Person
  BY DEF TypeInv, SignTypeOK, OwnerInv
<1> QED
  BY <1>1 DEF Ingest

LEMMA CreditedStep ==
  ASSUME TypeInv, CreditedOnce, [SignNext]_signVars
  PROVE  CreditedOnce'
<1>1. CASE UNCHANGED credited
  BY <1>1 DEF CreditedOnce
<1>2. CASE /\ device.owner \in Person
           /\ credited' = credited \cup {<<s, device.owner>> : s \in {r \in batch : IsNew(r)}}
  <2>1. credited \subseteq (1 .. made) \X Person
    BY DEF TypeInv, SignTypeOK
  <2>2. ASSUME NEW c \in credited, NEW s \in batch, IsNew(s) PROVE c[1] # s
    <3>1. c = <<c[1], c[2]>> /\ c[2] \in Person
      BY <2>1
    <3> QED
      BY <2>2, <3>1 DEF IsNew
  <2>3. \A c \in credited' : c \in credited \/ \E s \in batch : IsNew(s) /\ c = <<s, device.owner>>
    BY <1>2
  <2>4. ASSUME NEW c \in credited', NEW e \in credited', c[1] = e[1] PROVE c = e
    BY <2>2, <2>3, <2>4 DEF CreditedOnce
  <2> QED
    BY <2>4 DEF CreditedOnce
<1> QED
  BY <1>1, <1>2, OnlyIngestCredits, IngestBooks

(***************************************************************************)
(* A segment is booked on one person only, whatever is lost, sent again or *)
(* restarted, and whoever signs in between.                                *)
(***************************************************************************)
THEOREM BookedOnce == SignSpec => []CreditedOnce
<1>1. SignInit => CreditedOnce
  BY DEF SignInit, CreditedOnce
<1> QED
  BY InitTyped, TypedStep, CreditedStep, <1>1, PTL DEF SignSpec

-----------------------------------------------------------------------------
\* Signed in after a restart.

\* Nobody is signed in while a sign-in is under way, and what it is about to adopt is on
\* disk unless a late deletion has taken it.
EnterInv ==
  /\ in.pc # "none" => ~SignedIn
  /\ in.pc = "adopt" => disk = in.cred \/ in.cred.token \in wiped
  /\ in.pc \in {"save", "adopt"} => in.cred # NoCred

EntryInv == EnterInv /\ SurvivesRestart

LEMMA EntryWiped ==
  ASSUME TypeInv, EntryInv, Wipe, in' = in
  PROVE  EntryInv'
<1>1. PICK ok \in BOOLEAN : /\ disk' = IF ok THEN NoCred ELSE disk
                            /\ wiped' = IF ok THEN wiped \cup {disk.token} ELSE wiped
  BY DEF Wipe
<1>2. memory' = memory
  BY DEF Wipe
<1> QED
  BY <1>1, <1>2 DEF EntryInv, EnterInv, SurvivesRestart, SignedIn

LEMMA EntryStep ==
  ASSUME TypeInv, EntryInv, [SignNext]_signVars
  PROVE  EntryInv'
<1> USE DEF signVars, credVars, trackVars, queueVars, workVars, serverVars, historyVars, OutVars,
            InVars
<1>1. ASSUME UNCHANGED <<memory, disk, in, wiped>> PROVE EntryInv'
  BY <1>1 DEF EntryInv, EnterInv, SurvivesRestart, SignedIn
<1>2. Track => UNCHANGED <<memory, disk, in, wiped>>
  BY DEF Track, MomentPasses, PassGate, Tick, CloseUngated, StopTrackingForRevoke, Enqueue
<1>3. Upload => UNCHANGED <<memory, disk, in, wiped>>
  BY DEF Upload, LeaseRows, Send, Ingest, ApplyReply
<1>4. Office => UNCHANGED <<memory, disk, in, wiped>>
  BY DEF Office, RevokeDevice, RestoreDevice
<1>5. ASSUME memory' = NoCred, UNCHANGED <<disk, in, wiped>> PROVE EntryInv'
  BY <1>5 DEF EntryInv, EnterInv, SurvivesRestart, SignedIn
<1>6. CASE Pulse
  <2>1. CASE Beat \/ AnswerBeat
    BY <1>1, <2>1 DEF Beat, AnswerBeat
  <2>2. CASE Revoke
    BY <1>5, <2>2 DEF Revoke
  <2>3. CASE WipeAfterRevoke
    BY <2>3, EntryWiped DEF WipeAfterRevoke
  <2> QED
    BY <1>6, <2>1, <2>2, <2>3 DEF Pulse
<1>7. CASE Leave
  <2>1. CASE AskSignOut \/ CancelSignOut \/ Survey \/ Evict \/ SweepFails
    BY <1>1, <2>1 DEF AskSignOut, CancelSignOut, Survey, Evict, SweepFails
  <2>2. CASE SignOut
    BY <1>5, <2>2 DEF SignOut
  <2>3. CASE WipeAfterSignOut
    BY <2>3, EntryWiped DEF WipeAfterSignOut
  <2> QED
    BY <1>7, <2>1, <2>2, <2>3 DEF Leave
<1>8. CASE OpenForm
  BY <1>8 DEF OpenForm, NoIn, EntryInv, EnterInv, SurvivesRestart, SignedIn
<1>9. CASE Bind
  <2>1. PICK p \in Person, ok \in BOOLEAN :
          in' = IF ok THEN [pc |-> "save", cred |-> [who |-> p, token |-> device.token + 1]]
                ELSE in
    BY <1>9 DEF Bind
  <2>2. [who |-> p, token |-> device.token + 1] # NoCred
    BY PersonAssumption DEF NoCred
  <2>3. UNCHANGED <<memory, disk, wiped>> /\ ~SignedIn /\ in.pc = "form"
    BY <1>9 DEF Bind
  <2> QED
    BY <2>1, <2>2, <2>3 DEF EntryInv, EnterInv, SurvivesRestart, SignedIn
<1>10. CASE Save
  <2>1. PICK ok \in BOOLEAN : /\ disk' = IF ok THEN in.cred ELSE disk
                              /\ in' = [in EXCEPT !.pc = AfterSave(ok)]
    BY <1>10 DEF Save
  <2>2. in.pc = "save" /\ ~SignedIn /\ in.cred # NoCred /\ UNCHANGED memory
    BY <1>10 DEF Save, EntryInv, EnterInv
  <2>3. in'.cred = in.cred /\ in'.pc = AfterSave(ok)
    BY <2>1 DEF TypeInv, SignTypeOK
  <2> QED
    BY <2>1, <2>2, <2>3 DEF AfterSave, EntryInv, EnterInv, SurvivesRestart, SignedIn
<1>11. CASE Adopt
  BY <1>11 DEF Adopt, NoIn, EntryInv, EnterInv, SurvivesRestart, SignedIn
<1>12. CASE Restart
  BY <1>12 DEF Restart, NoIn, EntryInv, EnterInv, SurvivesRestart, SignedIn
<1>13. UNCHANGED signVars => UNCHANGED <<memory, disk, in, wiped>>
  OBVIOUS
<1> QED
  BY <1>1, <1>2, <1>3, <1>4, <1>6, <1>7, <1>8, <1>9, <1>10, <1>11, <1>12, <1>13
     DEF SignNext, Enter

(***************************************************************************)
(* Whoever is signed in still is after a restart, whatever fails while     *)
(* signing in: a token is adopted only once it is on disk, and what is     *)
(* signed in never differs from the file but for a deletion that came late.*)
(***************************************************************************)
THEOREM StillSignedIn == SignSpec => []SurvivesRestart
<1>1. SignInit => EntryInv
  BY DEF SignInit, NoIn, EntryInv, EnterInv, SurvivesRestart, SignedIn
<1>2. EntryInv => SurvivesRestart
  BY DEF EntryInv
<1> QED
  BY InitTyped, TypedStep, EntryStep, <1>1, <1>2, PTL DEF SignSpec

-----------------------------------------------------------------------------
\* Whose hours.

\* A credential is no newer than the server's binding of the device, and the newest one
\* names the owner.
Bound(c) ==
  /\ c.token <= device.token
  /\ c.token = device.token /\ c.token # 0 => c.who = device.owner

BoundInv ==
  /\ Bound(memory) /\ Bound(disk) /\ Bound(wire) /\ Bound(in.cred)
  /\ sync.token <= device.token
  /\ memory \in {NoCred, wire}

\* What is on its way into the table is not in it, and not surveyed either.
ApartInv == flight \cap (queue \cup out.rows) = {}

\* Who was signed in during a segment that is closed, or is the open one.
Signers(s) == IF s \in 1 .. made THEN of[s] ELSE open

\* What was measured and has slipped through no sweep is of the person who is signed in;
\* of nobody if nobody is and no sweep is due; of nobody or surveyed once the sweep has
\* surveyed; and of the owner if the client holds the newest token.
Own(s) ==
  /\ SignedIn => Signers(s) \subseteq {memory.who, Nobody}
  /\ ~SignedIn /\ ~Sweeping => Signers(s) \subseteq {Nobody}
  /\ ~SignedIn /\ out.pc = "evict" => s \in out.rows \/ Signers(s) \subseteq {Nobody}
  /\ wire.token = device.token /\ wire.token # 0 => Signers(s) \subseteq {device.owner, Nobody}

OwnInv == \A s \in Measured : s \in slipped \/ Own(s)

\* A request with the newest token carries rows of its owner.
AskInv ==
  sync.pc = "asking" /\ sync.token = device.token /\ sync.token # 0 =>
    \A s \in batch : s \in slipped \/ of[s] \subseteq {device.owner, Nobody}

LEMMA BoundKept ==
  ASSUME TypeInv, BoundInv, device'.token = device.token, device'.owner = device.owner,
         memory' \in {NoCred, memory}, wire' \in {memory', wire}, disk' \in {NoCred, disk, in.cred},
         in'.cred \in {NoCred, in.cred}, sync'.token \in {0, sync.token, wire.token}
  PROVE  BoundInv'
<1>1. device.token \in Nat /\ NoCred.token = 0
  BY BoundAssumption, Credentials DEF TypeInv, SignTypeOK
<1>2. \A c \in Cred : Bound(c) => Bound(c)'
  BY DEF Bound
<1>3. Bound(NoCred) /\ Bound(memory) /\ Bound(disk) /\ Bound(wire) /\ Bound(in.cred)
  BY <1>1 DEF BoundInv, Bound
<1>4. memory' \in Cred /\ wire' \in Cred /\ disk' \in Cred /\ in'.cred \in Cred
  BY Credentials DEF TypeInv, SignTypeOK
<1>5. Bound(memory)' /\ Bound(wire)' /\ Bound(disk)' /\ Bound(in.cred)'
  BY <1>3 DEF Bound
<1>6. sync'.token <= device'.token
  BY <1>1, <1>3 DEF BoundInv, Bound
<1>7. memory' \in {NoCred, wire'}
  BY DEF BoundInv
<1> QED
  BY <1>5, <1>6, <1>7 DEF BoundInv

LEMMA BoundStep ==
  ASSUME TypeInv, EntryInv, BoundInv, [SignNext]_signVars
  PROVE  BoundInv'
<1> USE DEF signVars, credVars, trackVars, queueVars, workVars, serverVars, historyVars, OutVars,
            InVars
<1>1. ASSUME UNCHANGED <<memory, disk, wire, in, sync, device>> PROVE BoundInv'
  BY <1>1 DEF BoundInv, Bound
<1>2. Track \/ UNCHANGED signVars => UNCHANGED <<memory, disk, wire, in, sync, device>>
  BY DEF Track, MomentPasses, PassGate, Tick, CloseUngated, StopTrackingForRevoke, Enqueue
<1>3. CASE Upload
  <2>1. UNCHANGED <<memory, disk, wire, in, device>>
    BY <1>3 DEF Upload, LeaseRows, Send, Ingest, ApplyReply
  <2>2. sync'.token \in {0, sync.token, wire.token}
    <3>1. sync \in [pc : {"idle", "leased", "asking", "answered"}, token : 0 .. MaxBind,
                    reply : {"none", "ok", "later", "revoked"}]
      BY DEF TypeInv, SignTypeOK
    <3>2. CASE LeaseRows \/ ApplyReply
      BY <3>2 DEF LeaseRows, ApplyReply, NoSync
    <3>3. CASE Send
      BY <3>1, <3>3 DEF Send
    <3>4. CASE Ingest
      <4>1. PICK reply : sync' = [NoSync EXCEPT !.pc = "answered", !.reply = reply]
        BY <3>4 DEF Ingest
      <4> QED
        BY <4>1 DEF NoSync
    <3> QED
      BY <1>3, <3>2, <3>3, <3>4 DEF Upload
  <2> QED
    BY <2>1, <2>2, BoundKept
<1>4. CASE Pulse
  <2>1. CASE Beat \/ AnswerBeat
    BY <1>1, <2>1 DEF Beat, AnswerBeat
  <2>2. CASE Revoke
    BY <2>2, BoundKept DEF Revoke
  <2>3. CASE WipeAfterRevoke
    BY <2>3, BoundKept DEF WipeAfterRevoke, Wipe, Announce
  <2> QED
    BY <1>4, <2>1, <2>2, <2>3 DEF Pulse
<1>5. CASE Leave
  <2>1. CASE AskSignOut \/ CancelSignOut \/ Survey \/ Evict \/ SweepFails
    BY <1>1, <2>1 DEF AskSignOut, CancelSignOut, Survey, Evict, SweepFails
  <2>2. CASE SignOut
    BY <2>2, BoundKept DEF SignOut
  <2>3. CASE WipeAfterSignOut
    BY <2>3, BoundKept DEF WipeAfterSignOut, Wipe, Announce
  <2> QED
    BY <1>5, <2>1, <2>2, <2>3 DEF Leave
<1>6. CASE OpenForm
  BY <1>6, BoundKept DEF OpenForm, NoIn
<1>7. CASE Bind
  <2>1. PICK p \in Person, ok \in BOOLEAN :
          /\ device' = [owner |-> p, active |-> TRUE, token |-> device.token + 1]
          /\ in' = IF ok THEN [pc |-> "save", cred |-> [who |-> p, token |-> device.token + 1]]
                   ELSE in
    BY <1>7 DEF Bind
  <2>2. device'.token = device.token + 1 /\ device'.owner = p /\ device.token \in Nat
    BY <2>1, BoundAssumption DEF TypeInv, SignTypeOK
  <2>3. \A c \in Cred : Bound(c) => c.token <= device'.token /\ c.token # device'.token
    BY <2>2, BoundAssumption, Credentials DEF Bound
  <2>4. UNCHANGED <<memory, disk, wire, sync>>
    BY <1>7 DEF Bind
  <2>5. memory \in Cred /\ disk \in Cred /\ wire \in Cred /\ in.cred \in Cred /\ sync.token \in Nat
    BY BoundAssumption DEF TypeInv, SignTypeOK
  <2>6. Bound(memory)' /\ Bound(disk)' /\ Bound(wire)'
    BY <2>3, <2>4, <2>5 DEF BoundInv, Bound
  <2>7. Bound(in.cred)'
    <3>1. CASE ok
      BY <2>1, <2>2, <3>1 DEF Bound
    <3>2. CASE ~ok
      BY <2>1, <2>3, <2>5, <3>2 DEF BoundInv, Bound
    <3> QED
      BY <3>1, <3>2
  <2>8. sync'.token <= device'.token /\ memory' \in {NoCred, wire'}
    BY <2>2, <2>4, <2>5 DEF BoundInv
  <2> QED
    BY <2>6, <2>7, <2>8 DEF BoundInv
<1>8. CASE Save
  <2>1. in'.cred = in.cred
    <3>1. in \in [pc : {"none", "form", "save", "adopt"}, cred : Cred]
      BY DEF TypeInv, SignTypeOK
    <3> QED
      BY <1>8, <3>1 DEF Save
  <2>2. disk' \in {disk, in.cred}
    BY <1>8 DEF Save
  <2> QED
    BY <1>8, <2>1, <2>2, BoundKept DEF Save
<1>9. CASE Adopt
  <2>1. /\ memory' = in.cred /\ wire' = in.cred /\ in'.cred = NoCred
        /\ UNCHANGED <<disk, sync, device>>
    BY <1>9 DEF Adopt, Announce, NoIn
  <2>2. NoCred.token = 0 /\ device.token \in Nat
    BY BoundAssumption, Credentials DEF TypeInv, SignTypeOK
  <2>3. Bound(in.cred)' /\ sync'.token <= device'.token
    BY <2>1, <2>2 DEF BoundInv, Bound
  <2> QED
    BY <2>1, <2>3 DEF BoundInv, Bound
<1>10. CASE Office
  <2>1. device'.token = device.token /\ device'.owner = device.owner
    <3>1. device \in [owner : Person \cup {Nobody}, active : BOOLEAN, token : 0 .. MaxBind]
      BY DEF TypeInv, SignTypeOK
    <3> QED
      BY <1>10, <3>1 DEF Office, RevokeDevice, RestoreDevice
  <2> QED
    BY <1>10, <2>1, BoundKept DEF Office, RevokeDevice, RestoreDevice
<1>11. CASE Restart
  <2>1. /\ memory' = disk /\ wire' = disk /\ in'.cred = NoCred /\ sync'.token = 0
        /\ UNCHANGED <<disk, device>>
    BY <1>11 DEF Restart, Announce, NoIn, NoSync
  <2>2. NoCred.token = 0 /\ device.token \in Nat
    BY BoundAssumption, Credentials DEF TypeInv, SignTypeOK
  <2>3. Bound(in.cred)' /\ sync'.token <= device'.token
    BY <2>1, <2>2 DEF BoundInv, Bound
  <2> QED
    BY <2>1, <2>3 DEF BoundInv, Bound
<1> QED
  BY <1>1, <1>2, <1>3, <1>4, <1>5, <1>6, <1>7, <1>8, <1>9, <1>10, <1>11 DEF SignNext, Enter

\* What may change while every segment that has not slipped stays its signers'.
LEMMA OwnKept ==
  ASSUME TypeInv, BoundInv, OwnInv, UNCHANGED memory,
         wire' = wire \/ wire'.token = 0,
         device'.token = device.token, device'.owner = device.owner,
         Sweeping => Sweeping',
         out'.pc = "evict" => out.pc = "evict" /\ out'.rows = out.rows,
         slipped \subseteq slipped',
         \A s \in Measured' : \/ s \in slipped'
                              \/ s \in Measured /\ Signers(s)' \subseteq Signers(s) \cup {memory.who}
                              \/ Signers(s)' \subseteq {memory.who}
  PROVE  OwnInv'
<1> SUFFICES ASSUME NEW s \in Measured', s \notin slipped' PROVE Own(s)'
  BY DEF OwnInv
<1>1. PICK Old : /\ Old \subseteq {memory.who} \/ (s \in Measured /\ Old = Signers(s) \cup {memory.who})
                 /\ Signers(s)' \subseteq Old
  OBVIOUS
<1>2. s \in Measured => Own(s)
  BY DEF OwnInv
<1>3. NoCred.who = Nobody /\ NoCred.token = 0
  BY Credentials
<1>4. (SignedIn' <=> SignedIn) /\ memory'.who = memory.who
  BY DEF SignedIn
<1>5. ~SignedIn => memory.who = Nobody
  BY <1>3 DEF SignedIn
<1>6. SignedIn => Old \subseteq {memory.who, Nobody}
  BY <1>1, <1>2 DEF Own
<1>7. ~SignedIn /\ ~Sweeping => Old \subseteq {Nobody}
  BY <1>1, <1>2, <1>5 DEF Own
<1>8. ~SignedIn /\ out.pc = "evict" => s \in out.rows \/ Old \subseteq {Nobody}
  BY <1>1, <1>2, <1>5 DEF Own
<1>9. wire.token = device.token /\ wire.token # 0 => Old \subseteq {device.owner, Nobody}
  <2> SUFFICES ASSUME wire.token = device.token, wire.token # 0 PROVE Old \subseteq {device.owner, Nobody}
    OBVIOUS
  <2>1. memory.who \in {Nobody, wire.who} /\ wire.who = device.owner
    BY <1>3 DEF BoundInv, Bound
  <2> QED
    BY <1>1, <1>2, <2>1 DEF Own
<1> HIDE DEF Signers
<1>10. SignedIn' => Signers(s)' \subseteq {memory'.who, Nobody}
  BY <1>1, <1>4, <1>6
<1>11. ~SignedIn' /\ ~Sweeping' => Signers(s)' \subseteq {Nobody}
  BY <1>1, <1>4, <1>7
<1>12. ~SignedIn' /\ out'.pc = "evict" => s \in out'.rows \/ Signers(s)' \subseteq {Nobody}
  BY <1>1, <1>4, <1>8
<1>13. wire'.token = device'.token /\ wire'.token # 0 => Signers(s)' \subseteq {device'.owner, Nobody}
  BY <1>1, <1>9
<1> QED
  BY <1>10, <1>11, <1>12, <1>13 DEF Own

LEMMA ClosedOwn ==
  ASSUME TypeInv, Close, UNCHANGED queue
  PROVE  Measured' = Measured /\ \A s \in Measured : Signers(s)' = Signers(s)
<1>1. /\ made' = made + 1 /\ \A s \in 1 .. made : of'[s] = of[s]
      /\ of'[made'] = open /\ open' = {} /\ open # {} /\ flight' = flight \cup {made + 1}
  BY CloseTyped DEF Close
<1>2. Measured \subseteq 1 .. (made + 1) /\ made \in Nat
  BY MeasuredMade
<1>3. Measured' = Measured
  BY <1>1 DEF Measured
<1>4. \A s \in 1 .. (made + 1) : s \in 1 .. made \/ s = made + 1
  BY <1>2
<1>5. made + 1 \notin 1 .. made /\ \A s \in 1 .. (made + 1) : s \in 1 .. made'
  BY <1>1, <1>2
<1> QED
  BY <1>1, <1>2, <1>3, <1>4, <1>5 DEF Signers

LEMMA OwnTrack == ASSUME TypeInv, BoundInv, OwnInv, Track PROVE OwnInv'
<1> USE DEF credVars, trackVars, queueVars, workVars, serverVars, historyVars
<1>1. UNCHANGED <<memory, wire, device, out, slipped>>
  BY DEF Track, MomentPasses, PassGate, Tick, CloseUngated, StopTrackingForRevoke, Enqueue
<1>2. Sweeping => Sweeping'
  BY <1>1 DEF Sweeping
<1>3. ASSUME \A s \in Measured' : \/ s \in Measured /\ Signers(s)' \subseteq Signers(s) \cup {memory.who}
                                  \/ Signers(s)' \subseteq {memory.who}
      PROVE  OwnInv'
  BY <1>1, <1>2, <1>3, OwnKept
<1>4. CASE MomentPasses
  <2>1. UNCHANGED <<made, of, flight, queue>> /\ open' = open \cup {memory.who}
    BY <1>4 DEF MomentPasses
  <2>2. \A s \in Measured' : s \in Measured \/ (s = made + 1 /\ open = {})
    BY <2>1 DEF Measured
  <2>3. \A s : Signers(s)' \subseteq Signers(s) \cup {memory.who}
    BY <2>1 DEF Signers
  <2>4. \A s : s = made + 1 /\ open = {} => Signers(s)' \subseteq {memory.who}
    BY <2>1, MeasuredMade DEF Signers
  <2> HIDE DEF Signers
  <2>5. ASSUME NEW s \in Measured'
        PROVE  \/ s \in Measured /\ Signers(s)' \subseteq Signers(s) \cup {memory.who}
               \/ Signers(s)' \subseteq {memory.who}
    BY <2>2, <2>3, <2>4
  <2> QED
    BY <1>3, <2>5
<1>5. CASE Close /\ UNCHANGED queue
  BY <1>3, <1>5, ClosedOwn
<1>6. ASSUME UNCHANGED <<made, of>>, Measured' \subseteq Measured, open' = open \/ open' = {}
      PROVE  OwnInv'
  <2>1. \A s : Signers(s)' \subseteq Signers(s)
    BY <1>6 DEF Signers
  <2> QED
    BY <1>3, <1>6, <2>1
<1>7. CASE PassGate \/ StopTrackingForRevoke \/ Enqueue
  <2>1. Measured' \subseteq Measured
    <3>1. CASE PassGate
      BY <3>1 DEF PassGate, Measured
    <3>2. CASE StopTrackingForRevoke
      BY <3>2 DEF StopTrackingForRevoke, Measured
    <3>3. CASE Enqueue
      <4>1. PICK s \in flight : flight' = flight \ {s} /\ queue' = queue \cup {s}
        BY <3>3 DEF Enqueue
      <4>2. UNCHANGED <<open, made>>
        BY <3>3 DEF Enqueue
      <4> QED
        BY <4>1, <4>2 DEF Measured
    <3> QED
      BY <1>7, <3>1, <3>2, <3>3
  <2>2. UNCHANGED <<made, of>> /\ (open' = open \/ open' = {})
    BY <1>7 DEF PassGate, StopTrackingForRevoke, Enqueue
  <2> QED
    BY <1>6, <2>1, <2>2
<1>8. CASE Tick
  <2>1. CASE UNCHANGED <<open, made, of, flight>>
    <3>1. UNCHANGED queue
      BY <1>8 DEF Tick
    <3> QED
      BY <1>6, <2>1, <3>1 DEF Measured
  <2> QED
    BY <1>5, <1>8, <2>1 DEF Tick
<1> QED
  BY <1>4, <1>5, <1>7, <1>8 DEF Track, CloseUngated

LEMMA OwnUpload == ASSUME TypeInv, BoundInv, OwnInv, Upload PROVE OwnInv'
<1> USE DEF credVars, trackVars, queueVars, workVars, serverVars, historyVars
<1>1. UNCHANGED <<memory, wire, device, out, slipped, open, made, of, flight>>
  BY DEF Upload, LeaseRows, Send, Ingest, ApplyReply
<1>2. queue' \subseteq queue
  BY DEF Upload, LeaseRows, Send, Ingest, ApplyReply
<1>3. Measured' \subseteq Measured /\ \A s : Signers(s)' = Signers(s)
  BY <1>1, <1>2 DEF Measured, Signers
<1>4. Sweeping => Sweeping'
  BY <1>1 DEF Sweeping
<1> QED
  BY <1>1, <1>3, <1>4, OwnKept

\* A deletion of the file, which leaves the client with no token if nobody is signed in.
LEMMA OwnWiped ==
  ASSUME TypeInv, BoundInv, OwnInv, Wipe,
         UNCHANGED <<device, slipped, open, made, of, flight, queue>>,
         Sweeping => Sweeping', out'.pc = "evict" => out.pc = "evict" /\ out'.rows = out.rows
  PROVE  OwnInv'
<1>1. UNCHANGED memory /\ wire' = memory
  BY DEF Wipe, Announce
<1>2. wire' = wire \/ wire'.token = 0
  BY <1>1, Credentials DEF BoundInv
<1>3. Measured' = Measured /\ \A s : Signers(s)' = Signers(s)
  BY DEF Measured, Signers
<1> QED
  BY <1>1, <1>2, <1>3, OwnKept

LEMMA OwnPulse == ASSUME TypeInv, BoundInv, OwnInv, Pulse PROVE OwnInv'
<1> USE DEF credVars, trackVars, queueVars, workVars, serverVars, historyVars
<1>1. CASE Beat \/ AnswerBeat
  <2>1. UNCHANGED <<memory, wire, device, out, slipped, open, made, of, flight, queue>>
    BY <1>1 DEF Beat, AnswerBeat
  <2>2. Measured' = Measured /\ (Sweeping => Sweeping') /\ \A s : Signers(s)' = Signers(s)
    BY <2>1 DEF Measured, Signers, Sweeping
  <2> QED
    BY <2>1, <2>2, OwnKept
<1>2. CASE Revoke
  BY <1>2 DEF Revoke, OwnInv, Measured
<1>3. CASE WipeAfterRevoke
  <2>1. Wipe /\ UNCHANGED <<device, slipped, open, made, of, flight, queue, out>>
    BY <1>3 DEF WipeAfterRevoke
  <2>2. Sweeping => Sweeping'
    BY <2>1 DEF Sweeping
  <2> QED
    BY <2>1, <2>2, OwnWiped
<1> QED
  BY <1>1, <1>2, <1>3 DEF Pulse

LEMMA OwnLeave == ASSUME TypeInv, ApartInv, BoundInv, OwnInv, Leave PROVE OwnInv'
<1> USE DEF credVars, trackVars, queueVars, workVars, serverVars, historyVars, OutVars
<1>0. \A s : UNCHANGED <<made, of, open>> => Signers(s)' = Signers(s)
  BY DEF Signers
<1>1. CASE AskSignOut \/ CancelSignOut
  <2>1. UNCHANGED <<memory, wire, device, slipped, open, made, of, flight, queue>>
    BY <1>1 DEF AskSignOut, CancelSignOut
  <2>2. Sweeping => Sweeping'
    BY <1>1 DEF AskSignOut, CancelSignOut, Sweeping
  <2>3. out'.pc # "evict"
    BY <1>1 DEF AskSignOut, CancelSignOut, NoOut
  <2>4. Measured' = Measured
    BY <2>1 DEF Measured
  <2> QED
    BY <1>0, <2>1, <2>2, <2>3, <2>4, OwnKept
<1>2. CASE SignOut
  <2>1. /\ memory' = NoCred
        /\ UNCHANGED <<wire, device, slipped, open, made, of, flight, queue>>
    BY <1>2 DEF SignOut
  <2>2. out'.pc \in {"wipe", "survey"}
    BY <1>2 DEF SignOut, SignTypeOK, TypeInv
  <2>3. Measured' = Measured
    BY <2>1 DEF Measured
  <2> HIDE DEF Signers
  <2>4. ASSUME NEW s, Own(s) PROVE Own(s)'
    BY <1>0, <2>1, <2>2, <2>4 DEF Own, SignedIn, Sweeping
  <2> QED
    BY <2>1, <2>3, <2>4 DEF OwnInv
<1>3. CASE WipeAfterSignOut
  <2>1. Wipe /\ UNCHANGED <<device, slipped, open, made, of, flight, queue>>
    BY <1>3 DEF WipeAfterSignOut
  <2>2. out'.pc = "survey"
    BY <1>3 DEF WipeAfterSignOut, SignTypeOK, TypeInv
  <2> QED
    BY <2>1, <2>2, OwnWiped DEF Sweeping
<1>4. CASE Survey
  <2>1. /\ out' = [pc |-> "evict", rows |-> queue \ batch]
        /\ slipped' = slipped \cup flight \cup batch \cup (Measured \ queue)
        /\ UNCHANGED <<memory, wire, device, open, made, of, flight, queue>>
    BY <1>4 DEF Survey, Swept
  <2>2. Measured' = Measured
    BY <2>1 DEF Measured
  <2>3. ASSUME NEW s \in Measured', s \notin slipped' PROVE Own(s)'
    <3>1. Own(s) /\ s \in out'.rows
      BY <2>1, <2>2, <2>3 DEF OwnInv
    <3> QED
      BY <1>0, <2>1, <3>1 DEF Own, SignedIn, Sweeping
  <2> QED
    BY <2>3 DEF OwnInv
<1>5. CASE Evict
  <2>1. /\ out.pc = "evict" /\ out' = NoOut
        /\ queue' = queue \ (out.rows \ batch)
        /\ slipped' = slipped \cup (out.rows \cap batch)
        /\ UNCHANGED <<memory, wire, device, open, made, of, flight>>
    BY <1>5 DEF Evict, Evicted
  <2>2. Measured' \subseteq Measured
    BY <2>1 DEF Measured
  <2>3. ASSUME NEW s \in Measured', s \notin slipped' PROVE Own(s)'
    <3>1. Own(s)
      BY <2>1, <2>2, <2>3 DEF OwnInv
    <3>2. s \notin out.rows
      <4>1. out.rows \subseteq 1 .. made
        BY DEF TypeInv, SignTypeOK
      <4>2. made + 1 \notin 1 .. made
        BY MeasuredMade
      <4>3. s \in queue' \/ s \in flight \/ s = made + 1
        BY <2>1, <2>3 DEF Measured
      <4> QED
        BY <2>1, <2>3, <4>1, <4>2, <4>3 DEF ApartInv
    <3> QED
      BY <1>0, <2>1, <3>1, <3>2 DEF Own, SignedIn, Sweeping, NoOut
  <2> QED
    BY <2>3 DEF OwnInv
<1>6. CASE SweepFails
  BY <1>6 DEF SweepFails, OwnInv, Measured
<1> QED
  BY <1>1, <1>2, <1>3, <1>4, <1>5, <1>6 DEF Leave

LEMMA OwnEnter == ASSUME TypeInv, EntryInv, BoundInv, OwnInv, Enter PROVE OwnInv'
<1> USE DEF credVars, trackVars, queueVars, workVars, serverVars, historyVars, InVars
<1>0. /\ UNCHANGED <<out, made, of, open, flight, queue>> => UNCHANGED <<Measured, Sweeping>>
      /\ \A s : UNCHANGED <<made, of, open>> => Signers(s)' = Signers(s)
  BY DEF Measured, Signers, Sweeping
<1>1. CASE OpenForm \/ Save
  <2>1. UNCHANGED <<memory, wire, device, out, slipped, open, made, of, flight, queue>>
    BY <1>1 DEF OpenForm, Save
  <2> HIDE DEF Signers, Measured, Sweeping
  <2> QED
    BY <1>0, <2>1, OwnKept
<1>2. CASE Bind
  <2>1. UNCHANGED <<memory, wire, out, slipped, open, made, of, flight, queue>>
    BY <1>2 DEF Bind
  <2>2. device'.token = device.token + 1 /\ device.token \in Nat /\ wire.token \in Nat
    BY <1>2, BoundAssumption, Credentials DEF Bind, TypeInv, SignTypeOK
  <2>3. wire'.token # device'.token
    BY <2>1, <2>2 DEF BoundInv, Bound
  <2>4. ASSUME NEW s, Own(s) PROVE Own(s)'
    BY <1>0, <2>1, <2>3, <2>4 DEF Own, SignedIn
  <2> QED
    BY <1>0, <2>1, <2>4 DEF OwnInv
<1>3. CASE Adopt
  <2>1. /\ memory' = in.cred /\ wire' = in.cred /\ in.cred # NoCred /\ ~SignedIn
        /\ slipped' = IF Sweeping THEN slipped \cup Measured ELSE slipped
        /\ UNCHANGED <<device, out, open, made, of, flight, queue>>
    BY <1>3 DEF Adopt, Announce, EntryInv, EnterInv
  <2>2. ASSUME NEW s \in Measured', s \notin slipped' PROVE Own(s)'
    <3>1. Own(s) /\ ~Sweeping
      BY <1>0, <2>1, <2>2 DEF OwnInv
    <3>2. Signers(s)' \subseteq {Nobody}
      BY <1>0, <2>1, <3>1 DEF Own
    <3> QED
      BY <2>1, <3>2 DEF Own, SignedIn
  <2> QED
    BY <2>2 DEF OwnInv
<1> QED
  BY <1>1, <1>2, <1>3 DEF Enter

LEMMA OwnOffice == ASSUME TypeInv, BoundInv, OwnInv, Office PROVE OwnInv'
<1> USE DEF credVars, trackVars, queueVars, workVars, serverVars, historyVars, InVars
<1>1. UNCHANGED <<memory, wire, out, slipped, open, made, of, flight, queue>>
  BY DEF Office, RevokeDevice, RestoreDevice
<1>2. device'.token = device.token /\ device'.owner = device.owner
  BY DEF Office, RevokeDevice, RestoreDevice, TypeInv, SignTypeOK
<1>3. Measured' = Measured /\ (Sweeping => Sweeping') /\ \A s : Signers(s)' = Signers(s)
  BY <1>1 DEF Measured, Signers, Sweeping
<1> QED
  BY <1>1, <1>2, <1>3, OwnKept

LEMMA OwnRestart == ASSUME TypeInv, BoundInv, OwnInv, Restart PROVE OwnInv'
<1>1. /\ memory' = disk /\ wire' = disk /\ open' = {} /\ flight' = {} /\ out' = NoOut
      /\ slipped' = IF Sweeping \/ (SignedIn /\ disk # memory) THEN slipped \cup Measured
                    ELSE slipped
      /\ UNCHANGED <<made, of, queue, device>>
  BY DEF Restart, Announce, serverVars
<1>2. Measured' = queue /\ queue \subseteq Measured /\ queue \subseteq 1 .. made
  BY <1>1 DEF Measured, TypeInv, SignTypeOK
<1>3. \A s \in queue : Signers(s)' = Signers(s)
  BY <1>1, <1>2 DEF Signers
<1>4. ASSUME NEW s \in queue, s \notin slipped' PROVE Own(s)'
  <2>1. Own(s) /\ ~Sweeping /\ (SignedIn => disk = memory)
    BY <1>1, <1>2, <1>4 DEF OwnInv
  <2>2. CASE SignedIn
    <3>1. memory' = memory /\ wire' = wire
      BY <1>1, <2>1, <2>2 DEF BoundInv, SignedIn
    <3> QED
      BY <1>1, <1>3, <2>1, <2>2, <3>1 DEF Own, SignedIn, NoOut
  <2>3. CASE ~SignedIn
    <3>1. Signers(s)' \subseteq {Nobody}
      BY <1>3, <2>1, <2>3 DEF Own
    <3> QED
      BY <3>1 DEF Own
  <2> QED
    BY <2>2, <2>3
<1> QED
  BY <1>2, <1>4 DEF OwnInv

LEMMA OwnStep ==
  ASSUME TypeInv, EntryInv, ApartInv, BoundInv, OwnInv, [SignNext]_signVars
  PROVE  OwnInv'
<1>1. ASSUME UNCHANGED signVars PROVE OwnInv'
  BY <1>1 DEF OwnInv, Own, Measured, Signers, SignedIn, Sweeping, signVars, credVars, trackVars,
              queueVars, workVars, serverVars, historyVars
<1> QED
  BY <1>1, OwnTrack, OwnUpload, OwnPulse, OwnLeave, OwnEnter, OwnOffice, OwnRestart DEF SignNext

LEMMA ApartStep ==
  ASSUME TypeInv, ApartInv, [SignNext]_signVars
  PROVE  ApartInv'
<1> USE DEF signVars, credVars, trackVars, queueVars, workVars, serverVars, historyVars, OutVars,
            InVars
<1>1. ASSUME flight' \subseteq flight, queue' \subseteq queue, out'.rows \subseteq out.rows \cup queue
      PROVE  ApartInv'
  BY <1>1 DEF ApartInv
<1>2. CASE Track
  <2>1. UNCHANGED out
    BY <1>2 DEF Track, MomentPasses, PassGate, Tick, CloseUngated, StopTrackingForRevoke, Enqueue
  <2>2. CASE Close /\ UNCHANGED queue
    <3>1. flight' = flight \cup {made + 1} /\ made + 1 \notin 1 .. made
      BY <2>2, MeasuredMade DEF Close
    <3>2. queue \subseteq 1 .. made /\ out.rows \subseteq 1 .. made
      BY DEF TypeInv, SignTypeOK
    <3> QED
      BY <2>1, <2>2, <3>1, <3>2 DEF ApartInv
  <2>3. CASE Enqueue
    <3>1. PICK s \in flight : flight' = flight \ {s} /\ queue' = queue \cup {s}
      BY <2>3 DEF Enqueue
    <3> QED
      BY <2>1, <3>1 DEF ApartInv
  <2>4. CASE MomentPasses \/ PassGate \/ StopTrackingForRevoke
    BY <1>1, <2>1, <2>4 DEF MomentPasses, PassGate, StopTrackingForRevoke
  <2>5. CASE Tick
    BY <1>1, <2>1, <2>2, <2>5 DEF Tick
  <2> QED
    BY <1>2, <2>2, <2>3, <2>4, <2>5 DEF Track, CloseUngated
<1>3. Upload => flight' = flight /\ queue' \subseteq queue /\ out' = out
  BY DEF Upload, LeaseRows, Send, Ingest, ApplyReply
<1>4. Pulse => flight' = flight /\ queue' = queue /\ out' = out
  BY DEF Pulse, Beat, AnswerBeat, Revoke, WipeAfterRevoke
<1>5. CASE Leave
  <2>1. flight' = flight /\ queue' \subseteq queue
    BY <1>5 DEF Leave, AskSignOut, CancelSignOut, SignOut, WipeAfterSignOut, Survey, Evict, SweepFails
  <2>2. CASE AskSignOut \/ CancelSignOut \/ Evict \/ SweepFails
    BY <1>1, <2>1, <2>2 DEF AskSignOut, CancelSignOut, Evict, SweepFails, NoOut
  <2>3. CASE SignOut \/ WipeAfterSignOut
    BY <1>1, <2>1, <2>3 DEF SignOut, WipeAfterSignOut, TypeInv, SignTypeOK
  <2>4. CASE Survey
    BY <1>1, <2>1, <2>4 DEF Survey, Swept
  <2> QED
    BY <1>5, <2>2, <2>3, <2>4 DEF Leave
<1>6. Enter => flight' = flight /\ queue' = queue /\ out' = out
  BY DEF Enter, OpenForm, Bind, Save, Adopt
<1>7. Office \/ UNCHANGED signVars => flight' = flight /\ queue' = queue /\ out' = out
  BY DEF Office, RevokeDevice, RestoreDevice
<1>8. CASE Restart
  BY <1>1, <1>8 DEF Restart, NoOut
<1> QED
  BY <1>1, <1>2, <1>3, <1>4, <1>5, <1>6, <1>7, <1>8 DEF SignNext

LEMMA AskStep ==
  ASSUME TypeInv, BoundInv, OwnInv, AskInv, [SignNext]_signVars
  PROVE  AskInv'
<1> USE DEF signVars, credVars, trackVars, queueVars, workVars, serverVars, historyVars, OutVars,
            InVars
<1>1. ASSUME UNCHANGED <<sync, batch>>, slipped \subseteq slipped',
             device'.token = device.token, device'.owner = device.owner,
             \A s \in batch : of'[s] = of[s]
      PROVE  AskInv'
  BY <1>1 DEF AskInv
<1>2. ASSUME sync'.pc # "asking" PROVE AskInv'
  BY <1>2 DEF AskInv
<1>3. CASE Track
  <2>1. UNCHANGED <<sync, batch, slipped, device>>
    BY <1>3 DEF Track, MomentPasses, PassGate, Tick, CloseUngated, StopTrackingForRevoke, Enqueue
  <2>2. batch \subseteq 1 .. made
    BY DEF TypeInv, SignTypeOK
  <2>3. Close => \A s \in batch : of'[s] = of[s]
    BY <2>2, CloseTyped
  <2>4. Close \/ UNCHANGED of
    BY <1>3 DEF Track, MomentPasses, PassGate, Tick, CloseUngated, StopTrackingForRevoke, Enqueue
  <2> QED
    BY <1>1, <2>1, <2>3, <2>4
<1>4. CASE LeaseRows \/ Ingest \/ ApplyReply
  <2>1. CASE LeaseRows \/ ApplyReply
    BY <1>2, <2>1 DEF LeaseRows, ApplyReply, NoSync
  <2>2. CASE Ingest
    <3>1. PICK reply : sync' = [NoSync EXCEPT !.pc = "answered", !.reply = reply]
      BY <2>2 DEF Ingest
    <3> QED
      BY <1>2, <3>1 DEF NoSync
  <2> QED
    BY <1>4, <2>1, <2>2
<1>5. CASE Send
  <2>1. UNCHANGED <<batch, of, slipped, device>> /\ sync'.token = wire.token
    <3>1. sync \in [pc : {"idle", "leased", "asking", "answered"}, token : 0 .. MaxBind,
                    reply : {"none", "ok", "later", "revoked"}]
      BY DEF TypeInv, SignTypeOK
    <3> QED
      BY <1>5, <3>1 DEF Send
  <2>2. \A s \in batch : s \in Measured /\ Signers(s) = of[s]
    BY DEF TypeInv, SignTypeOK, Measured, Signers
  <2>3. ASSUME NEW s \in batch, s \notin slipped, wire.token = device.token, wire.token # 0
        PROVE  of[s] \subseteq {device.owner, Nobody}
    BY <2>2, <2>3 DEF OwnInv, Own
  <2> QED
    BY <2>1, <2>3 DEF AskInv
<1>6. CASE Pulse
  BY <1>1, <1>6 DEF Pulse, Beat, AnswerBeat, Revoke, WipeAfterRevoke
<1>7. CASE Leave
  BY <1>1, <1>7 DEF Leave, AskSignOut, CancelSignOut, SignOut, WipeAfterSignOut, Survey, Evict,
                    SweepFails
<1>8. CASE OpenForm \/ Save \/ Adopt
  BY <1>1, <1>8 DEF OpenForm, Save, Adopt
<1>9. CASE Bind
  <2>1. device'.token = device.token + 1 /\ device.token \in Nat /\ sync.token \in Nat
    BY <1>9, BoundAssumption DEF Bind, TypeInv, SignTypeOK
  <2>2. sync' = sync
    BY <1>9 DEF Bind
  <2> QED
    BY <2>1, <2>2 DEF BoundInv, AskInv
<1>10. CASE Office
  <2>1. device'.token = device.token /\ device'.owner = device.owner
    <3>1. device \in [owner : Person \cup {Nobody}, active : BOOLEAN, token : 0 .. MaxBind]
      BY DEF TypeInv, SignTypeOK
    <3> QED
      BY <1>10, <3>1 DEF Office, RevokeDevice, RestoreDevice
  <2> QED
    BY <1>1, <1>10, <2>1 DEF Office, RevokeDevice, RestoreDevice
<1>11. CASE Restart
  BY <1>2, <1>11 DEF Restart, NoSync
<1>12. CASE UNCHANGED signVars
  BY <1>1, <1>12
<1> QED
  BY <1>3, <1>4, <1>5, <1>6, <1>7, <1>8, <1>9, <1>10, <1>11, <1>12 DEF SignNext, Upload, Enter

LEMMA HoursStep ==
  ASSUME TypeInv, AskInv, OnlySlippedHours, [SignNext]_signVars, slipped \subseteq slipped'
  PROVE  OnlySlippedHours'
<1> USE DEF signVars, credVars, trackVars, queueVars, workVars, serverVars, historyVars, OutVars,
            InVars
<1>1. \A c \in credited : c = <<c[1], c[2]>> /\ c[1] \in 1 .. made
  BY DEF TypeInv, SignTypeOK
<1>2. CASE Ingest
  <2>1. UNCHANGED <<of, slipped>> /\ sync.pc = "asking"
    BY <1>2 DEF Ingest
  <2>2. CASE UNCHANGED credited
    BY <2>1, <2>2 DEF OnlySlippedHours
  <2>3. CASE /\ Known(sync.token)
             /\ credited' = credited \cup {<<s, device.owner>> : s \in {r \in batch : IsNew(r)}}
    <3>1. ASSUME NEW c \in credited', c \notin credited
          PROVE  of[c[1]] \subseteq {c[2], Nobody} \/ c[1] \in slipped
      <4>1. PICK s \in batch : c = <<s, device.owner>>
        BY <2>3, <3>1
      <4> QED
        BY <2>1, <2>3, <4>1 DEF AskInv, Known
    <3> QED
      BY <2>1, <3>1 DEF OnlySlippedHours
  <2> QED
    BY <1>2, <2>2, <2>3, IngestBooks
<1>3. CASE UNCHANGED credited
  <2>1. Close => \A c \in credited : of'[c[1]] = of[c[1]]
    BY <1>1, CloseTyped
  <2>2. Close \/ UNCHANGED of
    <3>1. Track => Close \/ UNCHANGED of
      BY DEF Track, MomentPasses, PassGate, Tick, CloseUngated, StopTrackingForRevoke, Enqueue
    <3>2. Upload => UNCHANGED of
      BY DEF Upload, LeaseRows, Send, Ingest, ApplyReply
    <3>3. Pulse => UNCHANGED of
      BY DEF Pulse, Beat, AnswerBeat, Revoke, WipeAfterRevoke
    <3>4. Leave => UNCHANGED of
      BY DEF Leave, AskSignOut, CancelSignOut, SignOut, WipeAfterSignOut, Survey, Evict, SweepFails
    <3>5. Enter => UNCHANGED of
      BY DEF Enter, OpenForm, Bind, Save, Adopt
    <3>6. Office \/ Restart \/ UNCHANGED signVars => UNCHANGED of
      BY DEF Office, RevokeDevice, RestoreDevice, Restart
    <3> QED
      BY <3>1, <3>2, <3>3, <3>4, <3>5, <3>6 DEF SignNext
  <2>3. \A c \in credited' : c \in credited /\ of'[c[1]] = of[c[1]]
    BY <1>3, <2>1, <2>2
  <2> QED
    BY <2>3 DEF OnlySlippedHours
<1> QED
  BY <1>2, <1>3, OnlyIngestCredits

LEMMA SlippedGrows == [SignNext]_signVars => slipped \subseteq slipped'
<1> USE DEF signVars, credVars, trackVars, queueVars, workVars, serverVars, historyVars, OutVars,
            InVars
<1>1. Track => UNCHANGED slipped
  BY DEF Track, MomentPasses, PassGate, Tick, CloseUngated, StopTrackingForRevoke, Enqueue
<1>2. Upload => UNCHANGED slipped
  BY DEF Upload, LeaseRows, Send, Ingest, ApplyReply
<1>3. Pulse => slipped \subseteq slipped'
  BY DEF Pulse, Beat, AnswerBeat, Revoke, WipeAfterRevoke
<1>4. Leave => slipped \subseteq slipped'
  BY DEF Leave, AskSignOut, CancelSignOut, SignOut, WipeAfterSignOut, Survey, Evict, SweepFails
<1>5. Enter => slipped \subseteq slipped'
  BY DEF Enter, OpenForm, Bind, Save, Adopt
<1>6. Office \/ Restart => slipped \subseteq slipped'
  BY DEF Office, RevokeDevice, RestoreDevice, Restart
<1> QED
  BY <1>1, <1>2, <1>3, <1>4, <1>5, <1>6 DEF SignNext

HoursInv == ApartInv /\ BoundInv /\ OwnInv /\ AskInv /\ OnlySlippedHours

LEMMA InitHours == SignInit => HoursInv
<1> SUFFICES ASSUME SignInit PROVE HoursInv
  OBVIOUS
<1>1. ApartInv /\ OwnInv /\ AskInv /\ OnlySlippedHours
  BY DEF SignInit, ApartInv, OwnInv, Measured, AskInv, OnlySlippedHours, NoSync
<1>2. device.token = 0 /\ sync.token = 0 /\ in.cred = NoCred
  BY DEF SignInit, NoSync, NoIn
<1>3. BoundInv
  BY <1>2, Credentials DEF SignInit, BoundInv, Bound
<1> QED
  BY <1>1, <1>3 DEF HoursInv

(***************************************************************************)
(* Nobody is ever booked the hours of somebody else but for what slipped   *)
(* through a sweep: however the rows, the requests, the heartbeat, the     *)
(* sign-outs and the sign-ins of any number of people interleave.          *)
(***************************************************************************)
THEOREM HoursStayApart == SignSpec => []OnlySlippedHours
<1>1. TypeInv /\ EntryInv /\ HoursInv /\ [SignNext]_signVars => HoursInv'
  BY ApartStep, BoundStep, OwnStep, AskStep, HoursStep, SlippedGrows DEF HoursInv
<1>2. SignInit => EntryInv
  BY DEF SignInit, NoIn, EntryInv, EnterInv, SurvivesRestart, SignedIn
<1>3. HoursInv => OnlySlippedHours
  BY DEF HoursInv
<1> QED
  BY InitTyped, TypedStep, EntryStep, InitHours, <1>1, <1>2, <1>3, PTL DEF SignSpec

-----------------------------------------------------------------------------
\* Side by side.

LEMMA OneRuns == [AgentNext]_agentVars => [Next]_vars /\ [SignNext]_signVars
BY DEF AgentNext, agentVars

\* What goes on inside the agent is what the tracking threads do and what signing in does: all
\* that is proved of either holds of both.
THEOREM AgentSideBySide == AgentSpec => Spec /\ SignSpec
<1>1. AgentInit => Init /\ SignInit
  BY DEF AgentInit
<1> QED
  BY <1>1, OneRuns, PTL DEF AgentSpec, Spec, SignSpec
=============================================================================
