--------------------------- MODULE RecordDelivery ---------------------------
(***************************************************************************)
(* What the agent's offline queue promises of a record, whatever happens   *)
(* in between: it is waiting to be sent, or the server has it, or it was   *)
(* dropped for one of the reasons the agent knows. It never just           *)
(* disappears, and the server never loses one it has. A dropped record may *)
(* still arrive, out of a request that was already on its way.             *)
(***************************************************************************)
CONSTANT Record

VARIABLES pending, stored, dropped

deliveryVars == <<pending, stored, dropped>>

Init == pending = {} /\ stored = {} /\ dropped = {}

Make(r) ==
  /\ r \notin pending \cup stored \cup dropped
  /\ \/ pending' = pending \cup {r} /\ UNCHANGED dropped
     \/ dropped' = dropped \cup {r} /\ UNCHANGED pending
  /\ UNCHANGED stored

Store(S) ==
  /\ S \subseteq pending \cup dropped
  /\ stored'  = stored \cup S
  /\ pending' = pending \ S
  /\ dropped' = dropped \ S

Drop(S) ==
  /\ S \subseteq pending
  /\ dropped' = dropped \cup S
  /\ pending' = pending \ S
  /\ UNCHANGED stored

\* Most of what the queue does is no event of a record.
Next ==
  \/ UNCHANGED deliveryVars
  \/ \E r \in Record : Make(r)
  \/ \E S \in SUBSET Record : Store(S) \/ Drop(S)

Spec == Init /\ [][Next]_deliveryVars
=============================================================================
