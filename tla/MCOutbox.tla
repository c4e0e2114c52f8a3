------------------------------ MODULE MCOutbox ------------------------------
(* The outbox with the sync loop alone, or with a second, overlapping drain. *)
EXTENDS Outbox

CONSTANTS syncLoop, secondDrain   \* model values: SyncLoopAsync, and "Sync now" or the last drain

OneOrTwo == {{syncLoop}, {syncLoop, secondDrain}}
=============================================================================
