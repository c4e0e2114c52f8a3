--------------------------- MODULE MCWorkSessions ---------------------------
(* A segment up to a midnight, and one of the next date. *)
EXTENDS WorkSessions, TLC

CONSTANTS g1, g2

Spans == (g1 :> [from |-> 2, to |-> 4]) @@ (g2 :> [from |-> 5, to |-> 7])

OnTimeOrFast == {0, 1}
=============================================================================
