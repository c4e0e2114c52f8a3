-------------------------- MODULE MCSummaryRollup --------------------------
(* The summaries over a few days of short months. *)
EXTENDS SummaryRollup

NoSkew     == {0}
BehindOrOn == {-1, 0}
=============================================================================
