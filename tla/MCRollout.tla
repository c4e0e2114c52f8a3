----------------------------- MODULE MCRollout -----------------------------
(* Two devices and two releases. *)
EXTENDS Rollout, TLC

CONSTANTS e1, e2

\* The first release reaches e1 as a canary and e2 only with "all"; the second
\* reaches nobody as a canary and e2 as a partial one.
Turns == <<e1 :> 1 @@ e2 :> 3, e1 :> 3 @@ e2 :> 2>>
=============================================================================
