------------------------------- MODULE MCAgent -------------------------------
(***************************************************************************)
(* What goes on inside the agent: AgentHost, the threads over its machine, *)
(* and SignIn, whose hours they are.  They share no state (AgentHost has   *)
(* somebody signed in throughout), so one run checks them side by side:    *)
(* focus, chosen in the initial state, says which of them takes steps.     *)
(***************************************************************************)
EXTENDS MCSignIn, MCAgentHost

VARIABLE focus
agentVars == <<vars, signVars, focus>>

\* One initial state of the host is enough for the signing in.
AgentInit ==
  /\ focus \in {"host", "signin"}
  /\ Init /\ SignInit
  /\ focus = "signin" => ~site.notified /\ ~locked

AgentNext ==
  /\ UNCHANGED focus
  /\ \/ focus = "host" /\ Next /\ UNCHANGED signVars
     \/ focus = "signin" /\ SignNext /\ UNCHANGED vars

AgentSpec == AgentInit /\ [][AgentNext]_agentVars
=============================================================================
