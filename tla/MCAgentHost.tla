---------------------------- MODULE MCAgentHost ----------------------------
(* Small installations: with and without power notifications, with a fixed  *)
(* and with a changing threshold.                                           *)
EXTENDS AgentHost

CalmSites    == [notified : BOOLEAN, thresholds : {{3}}]
NotifiedSite == {[notified |-> TRUE, thresholds |-> {2}]}
TunedSite    == {[notified |-> TRUE, thresholds |-> {1, 2}]}
=============================================================================
