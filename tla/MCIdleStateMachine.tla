------------------------- MODULE MCIdleStateMachine -------------------------
(* The idle state machine on seven instants and three work dates: every call*)
(* with every instant in every order.                                       *)
EXTENDS IdleStateMachine

MCInstant == 1 .. 7
=============================================================================
