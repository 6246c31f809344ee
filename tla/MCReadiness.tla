----------------------------- MODULE MCReadiness -----------------------------
(* Readiness for one gateway and one service, around the limiter for two       *)
(* clients with a limit of two in a window of two ticks.                       *)
EXTENDS Readiness
=============================================================================
