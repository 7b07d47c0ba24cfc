--------------------------- MODULE MCHostedService ---------------------------
(* Both programs; timers late by up to a second, as long as the period of    *)
(* the loop and of the timer; seven ticks of the timer, two more than fit    *)
(* into the delay of StopAsync.                                              *)
EXTENDS HostedService
=============================================================================
