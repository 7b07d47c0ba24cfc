--------------------------- MODULE MCMetricsServer ---------------------------
(* Two callers, so that one may Dispose or Stop while the other holds the    *)
(* lock; two clients, so that one request waits behind another; two          *)
(* starts: one that serves and one after a Stop.                             *)
EXTENDS MetricsServer
=============================================================================
