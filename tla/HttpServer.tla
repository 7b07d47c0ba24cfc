----------------------------- MODULE HttpServer -----------------------------
(***************************************************************************)
(* What the metrics server of opentelemetry/OpenTelemetrySample promises    *)
(* its clients, whatever threads start, stop and dispose it: it opens once, *)
(* serves one request at a time, and closes for good, resetting all the     *)
(* requests it has.  MetricsServer implements it.                           *)
(***************************************************************************)
CONSTANT Clients

VARIABLES server,    \* "new", "listening" or "closed"
          request    \* request[c]: "idle", "queued" or "accepted"

serverVars == <<server, request>>

Init == server = "new" /\ request = [c \in Clients |-> "idle"]

Open == server = "new" /\ server' = "listening" /\ UNCHANGED request

\* The address is taken.
OpenFails == server = "new" /\ server' = "closed" /\ UNCHANGED request

Connect(c) ==
    /\ server = "listening"
    /\ request[c] = "idle"
    /\ request' = [request EXCEPT ![c] = "queued"]
    /\ UNCHANGED server

Accept(c) ==
    /\ server = "listening"
    /\ request[c] = "queued"
    /\ \A d \in Clients : request[d] # "accepted"
    /\ request' = [request EXCEPT ![c] = "accepted"]
    /\ UNCHANGED server

Answer(c) ==
    /\ server = "listening"
    /\ request[c] = "accepted"
    /\ request' = [request EXCEPT ![c] = "idle"]
    /\ UNCHANGED server

Close ==
    /\ server = "listening"
    /\ server' = "closed"
    /\ request' = [c \in Clients |-> "idle"]

Next ==
    \/ Open \/ OpenFails \/ Close
    \/ \E c \in Clients : Connect(c) \/ Accept(c) \/ Answer(c)

Spec == Init /\ [][Next]_serverVars
=============================================================================
