---------------------------- MODULE HostedService ----------------------------
(***************************************************************************)
(* aspnetcore/hosting/HostedService: a web server and a console service     *)
(* that runs a loop, started and stopped by generic hosts.                  *)
(*                                                                          *)
(*   HostedServiceWithWeb          one host with both services              *)
(*   HostedServiceWebApplication   two hosts in one process, one for each   *)
(*                                                                          *)
(* The console service starts its loop without awaiting it; its StopAsync   *)
(* starts a timer, cancels the loop and sleeps.  Nothing but the lengths of *)
(* the delays orders the loop's end, the timer's ticks, the end of StopAsync*)
(* and the host's shutdown timeout.  Time passes in half seconds; a timer   *)
(* fires when it is due or up to Late half seconds later.  The host and the *)
(* web server are library code, modelled from what they do for the service: *)
(* services are started in order and stopped in reverse, one after another, *)
(* and the host gives up between two of them once its timeout has passed.   *)
(***************************************************************************)
EXTENDS Integers, Sequences

CONSTANTS Late,      \* bound: how late a timer may fire, in half seconds
          MaxTicks   \* bound: ticks of the shutdown timer counted

\* Timers fire less than four seconds late: the loop's delay of one second is
\* over before that of StopAsync, five seconds, which begins with or after it.
ASSUME HostedConstants == Late \in 0 .. 7 /\ MaxTicks \in Nat

\* The delays of the code, in half seconds.
DefaultTimeout == 10
ShortTimeout == DefaultTimeout   \* mutant: the option is not set
ShutdownTimeout == 20
LoopDelay == 2
TimerPeriod == 2
StopDelay == 10

\* The two programs: each host's services in the order they are added, and
\* its timeout.  The option is set for the console service's host only.
WithWeb == [main |-> [services |-> <<"web", "console">>,
                      timeout |-> ShutdownTimeout]]
WebApplication == [web |-> [services |-> <<"web">>, timeout |-> DefaultTimeout],
                   console |-> [services |-> <<"console">>,
                                timeout |-> ShutdownTimeout]]
Programs == {WithWeb, WebApplication}
HostNames == UNION {DOMAIN p : p \in Programs}
Timers == {"loop", "tick", "delay"} \cup HostNames

VARIABLES
    program,    \* the program that runs
    phase,      \* phase[h]: where the host h stands
    at,         \* at[h]: services started; while stopping, the one being stopped
    signal,     \* Ctrl+C was pressed: ApplicationStopping of every host
    expired,    \* the hosts whose shutdown timeout has passed
    cancelled,  \* _cts of the console service
    loop,       \* LoopModel.StartAsync: "off", "delay" or "ended"
    stop,       \* StopAsync of the console service: "off", "delay", "completed"
    i,          \* the counter the shutdown timer writes and increments
    server,     \* the web server: "down", "listening" or "draining"
    request,    \* an HTTP request is being served
    armed,      \* the timers that are set
    left        \* left[t]: the time until t is due, negative when it is late

vars == <<program, phase, at, signal, expired, cancelled, loop, stop, i,
          server, request, armed, left>>

Hosts == DOMAIN program
Service(h) == program[h].services[at[h]]
Ended(h) == phase[h] \in {"stopped", "gave up"}
Exited == \A h \in Hosts : Ended(h)

Init ==
    /\ program \in Programs
    /\ phase = [h \in Hosts |-> "starting"]
    /\ at = [h \in Hosts |-> 0]
    /\ signal = FALSE
    /\ expired = {}
    /\ cancelled = FALSE
    /\ loop = "off"
    /\ stop = "off"
    /\ i = 1
    /\ server = "down"
    /\ request = FALSE
    /\ armed = {}
    /\ left = [t \in Timers |-> 0]

\* The timers in the domain of d are set to d; those in off are cleared.
Set(d, off) ==
    /\ armed' = (armed \ off) \cup DOMAIN d
    /\ left' = [t \in Timers |-> IF t \in DOMAIN d THEN d[t]
                                 ELSE IF t \in off THEN 0 ELSE left[t]]

Due(t) == t \in armed /\ left[t] <= 0

-----------------------------------------------------------------------------
(* The host starts its services                                            *)

\* The service after the at[h]-th was started; after the last, the host runs.
Started(h) ==
    /\ at' = [at EXCEPT ![h] = @ + 1]
    /\ phase' = [phase EXCEPT ![h] =
                    IF at[h] + 1 = Len(program[h].services) THEN "running" ELSE @]

NextService(h) == program[h].services[at[h] + 1]

StartWeb(h) ==
    /\ phase[h] = "starting" /\ NextService(h) = "web"
    /\ server' = "listening"
    /\ Started(h)
    /\ UNCHANGED <<program, signal, expired, cancelled, loop, stop, i, request,
                   armed, left>>


\* StartAsync of the console service: the loop runs up to its first delay.
StartAsync(h) ==
    /\ phase[h] = "starting" /\ NextService(h) = "console"
    /\ loop' = "delay"
    /\ Set([loop |-> LoopDelay], {})
    /\ Started(h)
    /\ UNCHANGED <<program, signal, expired, cancelled, stop, i, server, request>>

\* The loop's delay, which no token interrupts, is over.
LoopModel ==
    /\ Due("loop")
    /\ IF cancelled
       THEN loop' = "ended" /\ Set(<<>>, {"loop"})
       ELSE loop' = loop /\ Set([loop |-> LoopDelay], {})
    /\ UNCHANGED <<program, phase, at, signal, expired, cancelled, stop, i,
                   server, request>>

-----------------------------------------------------------------------------
(* The host stops its services                                             *)

CtrlC ==
    /\ ~signal
    /\ signal' = TRUE
    /\ UNCHANGED <<program, phase, at, expired, cancelled, loop, stop, i, server,
                   request, armed, left>>

\* Mutant: the loop is not cancelled, as in HostedServiceAsConsole.
NoCancel == [stop |-> "delay", cancelled |-> cancelled,
             timers |-> [tick |-> TimerPeriod, delay |-> StopDelay]]

\* Mutant: the timer's period in the place of its due time.
DueTwice == [stop |-> "delay", cancelled |-> TRUE,
             timers |-> [tick |-> 2 * TimerPeriod, delay |-> StopDelay]]

\* StopAsync of the console service up to its delay: what it sets.
StopAsync == [stop |-> "delay", cancelled |-> TRUE,
              timers |-> [tick |-> TimerPeriod, delay |-> StopDelay]]

\* The host h, whose timers become d, calls StopAsync of the service s.
CallStop(s, d, off) ==
    IF s = "console"
    THEN /\ stop' = StopAsync.stop
         /\ cancelled' = StopAsync.cancelled
         /\ Set([t \in DOMAIN d \cup DOMAIN StopAsync.timers |->
                    IF t \in DOMAIN d THEN d[t] ELSE StopAsync.timers[t]], off)
         /\ UNCHANGED server
    ELSE /\ server' = "draining"
         /\ Set(d, off)
         /\ UNCHANGED <<stop, cancelled>>

\* Ctrl+C reached a running host: its timeout starts with the last service.
BeginStop(h) ==
    /\ phase[h] = "running" /\ signal
    /\ phase' = [phase EXCEPT ![h] = "stopping"]
    /\ CallStop(Service(h), [t \in {h} |-> program[h].timeout], {})
    /\ UNCHANGED <<program, at, signal, expired, loop, i, request>>

\* The service being stopped has stopped, leaving the web server as s: the
\* host throws when its timeout has passed, or stops the one started before
\* it, which is the web server, or is done.
StopNext(h, off, s) ==
    \/ /\ h \in expired
       /\ phase' = [phase EXCEPT ![h] = "gave up"]
       /\ Set(<<>>, off)
       /\ server' = s
       /\ UNCHANGED at
    \/ /\ h \notin expired /\ at[h] > 1
       /\ at' = [at EXCEPT ![h] = @ - 1]
       /\ Set(<<>>, off)
       /\ server' = "draining"
       /\ UNCHANGED phase
    \/ /\ h \notin expired /\ at[h] = 1
       /\ phase' = [phase EXCEPT ![h] = "stopped"]
       /\ at' = [at EXCEPT ![h] = 0]
       /\ Set(<<>>, off \cup {h})
       /\ server' = s

\* The delay of StopAsync is over.
DelayCompleted(h) ==
    /\ phase[h] = "stopping" /\ Service(h) = "console"
    /\ Due("delay")
    /\ stop' = "completed"
    /\ StopNext(h, {"delay"}, server)
    /\ UNCHANGED <<program, signal, expired, cancelled, loop, i, request>>

\* The timer writes i and increments it; nothing ever stops the timer.
TimerTick ==
    /\ Due("tick")
    /\ i' = i + 1
    /\ IF i' < MaxTicks THEN Set([tick |-> left["tick"] + TimerPeriod], {})
                        ELSE Set(<<>>, {"tick"})
    /\ UNCHANGED <<program, phase, at, signal, expired, cancelled, loop, stop,
                   server, request>>

\* The server has no request left, or aborts it because the timeout passed.
WebStopped(h) ==
    /\ phase[h] = "stopping" /\ Service(h) = "web"
    /\ ~request \/ h \in expired
    /\ request' = FALSE
    /\ StopNext(h, {}, "down")
    /\ UNCHANGED <<program, signal, expired, cancelled, loop, stop, i>>

TimeoutPasses(h) ==
    /\ Due(h)
    /\ expired' = expired \cup {h}
    /\ Set(<<>>, {h})
    /\ UNCHANGED <<program, phase, at, signal, cancelled, loop, stop, i, server,
                   request>>

-----------------------------------------------------------------------------
(* The web server's client, and time                                       *)

Request ==
    /\ \/ ~request /\ server = "listening" /\ request' = TRUE
       \/ request /\ request' = FALSE
    /\ UNCHANGED <<program, phase, at, signal, expired, cancelled, loop, stop, i,
                   server, armed, left>>

\* Half a second passes, unless a timer is as late as it can be.
Tick ==
    /\ \A t \in armed : left[t] > -Late
    /\ left' = [t \in Timers |-> IF t \in armed THEN left[t] - 1 ELSE left[t]]
    /\ UNCHANGED <<program, phase, at, signal, expired, cancelled, loop, stop, i,
                   server, request, armed>>

HostStep(h) ==
    \/ StartWeb(h) \/ StartAsync(h)
    \/ BeginStop(h) \/ DelayCompleted(h) \/ WebStopped(h) \/ TimeoutPasses(h)

\* The process ends with its last host, whatever still runs in it.
Running ==
    /\ ~Exited
    /\ \/ \E h \in Hosts : HostStep(h)
       \/ LoopModel \/ TimerTick
       \/ CtrlC \/ Request \/ Tick

Exit == Exited /\ UNCHANGED vars

Next == Running \/ Exit

Spec == Init /\ [][Next]_vars

\* Hosts, pool threads and the clock go on; nobody need press Ctrl+C, and a
\* client need not end its request.
Fairness ==
    /\ \A h \in HostNames : WF_vars(h \in Hosts /\ ~Exited /\ HostStep(h))
    /\ WF_vars(~Exited /\ LoopModel)
    /\ WF_vars(~Exited /\ TimerTick)
    /\ WF_vars(~Exited /\ Tick)

FairSpec == Spec /\ Fairness

-----------------------------------------------------------------------------
(* Properties                                                              *)

\* Types of the variables.
TypeOK ==
    /\ program \in Programs
    /\ phase \in [Hosts -> {"starting", "running", "stopping", "stopped", "gave up"}]
    /\ \A h \in Hosts : at[h] \in 0 .. Len(program[h].services)
    /\ signal \in BOOLEAN /\ cancelled \in BOOLEAN /\ request \in BOOLEAN
    /\ expired \subseteq Hosts
    /\ loop \in {"off", "delay", "ended"}
    /\ stop \in {"off", "delay", "completed"}
    /\ i \in Nat
    /\ server \in {"down", "listening", "draining"}
    /\ armed \subseteq Timers
    /\ left["loop"] \in -Late .. LoopDelay /\ left["tick"] \in -Late .. TimerPeriod
    /\ left["delay"] \in -Late .. StopDelay
    /\ \A h \in Hosts : left[h] \in -Late .. program[h].timeout

\* StopAsync does not wait for the loop it cancels; still the loop has ended
\* by itself when StopAsync completes ("3 (stop)" comes before "5 (stop)").
LoopEndsFirst == stop = "completed" => loop = "ended"

\* A host gives up, so that ApplicationStopped is never raised, only while it
\* stops the web server, which an HTTP request may hold up: the console
\* service, whose StopAsync ignores its token, never runs into the timeout.
GracefulUnlessHeld ==
    \A h \in Hosts : phase[h] = "gave up" => Service(h) = "web"


\* The comments number a tick of the timer 4 and the end of StopAsync 5: no
\* tick is written after StopAsync completed.
TicksBeforeCompleted == [][stop = "completed" => i' = i]_vars
=============================================================================
