------------------------- MODULE HostedServiceProofs -------------------------
(***************************************************************************)
(* What the delays of HostedService promise, for any lateness of the timers *)
(* below the difference of the two delays, any number of ticks and both     *)
(* programs.  The argument is about time left: timers that are set at the   *)
(* same moment keep their distance (Distances), because all of them run     *)
(* down together and none may be more than Late overdue.                    *)
(***************************************************************************)
EXTENDS HostedService, TLAPS

\* The services of h, and whether the console service is one of them: then it
\* is the last.
Services(h) == program[h].services
Last(h) == Len(Services(h))
HasConsole(h) == Services(h)[Last(h)] = "console"

\* What the proofs use of the two programs.
ProgramShape ==
    /\ Hosts \subseteq HostNames
    /\ \A h \in Hosts : Last(h) \in {1, 2}
    /\ \A h \in Hosts : program[h].timeout \in {DefaultTimeout, ShutdownTimeout}
    /\ \A h \in Hosts : \A j \in 1 .. Last(h) :
           /\ Services(h)[j] \in {"web", "console"}
           /\ Services(h)[j] = "console" =>
                  j = Last(h) /\ program[h].timeout = ShutdownTimeout
    /\ \A g, h \in Hosts : HasConsole(g) /\ HasConsole(h) => g = h

LEMMA Names ==
    /\ HostNames = {"main", "web", "console"}
    /\ Timers = {"loop", "tick", "delay", "main", "web", "console"}
<1>1. DOMAIN WithWeb = {"main"} BY DEF WithWeb
<1>2. DOMAIN WebApplication = {"web", "console"} BY DEF WebApplication
<1>3. HostNames = {"main", "web", "console"} BY <1>1, <1>2 DEF HostNames, Programs
<1> QED BY <1>3 DEF Timers

LEMMA Shape ==
    ASSUME program \in Programs PROVE ProgramShape
<1>1. CASE program = WithWeb
  <2>1. Hosts = {"main"} BY <1>1 DEF WithWeb, Hosts
  <2>2. Services("main") = <<"web", "console">> /\ program["main"].timeout = ShutdownTimeout
        BY <1>1 DEF WithWeb, Services
  <2>3. Last("main") = 2 BY <2>2 DEF Last
  <2> QED BY <2>1, <2>2, <2>3, Names DEF ProgramShape, HasConsole
<1>2. CASE program = WebApplication
  <2>1. Hosts = {"web", "console"} BY <1>2 DEF WebApplication, Hosts
  <2>2. Services("web") = <<"web">> /\ program["web"].timeout = DefaultTimeout
        BY <1>2 DEF WebApplication, Services
  <2>3. Services("console") = <<"console">> /\ program["console"].timeout = ShutdownTimeout
        BY <1>2 DEF WebApplication, Services
  <2>4. Last("web") = 1 /\ Last("console") = 1 BY <2>2, <2>3 DEF Last
  <2> QED BY <2>1, <2>2, <2>3, <2>4, Names DEF ProgramShape, HasConsole
<1> QED BY <1>1, <1>2 DEF Programs

-----------------------------------------------------------------------------
(* The timers                                                              *)

Longest(t) == IF t = "loop" THEN LoopDelay
              ELSE IF t = "tick" THEN TimerPeriod
              ELSE IF t = "delay" THEN StopDelay
              ELSE program[t].timeout

\* The time left of each timer that can be set.
TimersTyped ==
    /\ armed \subseteq Timers
    /\ left \in [Timers -> Int]
    /\ \A t \in {"loop", "tick", "delay"} \cup Hosts : left[t] \in -Late .. Longest(t)

LEMMA LongestPositive ==
    ASSUME ProgramShape, NEW t \in {"loop", "tick", "delay"} \cup Hosts
    PROVE  t \in Timers /\ Longest(t) \in 2 .. 20
<1>1. t \in Timers BY Names DEF ProgramShape
<1>2. CASE t \in {"loop", "tick", "delay"}
      BY <1>1, <1>2 DEF Longest, LoopDelay, TimerPeriod, StopDelay
<1>3. CASE t \notin {"loop", "tick", "delay"}
  <2>1. Longest(t) = program[t].timeout BY <1>3 DEF Longest
  <2>2. program[t].timeout \in {10, 20}
        BY <1>3 DEF ProgramShape, DefaultTimeout, ShutdownTimeout
  <2> QED BY <1>1, <2>1, <2>2
<1> QED BY <1>2, <1>3

\* Setting and clearing timers within their bounds keeps them there.
LEMMA SetTimers ==
    ASSUME ProgramShape, TimersTyped, NEW d, NEW off, Set(d, off), program' = program,
           DOMAIN d \subseteq {"loop", "tick", "delay"} \cup Hosts,
           \A t \in DOMAIN d : d[t] \in -Late .. Longest(t)
    PROVE  TimersTyped'
<1>0. Late \in 0 .. 7 BY HostedConstants
<1>1. ASSUME NEW t \in DOMAIN d PROVE t \in Timers /\ d[t] \in Int
  <2>1. t \in Timers /\ Longest(t) \in 2 .. 20 BY LongestPositive
  <2>2. d[t] \in -Late .. Longest(t) OBVIOUS
  <2> QED BY <1>0, <2>1, <2>2
<1>2. armed' \subseteq Timers BY <1>1 DEF Set, TimersTyped
<1>3. left' \in [Timers -> Int] BY <1>1 DEF Set, TimersTyped
<1>4. ASSUME NEW t \in {"loop", "tick", "delay"} \cup Hosts
      PROVE  left'[t] \in -Late .. Longest(t)
  <2>1. t \in Timers /\ Longest(t) \in 2 .. 20 BY LongestPositive
  <2>2. left'[t] = IF t \in DOMAIN d THEN d[t] ELSE IF t \in off THEN 0 ELSE left[t]
        BY <2>1 DEF Set
  <2>3. left[t] \in -Late .. Longest(t) BY DEF TimersTyped
  <2> QED BY <1>0, <2>1, <2>2, <2>3
<1>5. Hosts' = Hosts /\ \A t : Longest(t)' = Longest(t) BY DEF Hosts, Longest
<1> QED BY <1>2, <1>3, <1>4, <1>5 DEF TimersTyped
-----------------------------------------------------------------------------
(* The inductive invariant                                                 *)

\* Where a host stands says which of its services is started or stopped.
Placed ==
    /\ at \in [Hosts -> 0 .. 2]
    /\ \A h \in Hosts :
        /\ at[h] <= Last(h)
        /\ phase[h] = "starting" => at[h] < Last(h)
        /\ phase[h] = "running" => at[h] = Last(h)
        /\ phase[h] \in {"stopping", "gave up"} => at[h] >= 1

\* The loop starts with the console service, and its host stops it first.
ConsoleFollowsHost ==
    \A h \in Hosts : HasConsole(h) =>
        /\ phase[h] = "starting" <=> loop = "off"
        /\ phase[h] \in {"starting", "running"} <=> stop = "off"
        /\ (phase[h] = "stopping" /\ at[h] = Last(h)) <=> stop = "delay"

\* The delays are set while the loop and StopAsync wait for them, and a host's
\* timeout not before it stops.
SetWhileAwaited ==
    /\ cancelled <=> stop # "off"
    /\ loop = "delay" <=> "loop" \in armed
    /\ stop = "delay" <=> "delay" \in armed
    /\ \A h \in Hosts : phase[h] \in {"starting", "running"} => h \notin armed \cup expired

\* While StopAsync sleeps the timeout of its host, set in the same moment, is
\* ten half seconds behind its delay, and the loop's delay eight ahead of it.
Distances ==
    stop = "delay" =>
        /\ "loop" \in armed => left["loop"] + 8 <= left["delay"]
        /\ \A h \in Hosts : HasConsole(h) =>
               h \in armed /\ h \notin expired /\ left[h] = left["delay"] + 10

Inv ==
    /\ TypeOK
    /\ TimersTyped
    /\ Placed
    /\ ConsoleFollowsHost
    /\ SetWhileAwaited
    /\ Distances
    /\ LoopEndsFirst
    /\ GracefulUnlessHeld

\* A host of the model is no other timer, and only one has the console service.
LEMMA Apart ==
    ASSUME ProgramShape, NEW h \in Hosts
    PROVE  h \in Timers /\ h \notin {"loop", "tick", "delay"}
BY Names DEF ProgramShape

\* What an action that does not touch the program leaves to be shown of the
\* types.
Control ==
    /\ phase \in [Hosts -> {"starting", "running", "stopping", "stopped", "gave up"}]
    /\ signal \in BOOLEAN /\ cancelled \in BOOLEAN /\ request \in BOOLEAN
    /\ expired \subseteq Hosts
    /\ loop \in {"off", "delay", "ended"}
    /\ stop \in {"off", "delay", "completed"}
    /\ i \in Nat
    /\ server \in {"down", "listening", "draining"}

LEMMA Typed ==
    ASSUME program \in Programs, program' = program, Control', TimersTyped', Placed'
    PROVE  TypeOK'
<1>1. ProgramShape BY Shape
<1>2. Hosts' = Hosts BY DEF Hosts
<1>3. ASSUME NEW h \in Hosts PROVE at'[h] \in 0 .. Len(program[h].services)
  <2>1. Last(h) \in {1, 2} BY <1>1 DEF ProgramShape
  <2>2. Last(h)' = Last(h) BY DEF Last, Services
  <2>3. at'[h] \in 0 .. 2 /\ at'[h] <= Last(h) BY <1>2, <2>2 DEF Placed
  <2>4. at'[h] \in 0 .. Last(h) BY <2>1, <2>3
  <2> QED BY <2>4 DEF Last, Services
<1>4. ASSUME NEW h \in Hosts PROVE left'[h] \in -Late .. program[h].timeout
      BY <1>1, <1>2, Apart DEF TimersTyped, Longest
<1>5. /\ left'["loop"] \in -Late .. LoopDelay /\ left'["tick"] \in -Late .. TimerPeriod
      /\ left'["delay"] \in -Late .. StopDelay
      BY DEF TimersTyped, Longest
<1>6. armed' \subseteq Timers BY DEF TimersTyped
<1> QED BY <1>2, <1>3, <1>4, <1>5, <1>6 DEF TypeOK, Control

LEMMA InitInv == Init => Inv
<1> SUFFICES ASSUME Init PROVE Inv OBVIOUS
<1>0. Late \in 0 .. 7 BY HostedConstants
<1>1. program \in Programs BY DEF Init
<1>2. ProgramShape BY <1>1, Shape
<1>3. Control BY DEF Init, Control
<1>4. TimersTyped
  <2>1. \A t \in {"loop", "tick", "delay"} \cup Hosts : t \in Timers /\ Longest(t) \in 2 .. 20
        BY <1>2, LongestPositive
  <2>2. \A t \in {"loop", "tick", "delay"} \cup Hosts : left[t] = 0 BY <2>1 DEF Init
  <2>3. \A t \in {"loop", "tick", "delay"} \cup Hosts : left[t] \in -Late .. Longest(t)
        BY <1>0, <2>1, <2>2
  <2> QED BY <2>3 DEF Init, TimersTyped
<1>5. Placed BY <1>2 DEF Init, Placed, ProgramShape
<1>6. ConsoleFollowsHost BY DEF Init, ConsoleFollowsHost
<1>7. SetWhileAwaited BY DEF Init, SetWhileAwaited
<1>8. Distances /\ LoopEndsFirst /\ GracefulUnlessHeld
      BY DEF Init, Distances, LoopEndsFirst, GracefulUnlessHeld
<1>9. TypeOK
  <2>0. \A h \in Hosts : at[h] \in 0 .. Last(h)
        BY <1>2 DEF Init, ProgramShape
  <2>1. \A h \in Hosts : at[h] \in 0 .. Len(program[h].services)
        BY <2>0 DEF Last, Services
  <2>2. \A h \in Hosts : left[h] \in -Late .. program[h].timeout
        BY <1>2, <1>4, Apart DEF TimersTyped, Longest
  <2>3. /\ left["loop"] \in -Late .. LoopDelay /\ left["tick"] \in -Late .. TimerPeriod
        /\ left["delay"] \in -Late .. StopDelay
        BY <1>4 DEF TimersTyped, Longest
  <2> QED BY <1>1, <1>3, <1>4, <2>1, <2>2, <2>3 DEF TypeOK, Control, TimersTyped
<1> QED BY <1>4, <1>5, <1>6, <1>7, <1>8, <1>9 DEF Inv

-----------------------------------------------------------------------------
(* Each step keeps the invariant                                           *)

\* A step that moves one host and leaves it in its place leaves all of them.
LEMMA PlacedStep ==
    ASSUME Placed, program' = program, NEW h \in Hosts, at' \in [Hosts -> 0 .. 2],
           \A g \in Hosts \ {h} : phase'[g] = phase[g] /\ at'[g] = at[g],
           at'[h] <= Last(h),
           phase'[h] = "starting" => at'[h] < Last(h),
           phase'[h] = "running" => at'[h] = Last(h),
           phase'[h] \in {"stopping", "gave up"} => at'[h] >= 1
    PROVE  Placed'
<1>1. Hosts' = Hosts /\ \A g : Last(g)' = Last(g) BY DEF Hosts, Last, Services
<1>2. ASSUME NEW g \in Hosts
      PROVE  /\ at'[g] <= Last(g)
             /\ phase'[g] = "starting" => at'[g] < Last(g)
             /\ phase'[g] = "running" => at'[g] = Last(g)
             /\ phase'[g] \in {"stopping", "gave up"} => at'[g] >= 1
  <2>1. CASE g = h BY <2>1
  <2>2. CASE g # h BY <2>2 DEF Placed
  <2> QED BY <2>1, <2>2
<1> QED BY <1>1, <1>2 DEF Placed

\* The next service of a starting host is one of its services.
LEMMA StartedPlaced ==
    ASSUME ProgramShape, TypeOK, Placed, NEW h \in Hosts, phase[h] = "starting",
           Started(h), program' = program
    PROVE  /\ Placed'
           /\ at[h] + 1 \in 1 .. Last(h)
           /\ phase'[h] = IF at[h] + 1 = Last(h) THEN "running" ELSE "starting"
           /\ at'[h] = at[h] + 1
           /\ \A g \in Hosts \ {h} : phase'[g] = phase[g] /\ at'[g] = at[g]
<1>1. at[h] \in 0 .. 2 /\ at[h] < Last(h) /\ Last(h) \in {1, 2} BY DEF Placed, ProgramShape
<1>2. at[h] + 1 \in 1 .. Last(h) BY <1>1
<1>3. at'[h] = at[h] + 1 /\ \A g \in Hosts \ {h} : at'[g] = at[g] BY DEF Placed, Started
<1>4. phase'[h] = IF at[h] + 1 = Last(h) THEN "running" ELSE "starting"
      BY DEF TypeOK, Started, Last, Services
<1>5. \A g \in Hosts \ {h} : phase'[g] = phase[g] BY DEF TypeOK, Started
<1>6. at' \in [Hosts -> 0 .. 2]
  <2>1. at[h] + 1 \in 0 .. 2 BY <1>1
  <2> QED BY <2>1 DEF Placed, Started
<1>8. /\ at'[h] <= Last(h)
      /\ phase'[h] = "starting" => at'[h] < Last(h)
      /\ phase'[h] = "running" => at'[h] = Last(h)
      /\ phase'[h] \in {"stopping", "gave up"} => at'[h] >= 1
  <2>1. CASE at[h] + 1 = Last(h)
    <3>1. phase'[h] = "running" BY <1>4, <2>1
    <3> QED BY <1>1, <1>3, <2>1, <3>1
  <2>2. CASE at[h] + 1 # Last(h)
    <3>1. phase'[h] = "starting" BY <1>4, <2>2
    <3> QED BY <1>1, <1>3, <2>2, <3>1
  <2> QED BY <2>1, <2>2
<1>9. Placed' BY <1>3, <1>5, <1>6, <1>8, PlacedStep
<1> QED BY <1>2, <1>3, <1>4, <1>5, <1>9

LEMMA StartWebInv ==
    ASSUME Inv, ProgramShape, NEW h \in Hosts, StartWeb(h) PROVE Inv'
<1>1. /\ phase[h] = "starting" /\ NextService(h) = "web" /\ Started(h)
      /\ TypeOK /\ Placed /\ program' = program
      BY DEF StartWeb, Inv
<1>2. Placed /\ Placed' BY <1>1, StartedPlaced DEF Inv
<1>3. /\ at[h] + 1 \in 1 .. Last(h)
      /\ phase'[h] \in {"running", "starting"}
      /\ \A g \in Hosts \ {h} : phase'[g] = phase[g] /\ at'[g] = at[g]
      /\ phase'[h] = "running" <=> at[h] + 1 = Last(h)
      BY <1>1, <1>2, StartedPlaced
<1>4. HasConsole(h) => phase'[h] = "starting"
      BY <1>1, <1>3 DEF HasConsole, NextService, Services
<1>5. Hosts' = Hosts /\ \A g : Last(g)' = Last(g) /\ (HasConsole(g)' <=> HasConsole(g))
      BY <1>1 DEF Hosts, Last, Services, HasConsole
<1>6. ConsoleFollowsHost' BY <1>1, <1>3, <1>4, <1>5 DEF StartWeb, Inv, ConsoleFollowsHost
<1>7. SetWhileAwaited' BY <1>1, <1>3, <1>5 DEF StartWeb, Inv, SetWhileAwaited
<1>8. TimersTyped' BY <1>1, <1>5 DEF StartWeb, Inv, TimersTyped, Longest
<1>9. Distances' /\ LoopEndsFirst'
      BY <1>1, <1>5 DEF StartWeb, Inv, Distances, LoopEndsFirst
<1>10. GracefulUnlessHeld'
      BY <1>1, <1>3, <1>5 DEF StartWeb, Inv, GracefulUnlessHeld, Service
<1>11. Control' BY <1>1, <1>3, <1>5 DEF StartWeb, Inv, TypeOK, Control, Started
<1>12. TypeOK' BY <1>1, <1>2, <1>8, <1>11, Typed DEF Inv, TypeOK
<1> QED BY <1>2, <1>6, <1>7, <1>8, <1>9, <1>10, <1>12 DEF Inv

LEMMA StartAsyncInv ==
    ASSUME Inv, ProgramShape, NEW h \in Hosts, StartAsync(h) PROVE Inv'
<1>0. Late \in 0 .. 7 BY HostedConstants
<1>1. /\ phase[h] = "starting" /\ NextService(h) = "console" /\ Started(h)
      /\ loop' = "delay" /\ Set([loop |-> LoopDelay], {})
      /\ TypeOK /\ TimersTyped /\ Placed /\ program' = program
      BY DEF StartAsync, Inv
<1>2. Placed' BY <1>1, StartedPlaced
<1>3. /\ at[h] + 1 \in 1 .. Last(h)
      /\ phase'[h] = IF at[h] + 1 = Last(h) THEN "running" ELSE "starting"
      /\ \A g \in Hosts \ {h} : phase'[g] = phase[g] /\ at'[g] = at[g]
      BY <1>1, StartedPlaced
<1>4. at[h] + 1 = Last(h) /\ HasConsole(h)
      BY <1>1, <1>3 DEF ProgramShape, HasConsole, NextService, Services
<1>5. phase'[h] = "running" BY <1>3, <1>4
<1>6. Hosts' = Hosts /\ \A g : Last(g)' = Last(g) /\ (HasConsole(g)' <=> HasConsole(g))
      BY <1>1 DEF Hosts, Last, Services, HasConsole
<1>7. loop = "off" /\ stop = "off" /\ stop' = "off"
      BY <1>1, <1>4 DEF StartAsync, Inv, ConsoleFollowsHost
<1>8. \A g \in Hosts : HasConsole(g) => g = h BY <1>4 DEF ProgramShape
<1>9. ConsoleFollowsHost' BY <1>1, <1>5, <1>6, <1>7, <1>8 DEF ConsoleFollowsHost
<1>10. armed' = armed \cup {"loop"} BY <1>1 DEF Set
<1>11. h \notin armed \cup expired BY <1>1 DEF Inv, SetWhileAwaited
<1>12. SetWhileAwaited'
  <2>1. \A g \in Hosts : phase'[g] \in {"starting", "running"} => g \notin armed' \cup expired'
        BY <1>1, <1>3, <1>10, <1>11, Apart DEF StartAsync, Inv, SetWhileAwaited
  <2> QED BY <1>1, <1>6, <1>7, <1>10, <2>1 DEF StartAsync, Inv, SetWhileAwaited
<1>13. TimersTyped'
  <2>1. LoopDelay \in -Late .. Longest("loop") BY <1>0 DEF Longest, LoopDelay
  <2> QED BY <1>1, <2>1, SetTimers
<1>14. Distances' /\ LoopEndsFirst' BY <1>7 DEF Distances, LoopEndsFirst
<1>15. GracefulUnlessHeld'
      BY <1>1, <1>3, <1>5, <1>6 DEF Inv, GracefulUnlessHeld, Service
<1>16. Control' BY <1>1, <1>3, <1>5, <1>6 DEF StartAsync, TypeOK, Control, Started
<1>17. TypeOK' BY <1>1, <1>2, <1>13, <1>16, Typed DEF TypeOK
<1> QED BY <1>2, <1>9, <1>12, <1>13, <1>14, <1>15, <1>17 DEF Inv

\* A step that touches neither hosts nor timers keeps all but the types.
LEMMA Untouched ==
    ASSUME Inv, Control',
           UNCHANGED <<program, phase, at, expired, cancelled, loop, stop, armed, left>>
    PROVE  Inv'
<1>1. Placed' BY DEF Inv, Placed, Hosts, Last, Services
<1>2. ConsoleFollowsHost' BY DEF Inv, ConsoleFollowsHost, HasConsole, Hosts, Last, Services
<1>3. SetWhileAwaited' BY DEF Inv, SetWhileAwaited, Hosts
<1>4. TimersTyped' BY DEF Inv, TimersTyped, Hosts, Longest
<1>5. Distances' /\ LoopEndsFirst'
      BY DEF Inv, Distances, LoopEndsFirst, HasConsole, Hosts, Last, Services
<1>6. GracefulUnlessHeld' BY DEF Inv, GracefulUnlessHeld, Hosts, Service
<1>7. TypeOK' BY <1>1, <1>4, Typed DEF Inv, TypeOK
<1> QED BY <1>1, <1>2, <1>3, <1>4, <1>5, <1>6, <1>7 DEF Inv

LEMMA CtrlCInv == ASSUME Inv, CtrlC PROVE Inv'
<1>1. Control' BY DEF CtrlC, Inv, TypeOK, Control, Hosts
<1> QED BY <1>1, Untouched DEF CtrlC

LEMMA RequestInv == ASSUME Inv, Request PROVE Inv'
<1>1. Control' BY DEF Request, Inv, TypeOK, Control, Hosts
<1> QED BY <1>1, Untouched DEF Request

LEMMA LoopModelInv == ASSUME Inv, ProgramShape, LoopModel PROVE Inv'
<1>0. Late \in 0 .. 7 BY HostedConstants
<1>1. /\ "loop" \in armed /\ TypeOK /\ TimersTyped
      /\ UNCHANGED <<program, phase, at, signal, expired, cancelled, stop, i, server, request>>
      BY DEF LoopModel, Due, Inv
<1>2. loop = "delay" BY <1>1 DEF Inv, SetWhileAwaited
<1>3. Hosts' = Hosts /\ \A g : Last(g)' = Last(g) /\ (HasConsole(g)' <=> HasConsole(g))
      BY <1>1 DEF Hosts, Last, Services, HasConsole
<1>4. \/ cancelled /\ loop' = "ended" /\ Set(<<>>, {"loop"})
      \/ ~cancelled /\ loop' = "delay" /\ Set([loop |-> LoopDelay], {})
      BY <1>2 DEF LoopModel
<1>5. \A t \in Timers \ {"loop"} : left'[t] = left[t] /\ (t \in armed' <=> t \in armed)
      BY <1>4 DEF Set
<1>6. loop' \in {"delay", "ended"} /\ (loop' = "delay" <=> "loop" \in armed')
      BY <1>1, <1>4 DEF Set
<1>7. TimersTyped'
  <2>1. LoopDelay \in -Late .. Longest("loop") BY <1>0 DEF Longest, LoopDelay
  <2>2. CASE Set([loop |-> LoopDelay], {}) BY <1>1, <2>1, <2>2, SetTimers
  <2>3. CASE Set(<<>>, {"loop"}) BY <1>1, <2>3, SetTimers
  <2> QED BY <1>4, <2>2, <2>3
<1>8. Placed' BY <1>1, <1>3 DEF Inv, Placed
<1>9. ConsoleFollowsHost' BY <1>1, <1>2, <1>3, <1>6 DEF Inv, ConsoleFollowsHost
<1>10. SetWhileAwaited'
  <2>1. \A h \in Hosts : h \in armed' => h \in armed BY <1>5, Apart
  <2>2. "delay" \in armed' <=> "delay" \in armed BY <1>5, Names
  <2> QED BY <1>1, <1>3, <1>6, <2>1, <2>2 DEF Inv, SetWhileAwaited
<1>11. Distances'
  <2>1. SUFFICES ASSUME stop = "delay" PROVE Distances' BY <1>1 DEF Distances
  <2>2. "loop" \notin armed' BY <1>4, <2>1 DEF Set, Inv, SetWhileAwaited
  <2>3. left'["delay"] = left["delay"] BY <1>5, Names
  <2>4. \A h \in Hosts : left'[h] = left[h] /\ (h \in armed' <=> h \in armed)
        BY <1>5, Apart
  <2> QED BY <1>1, <1>3, <2>1, <2>2, <2>3, <2>4 DEF Inv, Distances
<1>12. LoopEndsFirst' BY <1>1, <1>2 DEF Inv, LoopEndsFirst
<1>13. GracefulUnlessHeld' BY <1>1, <1>3 DEF Inv, GracefulUnlessHeld, Service
<1>14. Control' BY <1>1, <1>3, <1>6 DEF TypeOK, Control
<1>15. TypeOK' BY <1>1, <1>7, <1>8, <1>14, Typed DEF TypeOK
<1> QED BY <1>7, <1>8, <1>9, <1>10, <1>11, <1>12, <1>13, <1>15 DEF Inv

LEMMA TimerTickInv == ASSUME Inv, ProgramShape, TimerTick PROVE Inv'
<1>0. Late \in 0 .. 7 BY HostedConstants
<1>1. /\ Due("tick") /\ TypeOK /\ TimersTyped
      /\ UNCHANGED <<program, phase, at, signal, expired, cancelled, loop, stop, server, request>>
      /\ i' = i + 1
      BY DEF TimerTick, Inv
<1>2. \/ Set([tick |-> left["tick"] + TimerPeriod], {})
      \/ Set(<<>>, {"tick"})
      BY DEF TimerTick
<1>3. Hosts' = Hosts /\ \A g : Last(g)' = Last(g) /\ (HasConsole(g)' <=> HasConsole(g))
      BY <1>1 DEF Hosts, Last, Services, HasConsole
<1>4. \A t \in Timers \ {"tick"} : left'[t] = left[t] /\ (t \in armed' <=> t \in armed)
      BY <1>2 DEF Set
<1>5. TimersTyped'
  <2>1. CASE Set([tick |-> left["tick"] + TimerPeriod], {})
    <3>1. left["tick"] \in -Late .. 0
      <4>1. left["tick"] \in -Late .. 2
            BY <1>1 DEF TimersTyped, Longest, TimerPeriod
      <4> QED BY <1>0, <1>1, <4>1 DEF Due
    <3>2. left["tick"] + TimerPeriod \in -Late .. Longest("tick")
          BY <1>0, <3>1 DEF Longest, TimerPeriod
    <3> QED BY <1>1, <2>1, <3>2, SetTimers
  <2>2. CASE Set(<<>>, {"tick"}) BY <1>1, <2>2, SetTimers
  <2> QED BY <1>2, <2>1, <2>2
<1>6. Placed' BY <1>1, <1>3 DEF Inv, Placed
<1>7. ConsoleFollowsHost' BY <1>1, <1>3 DEF Inv, ConsoleFollowsHost
<1>8. /\ left'["delay"] = left["delay"] /\ left'["loop"] = left["loop"]
      /\ "delay" \in armed' <=> "delay" \in armed
      /\ "loop" \in armed' <=> "loop" \in armed
      BY <1>4, Names
<1>9. \A h \in Hosts : left'[h] = left[h] /\ (h \in armed' <=> h \in armed)
      BY <1>4, Apart
<1>10. SetWhileAwaited' BY <1>1, <1>3, <1>8, <1>9 DEF Inv, SetWhileAwaited
<1>11. Distances' /\ LoopEndsFirst'
      BY <1>1, <1>3, <1>8, <1>9 DEF Inv, Distances, LoopEndsFirst
<1>12. GracefulUnlessHeld' BY <1>1, <1>3 DEF Inv, GracefulUnlessHeld, Service
<1>13. Control'
  <2>1. i \in Nat BY <1>1 DEF TypeOK
  <2>2. i' \in Nat BY <1>1, <2>1
  <2> QED BY <1>1, <1>3, <2>2 DEF TypeOK, Control
<1>14. TypeOK' BY <1>1, <1>5, <1>6, <1>13, Typed DEF TypeOK
<1> QED BY <1>5, <1>6, <1>7, <1>10, <1>11, <1>12, <1>14 DEF Inv

\* What a host sets when it stops the web server, and the console service.
LEMMA CallStopSets ==
    ASSUME ProgramShape, TimersTyped, NEW h \in Hosts, NEW s, program' = program,
           CallStop(s, [t \in {h} |-> program[h].timeout], {})
    PROVE  /\ TimersTyped'
           /\ h \in armed' /\ left'[h] = program[h].timeout
           /\ s = "console" =>
                  /\ armed' = armed \cup {h, "tick", "delay"}
                  /\ left'["delay"] = StopDelay /\ left'["loop"] = left["loop"]
                  /\ stop' = "delay" /\ cancelled'
           /\ s # "console" =>
                  /\ armed' = armed \cup {h}
                  /\ \A t \in Timers \ {h} : left'[t] = left[t]
                  /\ server' = "draining" /\ UNCHANGED <<stop, cancelled>>
<1>0. Late \in 0 .. 7 BY HostedConstants
<1>1. h \in Timers /\ h \notin {"loop", "tick", "delay"} BY Apart
<1>2. program[h].timeout \in -Late .. Longest(h)
  <2>1. Longest(h) = program[h].timeout /\ Longest(h) \in 2 .. 20
        BY <1>1, LongestPositive DEF Longest
  <2> QED BY <1>0, <2>1
<1>3. /\ DOMAIN StopAsync.timers = {"tick", "delay"}
      /\ StopAsync.timers["tick"] = TimerPeriod /\ StopAsync.timers["delay"] = StopDelay
      /\ StopAsync.stop = "delay" /\ StopAsync.cancelled = TRUE
      BY DEF StopAsync
<1>4. CASE s = "console"
  <2> DEFINE d == [t \in {h, "tick", "delay"} |->
                      IF t = h THEN program[h].timeout ELSE StopAsync.timers[t]]
  <2>1. Set(d, {}) /\ stop' = "delay" /\ cancelled' = TRUE /\ server' = server
    <3>1. DOMAIN [t \in {h} |-> program[h].timeout] \cup DOMAIN StopAsync.timers
              = {h, "tick", "delay"}
          BY <1>3
    <3>2. d = [t \in DOMAIN [t \in {h} |-> program[h].timeout] \cup DOMAIN StopAsync.timers |->
                  IF t \in DOMAIN [u \in {h} |-> program[h].timeout]
                  THEN [u \in {h} |-> program[h].timeout][t] ELSE StopAsync.timers[t]]
          BY <3>1
    <3> QED BY <1>3, <1>4, <3>2 DEF CallStop
  <2>2. /\ DOMAIN d = {h, "tick", "delay"} /\ d[h] = program[h].timeout
        /\ d["tick"] = TimerPeriod /\ d["delay"] = StopDelay
        BY <1>1, <1>3
  <2> HIDE DEF d
  <2>3. \A t \in DOMAIN d : d[t] \in -Late .. Longest(t)
    <3>1. TimerPeriod \in -Late .. Longest("tick") /\ StopDelay \in -Late .. Longest("delay")
          BY <1>0 DEF Longest, TimerPeriod, StopDelay
    <3> QED BY <1>2, <2>2, <3>1
  <2>4. TimersTyped' BY <2>1, <2>2, <2>3, SetTimers
  <2>5. armed' = armed \cup {h, "tick", "delay"} BY <2>1, <2>2 DEF Set
  <2>6. left'[h] = program[h].timeout /\ left'["delay"] = StopDelay
        BY <1>1, <2>1, <2>2, Names DEF Set
  <2>7. left'["loop"] = left["loop"] BY <1>1, <2>1, <2>2, Names DEF Set
  <2> QED BY <1>4, <2>1, <2>4, <2>5, <2>6, <2>7
<1>5. CASE s # "console"
  <2> DEFINE d == [t \in {h} |-> program[h].timeout]
  <2>1. Set(d, {}) /\ server' = "draining" /\ UNCHANGED <<stop, cancelled>>
        BY <1>5 DEF CallStop
  <2>2. DOMAIN d = {h} /\ d[h] = program[h].timeout OBVIOUS
  <2> HIDE DEF d
  <2>3. TimersTyped' BY <1>2, <2>1, <2>2, SetTimers
  <2>4. armed' = armed \cup {h} BY <2>1, <2>2 DEF Set
  <2>5. left'[h] = program[h].timeout /\ \A t \in Timers \ {h} : left'[t] = left[t]
        BY <1>1, <2>1, <2>2 DEF Set
  <2> QED BY <1>5, <2>1, <2>3, <2>4, <2>5
<1> QED BY <1>4, <1>5

LEMMA BeginStopInv ==
    ASSUME Inv, ProgramShape, NEW h \in Hosts, BeginStop(h) PROVE Inv'
<1>1. /\ phase[h] = "running" /\ phase' = [phase EXCEPT ![h] = "stopping"]
      /\ CallStop(Service(h), [t \in {h} |-> program[h].timeout], {})
      /\ TypeOK /\ TimersTyped /\ Placed
      /\ UNCHANGED <<program, at, signal, expired, loop, i, request>>
      BY DEF BeginStop, Inv
<1>2. /\ TimersTyped'
      /\ h \in armed' /\ left'[h] = program[h].timeout
      /\ Service(h) = "console" =>
             /\ armed' = armed \cup {h, "tick", "delay"}
             /\ left'["delay"] = StopDelay /\ left'["loop"] = left["loop"]
             /\ stop' = "delay" /\ cancelled'
      /\ Service(h) # "console" =>
             /\ armed' = armed \cup {h}
             /\ \A t \in Timers \ {h} : left'[t] = left[t]
             /\ server' = "draining" /\ UNCHANGED <<stop, cancelled>>
      BY <1>1, CallStopSets
<1>3. at[h] = Last(h) /\ (Service(h) = "console" <=> HasConsole(h))
      BY <1>1 DEF Placed, HasConsole, Service, Services
<1>4. Hosts' = Hosts /\ \A g : Last(g)' = Last(g) /\ (HasConsole(g)' <=> HasConsole(g))
      BY <1>1 DEF Hosts, Last, Services, HasConsole
<1>5. phase'[h] = "stopping" /\ \A g \in Hosts \ {h} : phase'[g] = phase[g]
      BY <1>1 DEF TypeOK
<1>6. h \notin armed \cup expired BY <1>1 DEF Inv, SetWhileAwaited
<1>7. h \in Timers /\ h \notin {"loop", "tick", "delay"}
      /\ \A g \in Hosts : g \in Timers /\ g \notin {"loop", "tick", "delay"}
      BY Apart
<1>8. Placed'
  <2>1. at[h] >= 1
    <3>1. Last(h) \in {1, 2} BY DEF ProgramShape
    <3> QED BY <1>3, <3>1
  <2> QED BY <1>1, <1>4, <1>5, <2>1 DEF Placed
<1>9. CASE Service(h) = "console"
  <2>1. HasConsole(h) /\ stop = "off" /\ ~cancelled /\ loop # "off"
        BY <1>1, <1>3, <1>9 DEF Inv, ConsoleFollowsHost, SetWhileAwaited
  <2>2. \A g \in Hosts : HasConsole(g) => g = h BY <2>1 DEF ProgramShape
  <2>3. ConsoleFollowsHost'
        BY <1>1, <1>2, <1>3, <1>4, <1>5, <1>9, <2>1, <2>2 DEF ConsoleFollowsHost
  <2>4. SetWhileAwaited'
    <3>1. \A g \in Hosts : phase'[g] \in {"starting", "running"} => g \notin armed' \cup expired'
          BY <1>1, <1>2, <1>5, <1>7, <1>9 DEF Inv, SetWhileAwaited
    <3>2. "loop" \in armed' <=> "loop" \in armed BY <1>2, <1>7, <1>9
    <3> QED BY <1>1, <1>2, <1>4, <1>9, <3>1, <3>2 DEF Inv, SetWhileAwaited
  <2>5. Distances'
    <3>1. left["loop"] + 8 <= StopDelay
      <4>1. left["loop"] \in -Late .. 2 BY <1>1 DEF TimersTyped, Longest, LoopDelay
      <4>2. Late \in 0 .. 7 BY HostedConstants
      <4> QED BY <4>1, <4>2 DEF StopDelay
    <3>2. program[h].timeout = StopDelay + 10
      <4>1. program[h].timeout = ShutdownTimeout
            BY <2>1 DEF ProgramShape, HasConsole
      <4> QED BY <4>1 DEF ShutdownTimeout, StopDelay
    <3>3. left'["loop"] + 8 <= left'["delay"] BY <1>2, <1>9, <3>1
    <3>4. h \in armed' /\ h \notin expired' /\ left'[h] = left'["delay"] + 10
          BY <1>1, <1>2, <1>6, <1>9, <3>2
    <3> QED BY <1>4, <2>2, <3>3, <3>4 DEF Distances
  <2>6. LoopEndsFirst' BY <1>2, <1>9 DEF LoopEndsFirst
  <2>7. server' = server /\ cancelled' \in BOOLEAN
        BY <1>1, <1>9 DEF CallStop, StopAsync
  <2>8. Control' BY <1>1, <1>2, <1>4, <1>5, <1>9, <2>7 DEF TypeOK, Control
  <2>9. TypeOK' BY <1>1, <1>2, <1>8, <2>8, Typed DEF TypeOK
  <2>10. GracefulUnlessHeld'
         BY <1>1, <1>4, <1>5 DEF Inv, GracefulUnlessHeld, Service
  <2> QED BY <1>2, <1>8, <2>3, <2>4, <2>5, <2>6, <2>9, <2>10 DEF Inv
<1>10. CASE Service(h) # "console"
  <2>1. ~HasConsole(h) BY <1>3, <1>10
  <2>2. ConsoleFollowsHost'
        BY <1>1, <1>2, <1>4, <1>5, <1>10, <2>1 DEF Inv, ConsoleFollowsHost
  <2>3. /\ left'["delay"] = left["delay"] /\ left'["loop"] = left["loop"]
        /\ "delay" \in armed' <=> "delay" \in armed
        /\ "loop" \in armed' <=> "loop" \in armed
        BY <1>2, <1>7, <1>10, Names
  <2>4. \A g \in Hosts \ {h} : left'[g] = left[g] /\ (g \in armed' <=> g \in armed)
        BY <1>2, <1>7, <1>10
  <2>5. SetWhileAwaited'
    <3>1. \A g \in Hosts : phase'[g] \in {"starting", "running"} => g \notin armed' \cup expired'
          BY <1>1, <1>5, <2>4 DEF Inv, SetWhileAwaited
    <3> QED BY <1>1, <1>2, <1>4, <1>10, <2>3, <3>1 DEF Inv, SetWhileAwaited
  <2>6. Distances' /\ LoopEndsFirst'
        BY <1>1, <1>2, <1>4, <1>10, <2>1, <2>3, <2>4 DEF Inv, Distances, LoopEndsFirst
  <2>7. Control' BY <1>1, <1>2, <1>4, <1>5, <1>10 DEF TypeOK, Control
  <2>8. TypeOK' BY <1>1, <1>2, <1>8, <2>7, Typed DEF TypeOK
  <2>9. GracefulUnlessHeld'
        BY <1>1, <1>4, <1>5 DEF Inv, GracefulUnlessHeld, Service
  <2> QED BY <1>2, <1>8, <2>2, <2>5, <2>6, <2>8, <2>9 DEF Inv
<1> QED BY <1>9, <1>10

\* What the end of a service changes: the host gives up exactly when its
\* timeout has passed, and clears only its own timeout.
LEMMA StopNextKeeps ==
    ASSUME Inv, ProgramShape, NEW h \in Hosts, NEW off, NEW s, phase[h] = "stopping",
           StopNext(h, off, s), program' = program
    PROVE  /\ TimersTyped' /\ Placed'
           /\ phase' \in [Hosts -> {"starting", "running", "stopping", "stopped", "gave up"}]
           /\ phase'[h] \in {"stopping", "stopped", "gave up"}
           /\ phase'[h] = "stopping" => at'[h] # Last(h)
           /\ phase'[h] = "gave up" => h \in expired /\ at'[h] = at[h]
           /\ \A g \in Hosts \ {h} : phase'[g] = phase[g] /\ at'[g] = at[g]
           /\ server' \in {"draining", s}
           /\ \A t \in Timers \ (off \cup {h}) :
                  left'[t] = left[t] /\ (t \in armed' <=> t \in armed)
           /\ armed' \subseteq armed \ off
<1>1. TypeOK /\ TimersTyped /\ Placed BY DEF Inv
<1>2. Hosts' = Hosts /\ \A g : Last(g)' = Last(g) BY DEF Hosts, Last, Services
<1>3. at[h] \in 1 .. 2 /\ at[h] <= Last(h) /\ Last(h) \in {1, 2}
  <2>1. at[h] \in 0 .. 2 /\ at[h] >= 1 /\ at[h] <= Last(h) BY <1>1 DEF Placed
  <2>2. Last(h) \in {1, 2} BY DEF ProgramShape
  <2> QED BY <2>1, <2>2
<1>4. \E o \in {off, off \cup {h}} : Set(<<>>, o)
      BY DEF StopNext
<1>5. /\ \A t \in Timers \ (off \cup {h}) :
             left'[t] = left[t] /\ (t \in armed' <=> t \in armed)
      /\ armed' \subseteq armed \ off
      BY <1>4 DEF Set
<1>6. TimersTyped' BY <1>1, <1>4, SetTimers
<1>7. CASE h \in expired /\ phase' = [phase EXCEPT ![h] = "gave up"] /\ server' = s /\ at' = at
  <2>1. phase'[h] = "gave up" /\ \A g \in Hosts \ {h} : phase'[g] = phase[g]
        BY <1>1, <1>7 DEF TypeOK
  <2>2. phase' \in [Hosts -> {"starting", "running", "stopping", "stopped", "gave up"}]
        BY <1>1, <1>7 DEF TypeOK
  <2>3. Placed' BY <1>1, <1>2, <1>3, <1>7, <2>1 DEF Placed
  <2> QED BY <1>5, <1>6, <1>7, <2>1, <2>2, <2>3
<1>8. CASE /\ at[h] > 1 /\ at' = [at EXCEPT ![h] = @ - 1]
           /\ server' = "draining" /\ phase' = phase
  <2>0. at[h] = 2 /\ Last(h) = 2 BY <1>3, <1>8
  <2>1. at' = [at EXCEPT ![h] = 1]
    <3>1. at[h] - 1 = 1 BY <2>0
    <3> QED BY <1>8, <3>1
  <2>2. at'[h] = 1 /\ \A g \in Hosts \ {h} : at'[g] = at[g] BY <1>1, <2>1 DEF Placed
  <2>3. at' \in [Hosts -> 0 .. 2]
    <3>1. 1 \in 0 .. 2 OBVIOUS
    <3> QED BY <1>1, <2>1, <3>1 DEF Placed
  <2>4. Placed'
    <3>1. at'[h] <= Last(h) /\ at'[h] >= 1 /\ at'[h] # Last(h) BY <2>0, <2>2
    <3>2. phase'[h] = "stopping" /\ \A g \in Hosts \ {h} : phase'[g] = phase[g] BY <1>8
    <3> QED BY <1>1, <2>2, <2>3, <3>1, <3>2, PlacedStep
  <2>5. at'[h] # Last(h) BY <2>0, <2>2
  <2> QED BY <1>1, <1>5, <1>6, <1>8, <2>2, <2>4, <2>5 DEF TypeOK
<1>9. CASE /\ phase' = [phase EXCEPT ![h] = "stopped"] /\ at' = [at EXCEPT ![h] = 0]
           /\ server' = s
  <2>1. at'[h] = 0 /\ \A g \in Hosts \ {h} : at'[g] = at[g] BY <1>1, <1>9 DEF Placed
  <2>2. phase'[h] = "stopped" /\ \A g \in Hosts \ {h} : phase'[g] = phase[g]
        BY <1>1, <1>9 DEF TypeOK
  <2>3. phase' \in [Hosts -> {"starting", "running", "stopping", "stopped", "gave up"}]
        BY <1>1, <1>9 DEF TypeOK
  <2>4. at' \in [Hosts -> 0 .. 2]
    <3>1. 0 \in 0 .. 2 OBVIOUS
    <3> QED BY <1>1, <1>9, <3>1 DEF Placed
  <2>5. 0 <= Last(h) BY <1>3
  <2>6. Placed' BY <1>1, <2>1, <2>2, <2>4, <2>5, PlacedStep
  <2> QED BY <1>5, <1>6, <1>9, <2>1, <2>2, <2>3, <2>6
<1> QED BY <1>7, <1>8, <1>9 DEF StopNext

\* When StopAsync's delay is over the loop's was over before, and the timeout
\* of its host has not passed.
LEMMA DelayCompletedInv ==
    ASSUME Inv, ProgramShape, NEW h \in Hosts, DelayCompleted(h) PROVE Inv'
<1>0. Late \in 0 .. 7 BY HostedConstants
<1>1. /\ phase[h] = "stopping" /\ Service(h) = "console" /\ Due("delay")
      /\ stop' = "completed" /\ StopNext(h, {"delay"}, server)
      /\ TypeOK /\ TimersTyped /\ Placed
      /\ UNCHANGED <<program, signal, expired, cancelled, loop, i, request>>
      BY DEF DelayCompleted, Inv
<1>2. /\ TimersTyped' /\ Placed'
      /\ phase' \in [Hosts -> {"starting", "running", "stopping", "stopped", "gave up"}]
      /\ phase'[h] \in {"stopping", "stopped", "gave up"}
      /\ phase'[h] = "stopping" => at'[h] # Last(h)
      /\ phase'[h] = "gave up" => h \in expired /\ at'[h] = at[h]
      /\ \A g \in Hosts \ {h} : phase'[g] = phase[g] /\ at'[g] = at[g]
      /\ server' \in {"draining", server}
      /\ \A t \in Timers \ {"delay", h} :
             left'[t] = left[t] /\ (t \in armed' <=> t \in armed)
      /\ armed' \subseteq armed \ {"delay"}
  <2>1. {"delay"} \cup {h} = {"delay", h} OBVIOUS
  <2>2. program' = program BY <1>1
  <2> QED BY <1>1, <2>1, <2>2, StopNextKeeps
<1>3. at[h] = Last(h) /\ HasConsole(h)
  <2>1. at[h] \in 1 .. Last(h)
    <3>1. at[h] \in 0 .. 2 /\ at[h] >= 1 /\ at[h] <= Last(h) /\ Last(h) \in {1, 2}
          BY <1>1 DEF Placed, ProgramShape
    <3> QED BY <3>1
  <2>2. Services(h)[at[h]] = "console" BY <1>1 DEF Service, Services
  <2> QED BY <2>1, <2>2 DEF ProgramShape, HasConsole
<1>4. \A g \in Hosts : HasConsole(g) => g = h BY <1>3 DEF ProgramShape
<1>5. stop = "delay" /\ cancelled /\ loop # "off"
      BY <1>1, <1>3 DEF Inv, ConsoleFollowsHost, SetWhileAwaited
<1>6. h \notin expired BY <1>3, <1>5 DEF Inv, Distances
<1>7. phase'[h] \in {"stopping", "stopped"} BY <1>2, <1>6
<1>8. "loop" \notin armed
  <2>1. SUFFICES ASSUME "loop" \in armed PROVE FALSE OBVIOUS
  <2>2. left["loop"] + 8 <= left["delay"] BY <1>5, <2>1 DEF Inv, Distances
  <2>3. left["delay"] <= 0 BY <1>1 DEF Due
  <2>4. left["loop"] \in -Late .. 2 BY <1>1 DEF TimersTyped, Longest, LoopDelay
  <2>5. left["delay"] \in -Late .. 10 BY <1>1 DEF TimersTyped, Longest, StopDelay
  <2> QED BY <1>0, <2>2, <2>3, <2>4, <2>5
<1>9. loop = "ended" BY <1>1, <1>5, <1>8 DEF Inv, SetWhileAwaited, TypeOK
<1>10. Hosts' = Hosts /\ \A g : Last(g)' = Last(g) /\ (HasConsole(g)' <=> HasConsole(g))
       BY <1>1 DEF Hosts, Last, Services, HasConsole
<1>11. ConsoleFollowsHost'
  <2>1. ~(phase'[h] = "stopping" /\ at'[h] = Last(h)) BY <1>2
  <2> QED BY <1>1, <1>4, <1>7, <1>9, <1>10, <2>1 DEF ConsoleFollowsHost
<1>12. SetWhileAwaited'
  <2>1. \A g \in Hosts : phase'[g] \in {"starting", "running"} => g \notin armed' \cup expired'
        BY <1>1, <1>2, <1>7 DEF Inv, SetWhileAwaited
  <2>2. "loop" \notin armed' /\ "delay" \notin armed' BY <1>2, <1>8
  <2> QED BY <1>1, <1>5, <1>9, <1>10, <2>1, <2>2 DEF SetWhileAwaited
<1>13. Distances' /\ LoopEndsFirst' BY <1>1, <1>9 DEF Distances, LoopEndsFirst
<1>14. GracefulUnlessHeld'
       BY <1>1, <1>2, <1>7, <1>10 DEF Inv, GracefulUnlessHeld, Service
<1>15. Control' BY <1>1, <1>2, <1>10 DEF TypeOK, Control
<1>16. TypeOK' BY <1>1, <1>2, <1>15, Typed DEF TypeOK
<1> QED BY <1>2, <1>11, <1>12, <1>13, <1>14, <1>16 DEF Inv

LEMMA WebStoppedInv ==
    ASSUME Inv, ProgramShape, NEW h \in Hosts, WebStopped(h) PROVE Inv'
<1>1. /\ phase[h] = "stopping" /\ Service(h) = "web" /\ request' = FALSE
      /\ StopNext(h, {}, "down")
      /\ TypeOK /\ TimersTyped /\ Placed
      /\ UNCHANGED <<program, signal, expired, cancelled, loop, stop, i>>
      BY DEF WebStopped, Inv
<1>2. /\ TimersTyped' /\ Placed'
      /\ phase' \in [Hosts -> {"starting", "running", "stopping", "stopped", "gave up"}]
      /\ phase'[h] \in {"stopping", "stopped", "gave up"}
      /\ phase'[h] = "stopping" => at'[h] # Last(h)
      /\ phase'[h] = "gave up" => h \in expired /\ at'[h] = at[h]
      /\ \A g \in Hosts \ {h} : phase'[g] = phase[g] /\ at'[g] = at[g]
      /\ server' \in {"draining", "down"}
      /\ \A t \in Timers \ {h} :
             left'[t] = left[t] /\ (t \in armed' <=> t \in armed)
      /\ armed' \subseteq armed
  <2>1. {} \cup {h} = {h} /\ armed \ {} = armed OBVIOUS
  <2> QED BY <1>1, <2>1, StopNextKeeps
<1>3. Hosts' = Hosts /\ \A g : Last(g)' = Last(g) /\ (HasConsole(g)' <=> HasConsole(g))
      BY <1>1 DEF Hosts, Last, Services, HasConsole
<1>4. HasConsole(h) => stop # "delay"
  <2>1. HasConsole(h) => at[h] # Last(h) BY <1>1 DEF HasConsole, Service, Services
  <2> QED BY <1>1, <2>1 DEF Inv, ConsoleFollowsHost
<1>5. ConsoleFollowsHost'
  <2>1. ~(phase'[h] = "stopping" /\ at'[h] = Last(h)) BY <1>2
  <2> QED BY <1>1, <1>2, <1>3, <1>4, <2>1 DEF Inv, ConsoleFollowsHost
<1>6. h \notin {"loop", "tick", "delay"} /\ \A g \in Hosts : g \in Timers
      BY Apart
<1>7. /\ left'["delay"] = left["delay"] /\ left'["loop"] = left["loop"]
      /\ "delay" \in armed' <=> "delay" \in armed
      /\ "loop" \in armed' <=> "loop" \in armed
      BY <1>2, <1>6, Names
<1>8. \A g \in Hosts \ {h} : left'[g] = left[g] /\ (g \in armed' <=> g \in armed)
      BY <1>2, <1>6
<1>9. SetWhileAwaited'
  <2>1. \A g \in Hosts : phase'[g] \in {"starting", "running"} => g \notin armed' \cup expired'
        BY <1>1, <1>2, <1>8 DEF Inv, SetWhileAwaited
  <2> QED BY <1>1, <1>3, <1>7, <2>1 DEF Inv, SetWhileAwaited
<1>10. Distances' /\ LoopEndsFirst'
       BY <1>1, <1>3, <1>4, <1>7, <1>8 DEF Inv, Distances, LoopEndsFirst
<1>11. GracefulUnlessHeld'
       BY <1>1, <1>2, <1>3 DEF Inv, GracefulUnlessHeld, Service
<1>12. Control' BY <1>1, <1>2, <1>3 DEF TypeOK, Control
<1>13. TypeOK' BY <1>1, <1>2, <1>12, Typed DEF TypeOK
<1> QED BY <1>2, <1>5, <1>9, <1>10, <1>11, <1>13 DEF Inv

\* The timeout that passes is never that of a host whose StopAsync sleeps.
LEMMA TimeoutPassesInv ==
    ASSUME Inv, ProgramShape, NEW h \in Hosts, TimeoutPasses(h) PROVE Inv'
<1>0. Late \in 0 .. 7 BY HostedConstants
<1>1. /\ h \in armed /\ left[h] <= 0 /\ expired' = expired \cup {h} /\ Set(<<>>, {h})
      /\ TypeOK /\ TimersTyped /\ Placed
      /\ UNCHANGED <<program, phase, at, signal, cancelled, loop, stop, i, server, request>>
      BY DEF TimeoutPasses, Due, Inv
<1>2. Hosts' = Hosts /\ \A g : Last(g)' = Last(g) /\ (HasConsole(g)' <=> HasConsole(g))
      BY <1>1 DEF Hosts, Last, Services, HasConsole
<1>3. stop = "delay" => ~HasConsole(h)
  <2>1. SUFFICES ASSUME stop = "delay", HasConsole(h) PROVE FALSE OBVIOUS
  <2>2. left[h] = left["delay"] + 10 BY <2>1 DEF Inv, Distances
  <2>3. left["delay"] \in -Late .. 10 BY <1>1 DEF TimersTyped, Longest, StopDelay
  <2> QED BY <1>0, <1>1, <2>2, <2>3
<1>4. phase[h] \notin {"starting", "running"} BY <1>1 DEF Inv, SetWhileAwaited
<1>5. h \notin {"loop", "tick", "delay"} /\ \A g \in Hosts : g \in Timers
      BY Apart
<1>6. TimersTyped' BY <1>1, SetTimers
<1>7. \A t \in Timers \ {h} : left'[t] = left[t] /\ (t \in armed' <=> t \in armed)
      BY <1>1 DEF Set
<1>8. /\ left'["delay"] = left["delay"] /\ left'["loop"] = left["loop"]
      /\ "delay" \in armed' <=> "delay" \in armed
      /\ "loop" \in armed' <=> "loop" \in armed
      BY <1>5, <1>7, Names
<1>9. \A g \in Hosts \ {h} :
          left'[g] = left[g] /\ (g \in armed' <=> g \in armed) /\ (g \in expired' <=> g \in expired)
      BY <1>1, <1>5, <1>7
<1>10. Placed' BY <1>1, <1>2 DEF Placed
<1>11. ConsoleFollowsHost' BY <1>1, <1>2 DEF Inv, ConsoleFollowsHost
<1>12. SetWhileAwaited'
  <2>1. \A g \in Hosts : phase'[g] \in {"starting", "running"} => g \notin armed' \cup expired'
        BY <1>1, <1>4, <1>9 DEF Inv, SetWhileAwaited
  <2> QED BY <1>1, <1>2, <1>8, <2>1 DEF Inv, SetWhileAwaited
<1>13. Distances' /\ LoopEndsFirst'
       BY <1>1, <1>2, <1>3, <1>8, <1>9 DEF Inv, Distances, LoopEndsFirst
<1>14. GracefulUnlessHeld' BY <1>1, <1>2 DEF Inv, GracefulUnlessHeld, Service
<1>15. Control' BY <1>1, <1>2 DEF TypeOK, Control
<1>16. TypeOK' BY <1>1, <1>6, <1>10, <1>15, Typed DEF TypeOK
<1> QED BY <1>6, <1>10, <1>11, <1>12, <1>13, <1>14, <1>16 DEF Inv

\* Time runs down all timers together, and so keeps their distances.
LEMMA TickInv == ASSUME Inv, ProgramShape, Tick PROVE Inv'
<1>0. Late \in 0 .. 7 BY HostedConstants
<1>1. /\ \A t \in armed : left[t] > -Late
      /\ left' = [t \in Timers |-> IF t \in armed THEN left[t] - 1 ELSE left[t]]
      /\ TypeOK /\ TimersTyped /\ Placed
      /\ UNCHANGED <<program, phase, at, signal, expired, cancelled, loop, stop, i,
                     server, request, armed>>
      BY DEF Tick, Inv
<1>2. Hosts' = Hosts /\ \A g : Last(g)' = Last(g) /\ (HasConsole(g)' <=> HasConsole(g))
      BY <1>1 DEF Hosts, Last, Services, HasConsole
<1>3. \A t : Longest(t)' = Longest(t) BY <1>1 DEF Longest
<1>4. TimersTyped'
  <2>1. ASSUME NEW t \in {"loop", "tick", "delay"} \cup Hosts
        PROVE  left'[t] \in -Late .. Longest(t)
    <3>1. t \in Timers /\ Longest(t) \in 2 .. 20 BY LongestPositive
    <3>2. left[t] \in -Late .. Longest(t) BY <1>1 DEF TimersTyped
    <3>3. CASE t \in armed
      <4>1. left'[t] = left[t] - 1 /\ left[t] > -Late BY <1>1, <3>1, <3>3
      <4> QED BY <1>0, <3>1, <3>2, <4>1
    <3>4. CASE t \notin armed
      <4>1. left'[t] = left[t] BY <1>1, <3>1, <3>4
      <4> QED BY <3>2, <4>1
    <3> QED BY <3>3, <3>4
  <2>2. left' \in [Timers -> Int] BY <1>1 DEF TimersTyped
  <2> QED BY <1>1, <1>2, <1>3, <2>1, <2>2 DEF TimersTyped
<1>5. Placed' BY <1>1, <1>2 DEF Placed
<1>6. ConsoleFollowsHost' BY <1>1, <1>2 DEF Inv, ConsoleFollowsHost
<1>7. SetWhileAwaited' BY <1>1, <1>2 DEF Inv, SetWhileAwaited
<1>8. Distances'
  <2>1. SUFFICES ASSUME stop = "delay" PROVE Distances' BY <1>1 DEF Distances
  <2>2. "delay" \in armed BY <2>1 DEF Inv, SetWhileAwaited
  <2>3. left'["delay"] = left["delay"] - 1 /\ left["delay"] \in Int
        BY <1>1, <2>2, Names DEF TimersTyped
  <2>4. "loop" \in armed' => left'["loop"] + 8 <= left'["delay"]
    <3>1. SUFFICES ASSUME "loop" \in armed PROVE left'["loop"] + 8 <= left'["delay"]
          BY <1>1
    <3>2. left'["loop"] = left["loop"] - 1 /\ left["loop"] \in Int
          BY <1>1, <3>1, Names DEF TimersTyped
    <3>3. left["loop"] + 8 <= left["delay"] BY <2>1, <3>1 DEF Inv, Distances
    <3> QED BY <2>3, <3>2, <3>3
  <2>5. ASSUME NEW h \in Hosts, HasConsole(h)
        PROVE  h \in armed' /\ h \notin expired' /\ left'[h] = left'["delay"] + 10
    <3>1. h \in armed /\ h \notin expired /\ left[h] = left["delay"] + 10
          BY <2>1, <2>5 DEF Inv, Distances
    <3>2. left'[h] = left[h] - 1 BY <1>1, <3>1, Apart
    <3>3. left'[h] = left'["delay"] + 10 BY <2>3, <3>1, <3>2
    <3> QED BY <1>1, <3>1, <3>3
  <2> QED BY <1>2, <2>4, <2>5 DEF Distances
<1>9. LoopEndsFirst' BY <1>1 DEF Inv, LoopEndsFirst
<1>10. GracefulUnlessHeld' BY <1>1, <1>2 DEF Inv, GracefulUnlessHeld, Service
<1>11. Control' BY <1>1, <1>2 DEF TypeOK, Control
<1>12. TypeOK' BY <1>1, <1>4, <1>5, <1>11, Typed DEF TypeOK
<1> QED BY <1>4, <1>5, <1>6, <1>7, <1>8, <1>9, <1>10, <1>12 DEF Inv

LEMMA InvStep == Inv /\ [Next]_vars => Inv'
<1> SUFFICES ASSUME Inv, [Next]_vars PROVE Inv'
  OBVIOUS
<1>1. ProgramShape BY Shape DEF Inv, TypeOK
<1>2. ASSUME NEW h \in Hosts, HostStep(h) PROVE Inv'
  BY <1>1, <1>2, StartWebInv, StartAsyncInv, BeginStopInv, DelayCompletedInv,
     WebStoppedInv, TimeoutPassesInv DEF HostStep
<1>3. CASE LoopModel \/ TimerTick \/ CtrlC \/ Request \/ Tick
  BY <1>1, <1>3, LoopModelInv, TimerTickInv, CtrlCInv, RequestInv, TickInv
<1>4. CASE UNCHANGED vars
  <2>1. Control' BY <1>4 DEF vars, Inv, TypeOK, Control, Hosts
  <2> QED BY <1>4, <2>1, Untouched DEF vars
<1> QED
  BY <1>2, <1>3, <1>4 DEF Next, Running, Exit

-----------------------------------------------------------------------------
(* The theorems                                                            *)

THEOREM Invariance == Spec => []Inv
<1> QED
  BY InitInv, InvStep, PTL DEF Spec

\* The variables keep their types: no timer is more than Late overdue, and no
\* host stands outside the list of its services.
THEOREM TypeCorrect == Spec => []TypeOK
<1>1. Inv => TypeOK BY DEF Inv
<1> QED
  BY <1>1, Invariance, PTL

\* The loop that StopAsync does not wait for has ended when StopAsync
\* completes, as long as no timer is late by the difference of their delays.
THEOREM LoopEnds == Spec => []LoopEndsFirst
<1>1. Inv => LoopEndsFirst BY DEF Inv
<1> QED
  BY <1>1, Invariance, PTL

\* The sleep of StopAsync, which ignores its token, never makes a host give
\* up: a host that gave up was stopping its web server.
THEOREM Graceful == Spec => []GracefulUnlessHeld
<1>1. Inv => GracefulUnlessHeld BY DEF Inv
<1> QED
  BY <1>1, Invariance, PTL

-----------------------------------------------------------------------------
(* Why a shutdown does not get stuck                                       *)

\* A host that is stopping waits for a delay that is set, which comes before
\* its timeout, or for a web server that it gives up when its timeout passes.
StoppingIsTimed ==
    \A h \in Hosts : phase[h] = "stopping" =>
        IF Service(h) = "console" THEN "delay" \in armed /\ h \notin expired
                                  ELSE h \in armed \cup expired

\* No timer is set that nobody takes when it is due: none can hold up time.
TimersTaken ==
    \A t \in armed :
        \/ t \in {"loop", "tick"} \cup Hosts
        \/ t = "delay" /\ \E h \in Hosts : phase[h] = "stopping" /\ Service(h) = "console"

\* What is inductive of it: a host's timeout is set from the moment it stops
\* until it passes, and only hosts of the program have one.
HostTimers ==
    /\ armed \subseteq {"loop", "tick", "delay"} \cup Hosts
    /\ \A h \in Hosts : phase[h] = "stopping" => h \in armed \cup expired

\* A step that leaves the hosts and their timers where they are.
LEMMA HostTimersKept ==
    ASSUME HostTimers, program' = program, expired \subseteq expired',
           armed' \subseteq {"loop", "tick", "delay"} \cup Hosts,
           \A h \in Hosts : phase'[h] = "stopping" =>
               phase[h] = "stopping" /\ (h \in armed => h \in armed' \cup expired')
    PROVE  HostTimers'
<1>1. Hosts' = Hosts BY DEF Hosts
<1> QED BY <1>1 DEF HostTimers

\* The end of a service leaves the host its timeout, unless the host ended.
LEMMA StopNextTimers ==
    ASSUME Inv, ProgramShape, HostTimers, NEW h \in Hosts,
           NEW off \in SUBSET {"delay"}, NEW s, StopNext(h, off, s),
           phase[h] = "stopping", program' = program, expired' = expired
    PROVE  HostTimers'
<1>1. /\ \A g \in Hosts \ {h} : phase'[g] = phase[g] /\ at'[g] = at[g]
      /\ phase'[h] \in {"stopping", "stopped", "gave up"}
      /\ \A t \in Timers \ (off \cup {h}) : t \in armed' <=> t \in armed
      /\ armed' \subseteq armed \ off
      BY StopNextKeeps
<1>2. \A g \in Hosts : g \in Timers /\ g \notin off BY Apart
<1>3. \A g \in Hosts \ {h} : g \in armed => g \in armed' BY <1>1, <1>2
<1>4. phase'[h] = "stopping" => (h \in armed => h \in armed')
  <2>1. SUFFICES ASSUME phase'[h] = "stopping", h \in armed PROVE h \in armed' OBVIOUS
  <2>2. phase \in [Hosts -> {"starting", "running", "stopping", "stopped", "gave up"}]
        BY DEF Inv, TypeOK
  <2>3. Set(<<>>, off) BY <2>1, <2>2 DEF StopNext
  <2> QED BY <1>2, <2>1, <2>3 DEF Set
<1>5. \A g \in Hosts : phase'[g] = "stopping" =>
          phase[g] = "stopping" /\ (g \in armed => g \in armed' \cup expired')
  <2>1. TAKE g \in Hosts
  <2>2. CASE g = h BY <1>4, <2>2
  <2>3. CASE g # h BY <1>1, <1>3, <2>3
  <2> QED BY <2>2, <2>3
<1>6. armed' \subseteq {"loop", "tick", "delay"} \cup Hosts BY <1>1 DEF HostTimers
<1> QED BY <1>5, <1>6, HostTimersKept

LEMMA HostTimersStep ==
    ASSUME Inv, ProgramShape, HostTimers, [Next]_vars PROVE HostTimers'
<1>0. phase \in [Hosts -> {"starting", "running", "stopping", "stopped", "gave up"}]
      BY DEF Inv, TypeOK
<1>1. ASSUME NEW h \in Hosts, StartWeb(h) \/ StartAsync(h) PROVE HostTimers'
  <2>1. /\ program' = program /\ expired' = expired /\ phase[h] = "starting" /\ Started(h)
        /\ armed \subseteq armed' /\ armed' \subseteq armed \cup {"loop"}
        BY <1>1 DEF StartWeb, StartAsync, Set
  <2>2. \A g \in Hosts : phase'[g] = "stopping" => phase[g] = "stopping"
        BY <1>0, <2>1 DEF Started
  <2>3. armed' \subseteq {"loop", "tick", "delay"} \cup Hosts BY <2>1 DEF HostTimers
  <2> QED BY <2>1, <2>2, <2>3, HostTimersKept
<1>2. ASSUME NEW h \in Hosts, BeginStop(h) PROVE HostTimers'
  <2>1. /\ phase' = [phase EXCEPT ![h] = "stopping"]
        /\ CallStop(Service(h), [t \in {h} |-> program[h].timeout], {})
        /\ UNCHANGED <<program, expired>> /\ TimersTyped
        BY <1>2 DEF BeginStop, Inv
  <2>2. /\ h \in armed'
        /\ Service(h) = "console" => armed' = armed \cup {h, "tick", "delay"}
        /\ Service(h) # "console" => armed' = armed \cup {h}
        BY <2>1, CallStopSets
  <2>3. armed \cup {h} \subseteq armed' /\ armed' \subseteq armed \cup {h, "tick", "delay"}
        BY <2>2
  <2>4. Hosts' = Hosts BY <2>1 DEF Hosts
  <2>5. \A g \in Hosts : phase'[g] = "stopping" => g \in armed' \cup expired'
        BY <1>0, <2>1, <2>3 DEF HostTimers
  <2>6. armed' \subseteq {"loop", "tick", "delay"} \cup Hosts BY <2>3 DEF HostTimers
  <2> QED BY <2>4, <2>5, <2>6 DEF HostTimers
<1>3. ASSUME NEW h \in Hosts, DelayCompleted(h) PROVE HostTimers'
      BY <1>3, StopNextTimers DEF DelayCompleted
<1>4. ASSUME NEW h \in Hosts, WebStopped(h) PROVE HostTimers'
      BY <1>4, StopNextTimers DEF WebStopped
<1>5. ASSUME NEW h \in Hosts, TimeoutPasses(h) PROVE HostTimers'
  <2>1. /\ expired' = expired \cup {h} /\ armed' = armed \ {h}
        /\ UNCHANGED <<program, phase>>
        BY <1>5 DEF TimeoutPasses, Set
  <2> QED BY <2>1, HostTimersKept DEF HostTimers
<1>6. CASE LoopModel \/ TimerTick
  <2>1. /\ UNCHANGED <<program, phase, expired>>
        /\ armed \ {"loop", "tick"} \subseteq armed'
        /\ armed' \subseteq armed \cup {"loop", "tick"}
        BY <1>6 DEF LoopModel, TimerTick, Set
  <2>2. \A h \in Hosts : h \in armed => h \in armed' BY <2>1, Apart
  <2>3. armed' \subseteq {"loop", "tick", "delay"} \cup Hosts BY <2>1 DEF HostTimers
  <2> QED BY <2>1, <2>2, <2>3, HostTimersKept
<1>7. CASE CtrlC \/ Request \/ Tick \/ UNCHANGED vars
  <2>1. UNCHANGED <<program, phase, expired, armed>> BY <1>7 DEF CtrlC, Request, Tick, vars
  <2> QED BY <2>1, HostTimersKept DEF HostTimers
<1>8. Exit => UNCHANGED vars BY DEF Exit
<1> QED
  BY <1>1, <1>2, <1>3, <1>4, <1>5, <1>6, <1>7, <1>8 DEF Next, Running, HostStep

\* One of the hosts has the console service.
LEMMA SomeConsole ==
    ASSUME program \in Programs PROVE \E h \in Hosts : HasConsole(h)
<1>1. CASE program = WithWeb
  <2>1. "main" \in Hosts /\ Services("main") = <<"web", "console">>
        BY <1>1 DEF WithWeb, Hosts, Services
  <2>2. Last("main") = 2 BY <2>1 DEF Last
  <2> QED BY <2>1, <2>2 DEF HasConsole
<1>2. CASE program = WebApplication
  <2>1. "console" \in Hosts /\ Services("console") = <<"console">>
        BY <1>2 DEF WebApplication, Hosts, Services
  <2>2. Last("console") = 1 BY <2>1 DEF Last
  <2> QED BY <2>1, <2>2 DEF HasConsole
<1> QED BY <1>1, <1>2 DEF Programs

\* A host that stops has a bounded time to wait for each of its services, and
\* nothing holds up that time.
THEOREM ShutdownIsTimed == Spec => [](StoppingIsTimed /\ TimersTaken)
<1>1. Init => HostTimers BY DEF Init, HostTimers
<1>2. Inv => ProgramShape BY Shape DEF Inv, TypeOK
<1>3. Inv /\ HostTimers /\ [Next]_vars => HostTimers' BY <1>2, HostTimersStep
<1>4. Inv /\ HostTimers => StoppingIsTimed
  <2> SUFFICES ASSUME Inv, HostTimers, NEW h \in Hosts, phase[h] = "stopping"
               PROVE  IF Service(h) = "console" THEN "delay" \in armed /\ h \notin expired
                                                ELSE h \in armed \cup expired
      BY DEF StoppingIsTimed
  <2>1. h \in armed \cup expired BY DEF HostTimers
  <2>2. CASE Service(h) = "console"
    <3>1. at[h] \in 1 .. Last(h)
      <4>1. at[h] \in 0 .. 2 /\ at[h] >= 1 /\ at[h] <= Last(h) /\ Last(h) \in {1, 2}
            BY <1>2 DEF Inv, Placed, ProgramShape
      <4> QED BY <4>1
    <3>2. at[h] = Last(h) /\ HasConsole(h)
          BY <1>2, <2>2, <3>1 DEF ProgramShape, HasConsole, Service, Services
    <3>3. stop = "delay" BY <3>2 DEF Inv, ConsoleFollowsHost
    <3> QED BY <2>2, <3>2, <3>3 DEF Inv, SetWhileAwaited, Distances
  <2> QED BY <2>1, <2>2
<1>5. Inv /\ HostTimers => TimersTaken
  <2> SUFFICES ASSUME Inv, HostTimers, "delay" \in armed
               PROVE  \E h \in Hosts : phase[h] = "stopping" /\ Service(h) = "console"
      BY DEF HostTimers, TimersTaken
  <2>1. PICK h \in Hosts : HasConsole(h) BY SomeConsole DEF Inv, TypeOK
  <2>2. stop = "delay" BY DEF Inv, SetWhileAwaited
  <2>3. phase[h] = "stopping" /\ at[h] = Last(h) BY <2>1, <2>2 DEF Inv, ConsoleFollowsHost
  <2>4. Service(h) = "console" BY <2>1, <2>3 DEF HasConsole, Service, Services
  <2> QED BY <2>3, <2>4
<1> QED BY <1>1, <1>3, <1>4, <1>5, Invariance, PTL DEF Spec
=============================================================================
