---------------------------- MODULE MetricsServer ----------------------------
(***************************************************************************)
(* opentelemetry/OpenTelemetrySample,                                       *)
(* PrometheusExporterMetricsHttpServerCustom.cs: an HTTP listener that      *)
(* serves metrics from a worker thread.  Start and Stop share a lock, Stop  *)
(* holds it while it waits for the worker; Dispose looks at the listener    *)
(* without it; the worker reads the field tokenSource without it.           *)
(*                                                                          *)
(* Threads call Start, Stop and Dispose at any time.  The n-th Start that   *)
(* gets past its guard makes the n-th token source and the n-th worker.     *)
(***************************************************************************)
EXTENDS Naturals

CONSTANTS Callers,    \* the threads that call Start, Stop and Dispose
          NoCaller,   \* nobody
          Scrapers,   \* the clients that request the metrics
          MaxStarts   \* bound: workers ever started

ASSUME ServerConstants == NoCaller \notin Callers /\ MaxStarts \in Nat

Null == 0
Starts == 1 .. MaxStarts

VARIABLES
    tokenSource,   \* the field: Null, or the number of the Start that made it
    starts,        \* workers started so far; workerThread is the last of them
    linked,        \* the token sources linked to a token a caller passed in
    cancelled,     \* the token sources cancelled
    worker,        \* worker[n]: where the n-th WorkerThread stands
    listener,      \* httpListener: "new", "listening" or "closed"
    scrape,        \* scrape[s]: the request of s, "idle" when it has none
    lck,           \* who holds lck while waiting for the worker
    pc,            \* pc[c]: the method c is in, "idle" when in none
    disposed       \* history: a Dispose returned and Start made nothing since

vars == <<tokenSource, starts, linked, cancelled, worker, listener, scrape,
          lck, pc, disposed>>

Init ==
    /\ tokenSource = Null
    /\ starts = 0
    /\ linked = {}
    /\ cancelled = {}
    /\ worker = [n \in Starts |-> "none"]
    /\ listener = "new"
    /\ scrape = [s \in Scrapers |-> "idle"]
    /\ lck = NoCaller
    /\ pc = [c \in Callers |-> "idle"]
    /\ disposed = FALSE

-----------------------------------------------------------------------------
(* Start, Stop and Dispose                                                  *)

\* A new token source, linked to the caller's token or not, and its worker.
StartWorker(c) ==
    /\ pc[c] = "idle"
    /\ starts < MaxStarts
    /\ starts' = starts + 1
    /\ tokenSource' = starts + 1
    /\ worker' = [worker EXCEPT ![starts + 1] = "created"]
    /\ linked' \in {linked, linked \cup {starts + 1}}
    /\ disposed' = FALSE
    /\ UNCHANGED <<cancelled, listener, scrape, lck, pc>>

\* A plausible slip, a guard that asks whether the server is to be stopped.
StartIfCancelled(c) ==
    /\ lck = NoCaller
    /\ tokenSource \in cancelled \cup {Null}
    /\ StartWorker(c)

\* Start does nothing while there is a token source, though its worker may
\* have ended long ago.
Start(c) ==
    /\ lck = NoCaller
    /\ tokenSource = Null
    /\ StartWorker(c)

\* The token a caller passed to Start is cancelled by whoever owns it.
CancelToken(n) ==
    /\ n \in linked \ cancelled
    /\ cancelled' = cancelled \cup {n}
    /\ UNCHANGED <<tokenSource, starts, linked, worker, listener, scrape, lck, pc, disposed>>

\* The call of c returns, or throws, to its caller.
Return(c) ==
    /\ pc' = [pc EXCEPT ![c] = "idle"]
    /\ disposed' = (disposed \/ pc[c] = "dispose")

\* A plausible slip, the field cleared before the wait.
ForgetThenWait(c) ==
    /\ pc[c] \in {"idle", "dispose"}
    /\ lck = NoCaller
    /\ tokenSource # Null
    /\ cancelled' = cancelled \cup {tokenSource}
    /\ tokenSource' = Null
    /\ lck' = c
    /\ pc' = [pc EXCEPT ![c] = IF @ = "idle" THEN "stop" ELSE @]
    /\ UNCHANGED <<starts, linked, worker, listener, scrape, disposed>>

\* A plausible slip, the wait without the cancellation.
WaitOnly(c) ==
    /\ pc[c] \in {"idle", "dispose"}
    /\ lck = NoCaller
    /\ tokenSource # Null
    /\ lck' = c
    /\ pc' = [pc EXCEPT ![c] = IF @ = "idle" THEN "stop" ELSE @]
    /\ UNCHANGED <<tokenSource, starts, linked, cancelled, worker, listener, scrape, disposed>>

\* Stop, called by a user or by Dispose: takes the lock, cancels the token and
\* waits for the worker with the lock held.
BeginStop(c) ==
    /\ pc[c] \in {"idle", "dispose"}
    /\ lck = NoCaller
    /\ tokenSource # Null
    /\ cancelled' = cancelled \cup {tokenSource}
    /\ lck' = c
    /\ pc' = [pc EXCEPT ![c] = IF @ = "idle" THEN "stop" ELSE @]
    /\ UNCHANGED <<tokenSource, starts, linked, worker, listener, scrape, disposed>>

\* Another thread's Stop came first: Dispose finds nothing to stop.
NothingToStop(c) ==
    /\ pc[c] = "dispose"
    /\ lck = NoCaller
    /\ tokenSource = Null
    /\ Return(c)
    /\ UNCHANGED <<tokenSource, starts, linked, cancelled, worker, listener, scrape, lck>>

\* A plausible slip, a wait that gives up.
EndStopEarly(c) ==
    /\ lck = c
    /\ tokenSource' = Null
    /\ lck' = NoCaller
    /\ Return(c)
    /\ UNCHANGED <<starts, linked, cancelled, worker, listener, scrape>>

\* The worker has ended: the token source is forgotten.
EndStop(c) ==
    /\ lck = c
    /\ worker[starts] = "ended"
    /\ tokenSource' = Null
    /\ lck' = NoCaller
    /\ Return(c)
    /\ UNCHANGED <<starts, linked, cancelled, worker, listener, scrape>>

\* The worker ended with an exception: Wait throws it, Stop leaves the lock,
\* and the token source stays.
StopThrows(c) ==
    /\ lck = c
    /\ worker[starts] = "faulted"
    /\ lck' = NoCaller
    /\ Return(c)
    /\ UNCHANGED <<tokenSource, starts, linked, cancelled, worker, listener, scrape>>

\* Dispose goes on to Stop only when the listener is listening at this moment.
Dispose(c) ==
    /\ pc[c] = "idle"
    /\ IF listener = "listening"
       THEN pc' = [pc EXCEPT ![c] = "dispose"] /\ UNCHANGED disposed
       ELSE disposed' = TRUE /\ UNCHANGED pc
    /\ UNCHANGED <<tokenSource, starts, linked, cancelled, worker, listener, scrape, lck>>

-----------------------------------------------------------------------------
(* WorkerThread                                                             *)

Step(n, state) == worker' = [worker EXCEPT ![n] = state]

\* httpListener.Start(), before the try: it throws on a closed listener, and
\* when the address is taken, which closes the listener too.
Listen(n) ==
    /\ worker[n] = "created"
    /\ \/ /\ listener # "closed"
          /\ listener' = "listening"
          /\ Step(n, "loop")
       \/ /\ listener' = "closed"
          /\ Step(n, "faulted")
    /\ UNCHANGED <<tokenSource, starts, linked, cancelled, scrape, lck, pc, disposed>>

\* What the worker sees of the field: a cancelled source, or none at all (a
\* NullReferenceException, caught like any other), makes it leave its loop.
ToldToStop == tokenSource \in cancelled \cup {Null}

\* The head of the loop: stop, or GetContextAsync and wait for a request.
Loop(n) ==
    /\ worker[n] = "loop"
    /\ Step(n, IF ToldToStop THEN "leaving" ELSE "waiting")
    /\ UNCHANGED <<tokenSource, starts, linked, cancelled, listener, scrape, lck, pc, disposed>>

\* A plausible slip, ctxTask.Wait() without the token.
Deaf(n) == FALSE

\* A plausible slip, OperationCanceledException not caught: the task is canceled.
NotCaught(n) ==
    /\ worker[n] = "waiting"
    /\ ToldToStop
    /\ Step(n, "canceled")
    /\ UNCHANGED <<tokenSource, starts, linked, cancelled, listener, scrape, lck, pc, disposed>>

\* The wait ends with OperationCanceledException; a request may have come too.
Interrupted(n) ==
    /\ worker[n] = "waiting"
    /\ ToldToStop
    /\ Step(n, "leaving")
    /\ UNCHANGED <<tokenSource, starts, linked, cancelled, listener, scrape, lck, pc, disposed>>

\* The wait ends with the request of s.
Accept(n, s) ==
    /\ worker[n] = "waiting"
    /\ scrape[s] = "queued"
    /\ Step(n, "serving")
    /\ scrape' = [scrape EXCEPT ![s] = "accepted"]
    /\ UNCHANGED <<tokenSource, starts, linked, cancelled, listener, lck, pc, disposed>>

\* A plausible slip, the exception of a request that leaves the thread.
ServeOrDie(n, s) ==
    /\ worker[n] = "serving"
    /\ scrape[s] = "accepted"
    /\ \/ Step(n, "loop") /\ scrape' = [scrape EXCEPT ![s] = "idle"]
       \/ Step(n, "faulted") /\ UNCHANGED scrape
    /\ UNCHANGED <<tokenSource, starts, linked, cancelled, listener, lck, pc, disposed>>

\* A plausible slip, the response never closed: using left out.
NoUsing(n, s) ==
    /\ worker[n] = "serving"
    /\ scrape[s] = "accepted"
    /\ Step(n, "loop")
    /\ UNCHANGED <<tokenSource, starts, linked, cancelled, listener, scrape, lck, pc, disposed>>

\* The metrics are written and the worker goes on, or writing throws and it
\* leaves for good: the catch is outside the loop.
Serve(n, s) ==
    /\ worker[n] = "serving"
    /\ scrape[s] = "accepted"
    /\ \/ Step(n, "loop") /\ scrape' = [scrape EXCEPT ![s] = "idle"]
       \/ Step(n, "leaving") /\ UNCHANGED scrape
    /\ UNCHANGED <<tokenSource, starts, linked, cancelled, listener, lck, pc, disposed>>

\* The finally block: closing the listener resets the requests it still has.
Leave(n) ==
    /\ worker[n] = "leaving"
    /\ Step(n, "ended")
    /\ listener' = "closed"
    /\ scrape' = [s \in Scrapers |-> "idle"]
    /\ UNCHANGED <<tokenSource, starts, linked, cancelled, lck, pc, disposed>>

Work(n) ==
    \/ Listen(n) \/ Loop(n) \/ Interrupted(n) \/ Leave(n)
    \/ \E s \in Scrapers : Accept(n, s) \/ Serve(n, s)

\* A client connects; a listener that is not listening refuses it at once.
Connect(s) ==
    /\ listener = "listening"
    /\ scrape[s] = "idle"
    /\ scrape' = [scrape EXCEPT ![s] = "queued"]
    /\ UNCHANGED <<tokenSource, starts, linked, cancelled, worker, listener, lck, pc, disposed>>

-----------------------------------------------------------------------------
EndOfStop(c) == EndStop(c) \/ StopThrows(c)

Next ==
    \/ \E c \in Callers :
           Start(c) \/ BeginStop(c) \/ NothingToStop(c) \/ EndOfStop(c) \/ Dispose(c)
    \/ \E n \in Starts : CancelToken(n) \/ Work(n)
    \/ \E s \in Scrapers : Connect(s)

Spec == Init /\ [][Next]_vars

\* The worker has a thread of its own, a call that was made runs on, writing
\* the metrics of one request ends, and the listener hands out requests in the
\* order they came, none passed over for ever.  Nobody has to call or connect.
Fairness ==
    /\ \A n \in Starts :
           /\ WF_vars(Listen(n)) /\ WF_vars(Loop(n)) /\ WF_vars(Leave(n))
           /\ WF_vars(Interrupted(n))
           /\ \A s \in Scrapers : SF_vars(Accept(n, s)) /\ WF_vars(Serve(n, s))
    /\ \A c \in Callers :
           /\ WF_vars(pc[c] = "dispose" /\ BeginStop(c))
           /\ WF_vars(EndOfStop(c))

FairSpec == Spec /\ Fairness

-----------------------------------------------------------------------------
(* Properties                                                               *)

Stage == {"none", "created", "loop", "waiting", "serving", "leaving", "ended", "faulted"}

TypeOK ==
    /\ tokenSource \in {Null} \cup Starts
    /\ starts \in 0 .. MaxStarts
    /\ linked \subseteq Starts
    /\ cancelled \subseteq Starts
    /\ worker \in [Starts -> Stage]
    /\ listener \in {"new", "listening", "closed"}
    /\ scrape \in [Scrapers -> {"idle", "queued", "accepted"}]
    /\ lck \in Callers \cup {NoCaller}
    /\ pc \in [Callers -> {"idle", "stop", "dispose"}]
    /\ disposed \in BOOLEAN

Alive(n) == worker[n] \in {"created", "loop", "waiting", "serving", "leaving"}

\* A worker that runs reads its own token source from the field, though it
\* reads it without the lock: never null, never that of a later Start.  So two
\* workers never run at once on the listener they share.
WorkerHasItsToken == \A n \in Starts : Alive(n) => tokenSource = n

\* When Stop has forgotten the token source there is nothing left of the
\* server: no listener open, no request unanswered.
StoppedIsQuiet ==
    tokenSource = Null =>
        listener # "listening" /\ \A s \in Scrapers : scrape[s] = "idle"

\* Only a worker that is serving holds a request, and only one: none is left
\* unanswered behind a worker that has gone back to waiting or has ended.
HeldByTheWorker ==
    \A s, t \in Scrapers : scrape[s] = "accepted" =>
        /\ \E n \in Starts : worker[n] \in {"serving", "leaving"}
        /\ scrape[t] = "accepted" => s = t

\* Stop never hangs: the worker it waits for, lock in hand, ends whatever it
\* is doing, and the lock is free again.
StopEnds == \A c \in Callers : lck = c ~> lck # c

\* A Dispose that found the listener listening closes it, though it looked
\* without the lock and other threads start and stop meanwhile.
DisposeCloses == \A c \in Callers : pc[c] = "dispose" ~> listener = "closed"

\* No client hangs: every request is answered, or reset with the listener.
ScrapeEnds == \A s \in Scrapers : scrape[s] # "idle" ~> scrape[s] = "idle"

\* Once Dispose returned and nobody calls Start again, nothing listens.
DisposedIsQuiet == disposed => listener # "listening"
=============================================================================
