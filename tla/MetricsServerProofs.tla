------------------------- MODULE MetricsServerProofs -------------------------
(***************************************************************************)
(* Proofs about MetricsServer, for any sets of callers and clients and any  *)
(* number of starts.  The worker and Stop share no lock; what keeps them    *)
(* apart is that Stop clears the field only after the worker has ended, so  *)
(* that the number in the field is always that of the last worker started.  *)
(***************************************************************************)
EXTENDS MetricsServer, TLAPS

\* The field holds the last token source made, or nothing; only the workers
\* up to that one have ever been started.
LastStarted ==
    /\ tokenSource \in {Null, starts}
    /\ \A n \in Starts : worker[n] = "none" <=> n > starts

\* Whoever holds the lock waits for the worker of the token source.
LockMeansToken == lck # NoCaller => tokenSource # Null

Serving(n) == worker[n] \in {"loop", "waiting", "serving", "leaving"}

\* The listener listens exactly while a worker is past its httpListener.Start.
ListenerHasWorker ==
    /\ \A n \in Starts : Serving(n) => listener = "listening"
    /\ listener = "listening" => \E n \in Starts : Serving(n)

\* Requests exist only while the listener listens.
RequestsNeedListener ==
    listener # "listening" => \A s \in Scrapers : scrape[s] = "idle"

\* At most one request is accepted, and none once the worker waits again.
OneAccepted ==
    /\ \A s, t \in Scrapers : scrape[s] = "accepted" /\ scrape[t] = "accepted" => s = t
    /\ \A n \in Starts : worker[n] \in {"loop", "waiting"} =>
           \A s \in Scrapers : scrape[s] # "accepted"

Inv ==
    /\ TypeOK
    /\ LastStarted
    /\ WorkerHasItsToken
    /\ LockMeansToken
    /\ ListenerHasWorker
    /\ RequestsNeedListener
    /\ OneAccepted

-----------------------------------------------------------------------------
\* The invariant holds at the start, when nothing has been started.
LEMMA InitInv == Init => Inv
<1> SUFFICES ASSUME Init PROVE Inv
  OBVIOUS
<1> USE ServerConstants DEF Init, Starts
<1>1. TypeOK
  <2>1. worker \in [Starts -> Stage]
    BY DEF Stage
  <2>2. /\ tokenSource \in {Null} \cup Starts /\ starts \in 0 .. MaxStarts
        /\ linked \subseteq Starts /\ cancelled \subseteq Starts
    BY DEF Null
  <2>3. scrape \in [Scrapers -> {"idle", "queued", "accepted"}]
    OBVIOUS
  <2>4. pc \in [Callers -> {"idle", "stop", "dispose"}] /\ lck \in Callers \cup {NoCaller}
    OBVIOUS
  <2>5. listener \in {"new", "listening", "closed"} /\ disposed \in BOOLEAN
    OBVIOUS
  <2> QED
    BY <2>1, <2>2, <2>3, <2>4, <2>5 DEF TypeOK
<1>2. LastStarted /\ WorkerHasItsToken /\ LockMeansToken
  BY DEF LastStarted, WorkerHasItsToken, LockMeansToken, Alive
<1>3. ListenerHasWorker /\ RequestsNeedListener /\ OneAccepted
  BY DEF ListenerHasWorker, Serving, RequestsNeedListener, OneAccepted
<1> QED
  BY <1>1, <1>2, <1>3 DEF Inv

\* Every step keeps the types.
LEMMA TypeStep == TypeOK /\ [Next]_vars => TypeOK'
<1> SUFFICES ASSUME TypeOK, [Next]_vars PROVE TypeOK'
  OBVIOUS
<1> USE ServerConstants DEF TypeOK, Stage, Starts, Null
<1>1. ASSUME NEW c \in Callers, Start(c) PROVE TypeOK'
  <2>0. disposed' \in BOOLEAN
    BY <1>1 DEF Start, StartWorker
  <2>1. starts + 1 \in Starts
    BY <1>1 DEF Start, StartWorker
  <2>2. worker' \in [Starts -> Stage]
    BY <2>1, <1>1 DEF Start, StartWorker
  <2>3. linked' \subseteq Starts /\ tokenSource' \in Starts /\ starts' \in 0 .. MaxStarts
    BY <2>1, <1>1 DEF Start, StartWorker
  <2> QED
    BY <2>0, <2>1, <2>2, <2>3, <1>1 DEF Start, StartWorker
<1>2. ASSUME NEW n \in Starts, CancelToken(n) PROVE TypeOK'
  BY <1>2 DEF CancelToken
<1>3. ASSUME NEW c \in Callers, BeginStop(c) PROVE TypeOK'
  BY <1>3 DEF BeginStop
<1>4. ASSUME NEW c \in Callers, NothingToStop(c) PROVE TypeOK'
  BY <1>4 DEF NothingToStop, Return
<1>5. ASSUME NEW c \in Callers, EndStop(c) PROVE TypeOK'
  BY <1>5 DEF EndStop, Return
<1>6. ASSUME NEW c \in Callers, StopThrows(c) PROVE TypeOK'
  BY <1>6 DEF StopThrows, Return
<1>7. ASSUME NEW c \in Callers, Dispose(c) PROVE TypeOK'
  BY <1>7 DEF Dispose
<1>8. ASSUME NEW n \in Starts, Listen(n) PROVE TypeOK'
  BY <1>8 DEF Listen, Step
<1>9. ASSUME NEW n \in Starts, Loop(n) PROVE TypeOK'
  BY <1>9 DEF Loop, Step
<1>10. ASSUME NEW n \in Starts, Interrupted(n) PROVE TypeOK'
  BY <1>10 DEF Interrupted, Step
<1>11. ASSUME NEW n \in Starts, Leave(n) PROVE TypeOK'
  BY <1>11 DEF Leave, Step
<1>12. ASSUME NEW n \in Starts, NEW s \in Scrapers, Accept(n, s) PROVE TypeOK'
  BY <1>12 DEF Accept, Step
<1>13. ASSUME NEW n \in Starts, NEW s \in Scrapers, Serve(n, s) PROVE TypeOK'
  BY <1>13 DEF Serve, Step
<1>14. ASSUME NEW s \in Scrapers, Connect(s) PROVE TypeOK'
  BY <1>14 DEF Connect
<1>15. CASE UNCHANGED vars
  BY <1>15 DEF vars
<1> QED
  BY <1>1, <1>2, <1>3, <1>4, <1>5, <1>6, <1>7, <1>8, <1>9, <1>10, <1>11, <1>12, <1>13,
     <1>14, <1>15 DEF Next, Work, EndOfStop

\* Every step keeps the whole invariant.
LEMMA InvStep == Inv /\ [Next]_vars => Inv'
<1> SUFFICES ASSUME Inv, [Next]_vars PROVE Inv'
  OBVIOUS
<1>0. TypeOK /\ TypeOK'
  BY TypeStep DEF Inv
<1> USE DEF Inv
<1>1. ASSUME NEW c \in Callers, Start(c) PROVE Inv'
  <2>1. RequestsNeedListener'
    BY <1>1 DEF Start, StartWorker, RequestsNeedListener
  <2>2. LastStarted'
    BY <1>0, <1>1 DEF Start, StartWorker, TypeOK, Starts, LastStarted, Null
  <2>3. WorkerHasItsToken'
    BY <1>0, <1>1 DEF Start, StartWorker, TypeOK, Starts, LastStarted, WorkerHasItsToken,
       Alive, Null
  <2>4. LockMeansToken'
    BY <1>0, <1>1 DEF Start, StartWorker, TypeOK, Starts, LockMeansToken, LastStarted, Null
  <2>5. ListenerHasWorker'
    BY <1>0, <1>1 DEF Start, StartWorker, TypeOK, Starts, ListenerHasWorker, Serving,
       WorkerHasItsToken, Alive, LastStarted
  <2>6. OneAccepted'
    BY <1>0, <1>1 DEF Start, StartWorker, TypeOK, Starts, OneAccepted,
       RequestsNeedListener, ListenerHasWorker, Serving, WorkerHasItsToken, Alive
  <2> QED
    BY <1>0, <2>1, <2>2, <2>3, <2>4, <2>5, <2>6
<1>2. ASSUME NEW n \in Starts, CancelToken(n) PROVE Inv'
  <2>1. /\ LastStarted'
        /\ WorkerHasItsToken'
        /\ LockMeansToken'
        /\ ListenerHasWorker'
        /\ RequestsNeedListener'
        /\ OneAccepted'
    BY <1>2 DEF CancelToken, Alive, LastStarted, ListenerHasWorker, LockMeansToken,
       OneAccepted, RequestsNeedListener, Serving, WorkerHasItsToken
  <2> QED
    BY <1>0, <2>1
<1>3. ASSUME NEW c \in Callers, BeginStop(c) PROVE Inv'
  <2>1. /\ LastStarted'
        /\ WorkerHasItsToken'
        /\ ListenerHasWorker'
        /\ RequestsNeedListener'
        /\ OneAccepted'
    BY <1>3 DEF BeginStop, Alive, LastStarted, ListenerHasWorker, OneAccepted,
       RequestsNeedListener, Serving, WorkerHasItsToken
  <2>2. LockMeansToken'
    BY <1>0, <1>3 DEF BeginStop, TypeOK, Starts, LockMeansToken, LastStarted, Null
  <2> QED
    BY <1>0, <2>1, <2>2
<1>4. ASSUME NEW c \in Callers, NothingToStop(c) PROVE Inv'
  <2>1. /\ LastStarted'
        /\ WorkerHasItsToken'
        /\ LockMeansToken'
        /\ ListenerHasWorker'
        /\ RequestsNeedListener'
        /\ OneAccepted'
    BY <1>4 DEF NothingToStop, Return, Alive, LastStarted, ListenerHasWorker,
       LockMeansToken, OneAccepted, RequestsNeedListener, Serving, WorkerHasItsToken
  <2> QED
    BY <1>0, <2>1
<1>5. ASSUME NEW c \in Callers, EndStop(c) PROVE Inv'
  <2>1. /\ ListenerHasWorker'
        /\ RequestsNeedListener'
        /\ OneAccepted'
    BY <1>5 DEF EndStop, Return, ListenerHasWorker, OneAccepted, RequestsNeedListener,
       Serving
  <2>2. LastStarted'
    BY <1>0, <1>5 DEF EndStop, Return, TypeOK, Starts, LastStarted, Null
  <2>3. WorkerHasItsToken'
    BY <1>0, <1>5 DEF EndStop, Return, TypeOK, Starts, LastStarted, WorkerHasItsToken,
       Alive, Null
  <2>4. LockMeansToken'
    BY <1>0, <1>5 DEF EndStop, Return, TypeOK, Starts, LockMeansToken, LastStarted, Null
  <2> QED
    BY <1>0, <2>1, <2>2, <2>3, <2>4
<1>6. ASSUME NEW c \in Callers, StopThrows(c) PROVE Inv'
  <2>1. /\ LastStarted'
        /\ WorkerHasItsToken'
        /\ ListenerHasWorker'
        /\ RequestsNeedListener'
        /\ OneAccepted'
    BY <1>6 DEF StopThrows, Return, Alive, LastStarted, ListenerHasWorker, OneAccepted,
       RequestsNeedListener, Serving, WorkerHasItsToken
  <2>2. LockMeansToken'
    BY <1>0, <1>6 DEF StopThrows, Return, TypeOK, Starts, LockMeansToken, LastStarted, Null
  <2> QED
    BY <1>0, <2>1, <2>2
<1>7. ASSUME NEW c \in Callers, Dispose(c) PROVE Inv'
  <2>1. /\ LastStarted'
        /\ WorkerHasItsToken'
        /\ LockMeansToken'
        /\ ListenerHasWorker'
        /\ RequestsNeedListener'
        /\ OneAccepted'
    BY <1>7 DEF Dispose, Alive, LastStarted, ListenerHasWorker, LockMeansToken,
       OneAccepted, RequestsNeedListener, Serving, WorkerHasItsToken
  <2> QED
    BY <1>0, <2>1
<1>8. ASSUME NEW n \in Starts, Listen(n) PROVE Inv'
  <2>1. LockMeansToken'
    BY <1>8 DEF Listen, Step, LockMeansToken
  <2>2. LastStarted'
    BY <1>0, <1>8 DEF Listen, Step, TypeOK, Starts, LastStarted, Null
  <2>3. WorkerHasItsToken'
    BY <1>0, <1>8 DEF Listen, Step, TypeOK, Starts, LastStarted, WorkerHasItsToken, Alive,
       Null
  <2>4. ListenerHasWorker'
    BY <1>0, <1>8 DEF Listen, Step, TypeOK, Starts, ListenerHasWorker, Serving,
       WorkerHasItsToken, Alive, LastStarted
  <2>5. RequestsNeedListener'
    BY <1>0, <1>8 DEF Listen, Step, TypeOK, Starts, RequestsNeedListener,
       ListenerHasWorker, Serving, WorkerHasItsToken, Alive
  <2>6. OneAccepted'
    BY <1>0, <1>8 DEF Listen, Step, TypeOK, Starts, OneAccepted, RequestsNeedListener,
       ListenerHasWorker, Serving, WorkerHasItsToken, Alive
  <2> QED
    BY <1>0, <2>1, <2>2, <2>3, <2>4, <2>5, <2>6
<1>9. ASSUME NEW n \in Starts, Loop(n) PROVE Inv'
  <2>1. /\ LockMeansToken'
        /\ RequestsNeedListener'
    BY <1>9 DEF Loop, Step, LockMeansToken, RequestsNeedListener
  <2>2. LastStarted'
    BY <1>0, <1>9 DEF Loop, Step, TypeOK, Starts, LastStarted, Null
  <2>3. WorkerHasItsToken'
    BY <1>0, <1>9 DEF Loop, Step, TypeOK, Starts, LastStarted, WorkerHasItsToken, Alive,
       Null
  <2>4. ListenerHasWorker'
    BY <1>0, <1>9 DEF Loop, Step, TypeOK, Starts, ListenerHasWorker, Serving,
       WorkerHasItsToken, Alive, LastStarted
  <2>5. OneAccepted'
    BY <1>0, <1>9 DEF Loop, Step, TypeOK, Starts, OneAccepted, RequestsNeedListener,
       ListenerHasWorker, Serving, WorkerHasItsToken, Alive
  <2> QED
    BY <1>0, <2>1, <2>2, <2>3, <2>4, <2>5
<1>10. ASSUME NEW n \in Starts, Interrupted(n) PROVE Inv'
  <2>1. /\ LockMeansToken'
        /\ RequestsNeedListener'
    BY <1>10 DEF Interrupted, Step, LockMeansToken, RequestsNeedListener
  <2>2. LastStarted'
    BY <1>0, <1>10 DEF Interrupted, Step, TypeOK, Starts, LastStarted, Null
  <2>3. WorkerHasItsToken'
    BY <1>0, <1>10 DEF Interrupted, Step, TypeOK, Starts, LastStarted, WorkerHasItsToken,
       Alive, Null
  <2>4. ListenerHasWorker'
    BY <1>0, <1>10 DEF Interrupted, Step, TypeOK, Starts, ListenerHasWorker, Serving,
       WorkerHasItsToken, Alive, LastStarted
  <2>5. OneAccepted'
    BY <1>0, <1>10 DEF Interrupted, Step, TypeOK, Starts, OneAccepted,
       RequestsNeedListener, ListenerHasWorker, Serving, WorkerHasItsToken, Alive
  <2> QED
    BY <1>0, <2>1, <2>2, <2>3, <2>4, <2>5
<1>11. ASSUME NEW n \in Starts, Leave(n) PROVE Inv'
  <2>1. LockMeansToken'
    BY <1>11 DEF Leave, Step, LockMeansToken
  <2>2. LastStarted'
    BY <1>0, <1>11 DEF Leave, Step, TypeOK, Starts, LastStarted, Null
  <2>3. WorkerHasItsToken'
    BY <1>0, <1>11 DEF Leave, Step, TypeOK, Starts, LastStarted, WorkerHasItsToken, Alive,
       Null
  <2>4. ListenerHasWorker'
    BY <1>0, <1>11 DEF Leave, Step, TypeOK, Starts, ListenerHasWorker, Serving,
       WorkerHasItsToken, Alive, LastStarted
  <2>5. RequestsNeedListener'
    BY <1>0, <1>11 DEF Leave, Step, TypeOK, Starts, RequestsNeedListener,
       ListenerHasWorker, Serving, WorkerHasItsToken, Alive
  <2>6. OneAccepted'
    BY <1>0, <1>11 DEF Leave, Step, TypeOK, Starts, OneAccepted, RequestsNeedListener,
       ListenerHasWorker, Serving, WorkerHasItsToken, Alive
  <2> QED
    BY <1>0, <2>1, <2>2, <2>3, <2>4, <2>5, <2>6
<1>12. ASSUME NEW n \in Starts, NEW s \in Scrapers, Accept(n, s) PROVE Inv'
  <2>1. LockMeansToken'
    BY <1>12 DEF Accept, Step, LockMeansToken
  <2>2. LastStarted'
    BY <1>0, <1>12 DEF Accept, Step, TypeOK, Starts, LastStarted, Null
  <2>3. WorkerHasItsToken'
    BY <1>0, <1>12 DEF Accept, Step, TypeOK, Starts, LastStarted, WorkerHasItsToken,
       Alive, Null
  <2>4. ListenerHasWorker'
    BY <1>0, <1>12 DEF Accept, Step, TypeOK, Starts, ListenerHasWorker, Serving,
       WorkerHasItsToken, Alive, LastStarted
  <2>5. RequestsNeedListener'
    BY <1>0, <1>12 DEF Accept, Step, TypeOK, Starts, RequestsNeedListener,
       ListenerHasWorker, Serving, WorkerHasItsToken, Alive
  <2>6. OneAccepted'
    BY <1>0, <1>12 DEF Accept, Step, TypeOK, Starts, OneAccepted, RequestsNeedListener,
       ListenerHasWorker, Serving, WorkerHasItsToken, Alive
  <2> QED
    BY <1>0, <2>1, <2>2, <2>3, <2>4, <2>5, <2>6
<1>13. ASSUME NEW n \in Starts, NEW s \in Scrapers, Serve(n, s) PROVE Inv'
  <2>1. LockMeansToken'
    BY <1>13 DEF Serve, Step, LockMeansToken
  <2>2. LastStarted'
    BY <1>0, <1>13 DEF Serve, Step, TypeOK, Starts, LastStarted, Null
  <2>3. WorkerHasItsToken'
    BY <1>0, <1>13 DEF Serve, Step, TypeOK, Starts, LastStarted, WorkerHasItsToken, Alive,
       Null
  <2>4. ListenerHasWorker'
    BY <1>0, <1>13 DEF Serve, Step, TypeOK, Starts, ListenerHasWorker, Serving,
       WorkerHasItsToken, Alive, LastStarted
  <2>5. RequestsNeedListener'
    BY <1>0, <1>13 DEF Serve, Step, TypeOK, Starts, RequestsNeedListener,
       ListenerHasWorker, Serving, WorkerHasItsToken, Alive
  <2>6. OneAccepted'
    BY <1>0, <1>13 DEF Serve, Step, TypeOK, Starts, OneAccepted, RequestsNeedListener,
       ListenerHasWorker, Serving, WorkerHasItsToken, Alive
  <2> QED
    BY <1>0, <2>1, <2>2, <2>3, <2>4, <2>5, <2>6
<1>14. ASSUME NEW s \in Scrapers, Connect(s) PROVE Inv'
  <2>1. /\ LastStarted'
        /\ WorkerHasItsToken'
        /\ LockMeansToken'
        /\ ListenerHasWorker'
    BY <1>14 DEF Connect, Alive, LastStarted, ListenerHasWorker, LockMeansToken, Serving,
       WorkerHasItsToken
  <2>2. RequestsNeedListener'
    BY <1>0, <1>14 DEF Connect, TypeOK, Starts, RequestsNeedListener, ListenerHasWorker,
       Serving, WorkerHasItsToken, Alive
  <2>3. OneAccepted'
    BY <1>0, <1>14 DEF Connect, TypeOK, Starts, OneAccepted, RequestsNeedListener,
       ListenerHasWorker, Serving, WorkerHasItsToken, Alive
  <2> QED
    BY <1>0, <2>1, <2>2, <2>3
<1>15. CASE UNCHANGED vars
  BY <1>15 DEF vars, LastStarted, WorkerHasItsToken, Alive, LockMeansToken,
     ListenerHasWorker, Serving, RequestsNeedListener, OneAccepted, TypeOK
<1> QED
  BY <1>1, <1>2, <1>3, <1>4, <1>5, <1>6, <1>7, <1>8, <1>9, <1>10, <1>11, <1>12, <1>13,
     <1>14, <1>15 DEF Next, Work, EndOfStop

-----------------------------------------------------------------------------
(* Theorems                                                                 *)

\* The invariant holds in every reachable state.
THEOREM Invariance == Spec => []Inv
<1>1. Init => Inv
  BY InitInv
<1>2. Inv /\ [Next]_vars => Inv'
  BY InvStep
<1> QED
  BY <1>1, <1>2, PTL DEF Spec

\* The variables keep their types.
THEOREM TypeCorrect == Spec => []TypeOK
<1>1. Inv => TypeOK
  BY DEF Inv
<1> QED
  BY <1>1, Invariance, PTL

\* A running worker always finds its own token source in the field it reads
\* without the lock, whoever starts, stops and disposes meanwhile.
THEOREM OwnToken == Spec => []WorkerHasItsToken
<1>1. Inv => WorkerHasItsToken
  BY DEF Inv
<1> QED
  BY <1>1, Invariance, PTL

\* Two workers never run on the listener they share.
OneWorker == \A m, n \in Starts : Alive(m) /\ Alive(n) => m = n

\* It follows, for any callers: at most one WorkerThread runs at a time.
THEOREM NeverTwoWorkers == Spec => []OneWorker
<1>1. Inv => OneWorker
  BY DEF Inv, WorkerHasItsToken, OneWorker
<1> QED
  BY <1>1, Invariance, PTL

\* After a Stop that returned nothing listens and no request is left.
THEOREM StoppedMeansQuiet == Spec => []StoppedIsQuiet
<1>1. Inv => StoppedIsQuiet
  BY DEF Inv, StoppedIsQuiet, RequestsNeedListener, ListenerHasWorker, WorkerHasItsToken,
     Serving, Alive, Null, Starts
<1> QED
  BY <1>1, Invariance, PTL

\* An accepted request is in the hands of a worker, which has no other.
THEOREM NoRequestForgotten == Spec => []HeldByTheWorker
<1>1. Inv => HeldByTheWorker
  <2> SUFFICES ASSUME Inv, NEW s \in Scrapers, NEW t \in Scrapers, scrape[s] = "accepted"
               PROVE  /\ \E n \in Starts : worker[n] \in {"serving", "leaving"}
                      /\ scrape[t] = "accepted" => s = t
    BY DEF HeldByTheWorker
  <2>1. listener = "listening"
    BY DEF Inv, RequestsNeedListener
  <2>2. PICK n \in Starts : Serving(n)
    BY <2>1 DEF Inv, ListenerHasWorker
  <2>3. worker[n] \in {"serving", "leaving"}
    BY <2>2 DEF Inv, OneAccepted, Serving
  <2> QED
    BY <2>3 DEF Inv, OneAccepted
<1> QED
  BY <1>1, Invariance, PTL

-----------------------------------------------------------------------------
(* The server, as its clients see it                                        *)

Http == INSTANCE HttpServer WITH Clients <- Scrapers, server <- listener, request <- scrape

\* A worker about to start the listener finds it new, or closed for good.
LEMMA ListenOnce ==
    ASSUME Inv, NEW n \in Starts, worker[n] = "created" PROVE listener # "listening"
<1>1. SUFFICES ASSUME listener = "listening" PROVE FALSE
  OBVIOUS
<1>2. PICK m \in Starts : Serving(m)
  BY <1>1 DEF Inv, ListenerHasWorker
<1>3. Alive(m) /\ Alive(n)
  BY <1>2 DEF Alive, Serving
<1>4. m = n
  BY <1>3 DEF Inv, WorkerHasItsToken
<1> QED
  BY <1>2, <1>4 DEF Serving

\* Whatever the callers do, every step of the worker and of the clients is a
\* step of a server that opens once, serves one request at a time and closes
\* for good, or changes nothing its clients see: it implements HttpServer.
THEOREM ImplementsServer == Spec => Http!Spec
<1>1. Init => Http!Init
  BY DEF Init, Http!Init
<1>2. Inv /\ [Next]_vars => [Http!Next]_Http!serverVars
  <2> SUFFICES ASSUME Inv, [Next]_vars PROVE [Http!Next]_Http!serverVars
    OBVIOUS
  <2> USE DEF Http!serverVars
  <2>1. ASSUME NEW c \in Callers,
               Start(c) \/ BeginStop(c) \/ NothingToStop(c) \/ EndOfStop(c) \/ Dispose(c)
        PROVE  UNCHANGED <<listener, scrape>>
    BY <2>1 DEF Start, StartWorker, BeginStop, NothingToStop, EndOfStop, EndStop, StopThrows,
       Dispose
  <2>2. ASSUME NEW n \in Starts, CancelToken(n) \/ Loop(n) \/ Interrupted(n)
        PROVE  UNCHANGED <<listener, scrape>>
    BY <2>2 DEF CancelToken, Loop, Interrupted
  <2>3. ASSUME NEW n \in Starts, Listen(n) PROVE [Http!Next]_Http!serverVars
    <3>1. listener \in {"new", "closed"}
      BY <2>3, ListenOnce DEF Listen, Inv, TypeOK
    <3>2. CASE listener = "new"
      <4>1. scrape' = scrape /\ listener' \in {"listening", "closed"}
        BY <2>3 DEF Listen
      <4> QED
        BY <3>2, <4>1 DEF Http!Next, Http!Open, Http!OpenFails
    <3>3. CASE listener = "closed"
      BY <2>3, <3>3 DEF Listen
    <3> QED
      BY <3>1, <3>2, <3>3
  <2>4. ASSUME NEW n \in Starts, NEW s \in Scrapers, Accept(n, s) \/ Serve(n, s)
        PROVE  [Http!Next]_Http!serverVars
    <3>1. worker[n] \in {"waiting", "serving"} /\ listener' = listener
      BY <2>4 DEF Accept, Serve
    <3>2. listener = "listening"
      BY <3>1 DEF Inv, ListenerHasWorker, Serving
    <3>3. CASE Accept(n, s)
      <4>1. \A t \in Scrapers : scrape[t] # "accepted"
        BY <3>3 DEF Accept, Inv, OneAccepted
      <4>2. Http!Accept(s)
        BY <3>1, <3>2, <3>3, <4>1 DEF Accept, Http!Accept
      <4> QED
        BY <4>2 DEF Http!Next
    <3>4. CASE Serve(n, s)
      <4>1. CASE scrape' = [scrape EXCEPT ![s] = "idle"]
        <5>1. Http!Answer(s)
          BY <3>1, <3>2, <3>4, <4>1 DEF Serve, Http!Answer
        <5> QED
          BY <5>1 DEF Http!Next
      <4>2. CASE scrape' = scrape
        BY <3>1, <4>2
      <4> QED
        BY <3>4, <4>1, <4>2 DEF Serve
    <3> QED
      BY <2>4, <3>3, <3>4
  <2>5. ASSUME NEW n \in Starts, Leave(n) PROVE [Http!Next]_Http!serverVars
    <3>1. listener = "listening"
      BY <2>5 DEF Leave, Inv, ListenerHasWorker, Serving
    <3>2. Http!Close
      BY <2>5, <3>1 DEF Leave, Http!Close
    <3> QED
      BY <3>2 DEF Http!Next
  <2>6. ASSUME NEW s \in Scrapers, Connect(s) PROVE [Http!Next]_Http!serverVars
    <3>1. Http!Connect(s)
      BY <2>6 DEF Connect, Http!Connect
    <3> QED
      BY <3>1 DEF Http!Next
  <2>7. CASE UNCHANGED vars
    BY <2>7 DEF vars
  <2> QED
    BY <2>1, <2>2, <2>3, <2>4, <2>5, <2>6, <2>7 DEF Next, Work
<1> QED
  BY <1>1, <1>2, Invariance, PTL DEF Spec, Http!Spec

-----------------------------------------------------------------------------
(* What Stop waits for                                                      *)

\* Whoever holds the lock has cancelled the token source it waits for, and a
\* worker that is serving has a request to answer.
StopInv ==
    /\ lck # NoCaller => tokenSource \in cancelled
    /\ \A n \in Starts : worker[n] = "serving" => \E s \in Scrapers : scrape[s] = "accepted"

\* The worker Stop waits for has ended, or can make a step: what it needs for
\* the next is there, whatever clients and other callers do.
NeverStuck ==
    lck # NoCaller =>
        \/ worker[starts] \in {"created", "loop", "leaving", "ended", "faulted"}
        \/ worker[starts] = "waiting" /\ ToldToStop
        \/ worker[starts] = "serving" /\ \E s \in Scrapers : scrape[s] = "accepted"

\* The steps a worker that is told to stop has left at most.
StepsLeft(stage) ==
    CASE stage = "waiting" -> 4
      [] stage \in {"created", "serving"} -> 3
      [] stage = "loop" -> 2
      [] stage = "leaving" -> 1
      [] OTHER -> 0

\* While the lock is held, every step of a worker is one of those, and no other
\* step adds to them.
StopGetsNearer ==
    lck # NoCaller =>
        \/ worker' = worker
        \/ StepsLeft(worker'[starts]) < StepsLeft(worker[starts])

\* A caller waits only for a token source it has cancelled, and nobody else
\* changes that before the lock is free.
LEMMA StopInvStep ==
    ASSUME Inv, StopInv, [Next]_vars
    PROVE  StopInv'
<1>1. (lck # NoCaller => tokenSource \in cancelled)'
  <2>1. ASSUME NEW c \in Callers, Start(c) PROVE lck' = NoCaller
        BY <2>1 DEF Start, StartWorker
  <2>2. ASSUME NEW c \in Callers, BeginStop(c) PROVE tokenSource' \in cancelled'
        BY <2>2 DEF BeginStop
  <2>3. ASSUME NEW c \in Callers, EndOfStop(c) PROVE lck' = NoCaller
        BY <2>3 DEF EndOfStop, EndStop, StopThrows
  <2>4. ASSUME NEW n \in Starts, CancelToken(n)
        PROVE  lck' = lck /\ tokenSource' = tokenSource /\ cancelled \subseteq cancelled'
        BY <2>4 DEF CancelToken
  <2>5. ASSUME \/ \E c \in Callers : NothingToStop(c) \/ Dispose(c)
               \/ \E n \in Starts : Work(n)
               \/ \E s \in Scrapers : Connect(s)
               \/ UNCHANGED vars
        PROVE  UNCHANGED <<lck, tokenSource, cancelled>>
        BY <2>5 DEF NothingToStop, Dispose, Work, Listen, Loop, Interrupted, Leave, Accept,
                    Serve, Connect, vars
  <2> QED BY <2>1, <2>2, <2>3, <2>4, <2>5 DEF StopInv, Next
<1>2. ASSUME NEW n \in Starts, worker'[n] = "serving"
      PROVE  \E s \in Scrapers : scrape'[s] = "accepted"
  <2> DEFINE Served == \E s \in Scrapers : scrape'[s] = "accepted"
  <2>1. ASSUME worker[n] = "serving", UNCHANGED scrape PROVE Served
        BY <2>1 DEF StopInv
  <2>2. ASSUME \/ \E c \in Callers : BeginStop(c) \/ NothingToStop(c) \/ EndOfStop(c) \/ Dispose(c)
               \/ \E m \in Starts : CancelToken(m)
               \/ UNCHANGED vars
        PROVE  UNCHANGED <<worker, scrape>>
        BY <2>2 DEF BeginStop, NothingToStop, EndOfStop, EndStop, StopThrows, Dispose,
                    CancelToken, vars
  <2>3. ASSUME NEW c \in Callers, Start(c) PROVE worker[n] = "serving" /\ UNCHANGED scrape
        BY <1>2, <2>3 DEF Start, StartWorker, Inv, TypeOK, Starts
  <2>4. ASSUME NEW m \in Starts, Listen(m) \/ Loop(m) \/ Interrupted(m)
        PROVE  worker[n] = "serving" /\ UNCHANGED scrape
        BY <1>2, <2>4 DEF Listen, Loop, Interrupted, Step, Inv, TypeOK
  <2>5. ASSUME NEW m \in Starts, NEW s \in Scrapers, Accept(m, s) PROVE Served
        BY <2>5 DEF Accept, Inv, TypeOK
  <2>6. ASSUME NEW m \in Starts, NEW s \in Scrapers, Serve(m, s) PROVE Served
    <3>1. worker[m] = "serving" /\ m # n /\ worker[n] = "serving"
          BY <1>2, <2>6 DEF Serve, Step, Inv, TypeOK
    <3>2. tokenSource = m /\ tokenSource = n
          BY <3>1 DEF Inv, WorkerHasItsToken, Alive
    <3> QED BY <3>1, <3>2
  <2>7. ASSUME NEW m \in Starts, Leave(m) PROVE Served
    <3>1. worker[m] = "leaving" /\ m # n /\ worker[n] = "serving"
          BY <1>2, <2>7 DEF Leave, Step, Inv, TypeOK
    <3>2. tokenSource = m /\ tokenSource = n
          BY <3>1 DEF Inv, WorkerHasItsToken, Alive
    <3> QED BY <3>1, <3>2
  <2>8. ASSUME NEW s \in Scrapers, Connect(s) PROVE Served
    <3>1. PICK t \in Scrapers : scrape[t] = "accepted" BY <1>2, <2>8 DEF Connect, StopInv
    <3>2. scrape'[t] = "accepted" BY <2>8, <3>1 DEF Connect, Inv, TypeOK
    <3> QED BY <3>2
  <2> QED BY <1>2, <2>1, <2>2, <2>3, <2>4, <2>5, <2>6, <2>7, <2>8 DEF Next, Work
<1> QED BY <1>1, <1>2 DEF StopInv

LEMMA StopInvariance == Spec => [](Inv /\ StopInv)
<1>1. Init => StopInv BY DEF Init, StopInv
<1>2. Inv /\ StopInv /\ [Next]_vars => StopInv' BY StopInvStep
<1> QED BY <1>1, <1>2, Invariance, PTL DEF Spec

\* The worker a held lock waits for is the last one, whose source is cancelled.
LEMMA WaitsForTheLast ==
    ASSUME Inv, StopInv, lck # NoCaller
    PROVE  starts \in Starts /\ tokenSource = starts /\ ToldToStop /\ worker[starts] # "none"
<1>1. tokenSource = starts /\ tokenSource # Null /\ tokenSource \in cancelled
      BY DEF Inv, LastStarted, LockMeansToken, StopInv
<1>2. starts \in Starts BY <1>1 DEF Inv, TypeOK
<1>3. worker[starts] # "none"
  <2>1. starts \in Nat BY <1>2 DEF Starts
  <2>2. ~(starts > starts) BY <2>1
  <2> QED BY <1>2, <2>2 DEF Inv, LastStarted
<1> QED BY <1>1, <1>2, <1>3 DEF ToldToStop

\* Stop never waits for a worker that cannot go on: it has ended, or what it
\* needs for its next step is there.
THEOREM StopNotBlocked == Spec => []NeverStuck
<1>1. ASSUME Inv, StopInv PROVE NeverStuck
  <2>1. SUFFICES ASSUME lck # NoCaller
                 PROVE  \/ worker[starts] \in {"created", "loop", "leaving", "ended", "faulted"}
                        \/ worker[starts] = "waiting" /\ ToldToStop
                        \/ worker[starts] = "serving" /\ \E s \in Scrapers : scrape[s] = "accepted"
        BY DEF NeverStuck
  <2>2. starts \in Starts /\ ToldToStop /\ worker[starts] # "none"
        BY <1>1, <2>1, WaitsForTheLast
  <2>3. worker[starts] \in Stage BY <1>1, <2>2 DEF Inv, TypeOK
  <2> QED BY <1>1, <2>2, <2>3 DEF StopInv, Stage
<1> QED BY <1>1, StopInvariance, PTL

\* Stop waits for four steps of the worker at most, and no request, caller or
\* client can make them more: the safety part of StopEnds.
THEOREM StopWaitsForFourSteps == Spec => [][StopGetsNearer]_vars
<1>1. ASSUME Inv, StopInv, [Next]_vars, lck # NoCaller
      PROVE  worker' = worker \/ StepsLeft(worker'[starts]) < StepsLeft(worker[starts])
  <2> DEFINE Nearer == StepsLeft(worker'[starts]) < StepsLeft(worker[starts])
  <2>1. starts \in Starts /\ tokenSource = starts /\ ToldToStop
        BY <1>1, WaitsForTheLast
  <2>2. ASSUME NEW n \in Starts, Work(n) PROVE n = starts
    <3>1. Alive(n)
          BY <2>2 DEF Work, Listen, Loop, Interrupted, Leave, Accept, Serve, Alive
    <3> QED BY <1>1, <2>1, <3>1 DEF Inv, WorkerHasItsToken
  <2>3. worker \in [Starts -> Stage] BY <1>1 DEF Inv, TypeOK
  <2>4. ASSUME Listen(starts) PROVE Nearer
    <3>1. worker[starts] = "created" /\ worker'[starts] \in {"loop", "faulted"}
          BY <2>1, <2>3, <2>4 DEF Listen, Step
    <3> QED BY <3>1 DEF StepsLeft
  <2>5. ASSUME Loop(starts) PROVE Nearer
    <3>1. worker[starts] = "loop" /\ worker'[starts] = "leaving"
          BY <2>1, <2>3, <2>5 DEF Loop, Step
    <3> QED BY <3>1 DEF StepsLeft
  <2>6. ASSUME Interrupted(starts) PROVE Nearer
    <3>1. worker[starts] = "waiting" /\ worker'[starts] = "leaving"
          BY <2>1, <2>3, <2>6 DEF Interrupted, Step
    <3> QED BY <3>1 DEF StepsLeft
  <2>7. ASSUME NEW s \in Scrapers, Accept(starts, s) PROVE Nearer
    <3>1. worker[starts] = "waiting" /\ worker'[starts] = "serving"
          BY <2>1, <2>3, <2>7 DEF Accept, Step
    <3> QED BY <3>1 DEF StepsLeft
  <2>8. ASSUME NEW s \in Scrapers, Serve(starts, s) PROVE Nearer
    <3>1. worker[starts] = "serving" /\ worker'[starts] \in {"loop", "leaving"}
          BY <2>1, <2>3, <2>8 DEF Serve, Step
    <3> QED BY <3>1 DEF StepsLeft
  <2>9. ASSUME Leave(starts) PROVE Nearer
    <3>1. worker[starts] = "leaving" /\ worker'[starts] = "ended"
          BY <2>1, <2>3, <2>9 DEF Leave, Step
    <3> QED BY <3>1 DEF StepsLeft
  <2>10. ASSUME NEW n \in Starts, Work(n) PROVE Nearer
    <3>1. Work(starts) BY <2>2, <2>10
    <3> QED BY <2>4, <2>5, <2>6, <2>7, <2>8, <2>9, <3>1 DEF Work
  <2>11. ASSUME NEW c \in Callers, Start(c) PROVE FALSE BY <1>1, <2>11 DEF Start
  <2>12. ASSUME \/ \E c \in Callers : BeginStop(c) \/ NothingToStop(c) \/ EndOfStop(c) \/ Dispose(c)
                \/ \E n \in Starts : CancelToken(n)
                \/ \E s \in Scrapers : Connect(s)
                \/ UNCHANGED vars
         PROVE  worker' = worker
         BY <2>12 DEF BeginStop, NothingToStop, EndOfStop, EndStop, StopThrows, Dispose,
                      CancelToken, Connect, vars
  <2> QED BY <1>1, <2>10, <2>11, <2>12 DEF Next
<1>2. Inv /\ StopInv /\ [Next]_vars => [StopGetsNearer]_vars
      BY <1>1 DEF StopGetsNearer
<1> QED BY <1>2, StopInvariance, PTL DEF Spec

-----------------------------------------------------------------------------
(* What Dispose has done when it returns                                   *)

\* Whoever found the listener listening will not find it as it was new.
DisposeInv == \A c \in Callers : pc[c] = "dispose" => listener # "new"

\* A Dispose that went on to Stop returns, normally or with the exception of
\* Stop, only when the listener is closed.
ReturnsClosed ==
    \A c \in Callers : pc[c] = "dispose" /\ pc'[c] = "idle" => listener' = "closed"

LEMMA DisposeInvStep ==
    ASSUME Inv, DisposeInv, [Next]_vars
    PROVE  DisposeInv'
<1> SUFFICES ASSUME NEW d \in Callers, pc'[d] = "dispose" PROVE listener' # "new"
    BY DEF DisposeInv
<1>1. ASSUME pc[d] = "dispose", listener' \in {listener, "listening", "closed"}
      PROVE  listener' # "new"
      BY <1>1 DEF DisposeInv
<1>2. ASSUME NEW c \in Callers, Dispose(c) PROVE listener' # "new"
      BY <1>1, <1>2 DEF Dispose, Inv, TypeOK
<1>3. ASSUME NEW c \in Callers, BeginStop(c) \/ NothingToStop(c) \/ EndOfStop(c)
      PROVE  listener' # "new"
      BY <1>1, <1>3 DEF BeginStop, NothingToStop, EndOfStop, EndStop, StopThrows, Return,
                        Inv, TypeOK
<1>4. ASSUME \/ \E c \in Callers : Start(c)
             \/ \E n \in Starts : CancelToken(n) \/ Work(n)
             \/ \E s \in Scrapers : Connect(s)
             \/ UNCHANGED vars
      PROVE  pc' = pc /\ listener' \in {listener, "listening", "closed"}
      BY <1>4 DEF Start, StartWorker, CancelToken, Work, Listen, Loop, Interrupted, Leave,
                  Accept, Serve, Connect, vars
<1> QED BY <1>1, <1>2, <1>3, <1>4 DEF Next

\* A listener listens only while a worker past its Start has not ended.
LEMMA NobodyListens ==
    ASSUME Inv, tokenSource = Null \/ worker[starts] \in {"ended", "faulted"}
    PROVE  listener # "listening"
<1> SUFFICES ASSUME listener = "listening" PROVE FALSE OBVIOUS
<1>1. PICK n \in Starts : Serving(n) BY DEF Inv, ListenerHasWorker
<1>2. tokenSource = n BY <1>1 DEF Inv, WorkerHasItsToken, Alive, Serving
<1>3. n # Null BY DEF Starts, Null
<1>4. n = starts BY <1>2, <1>3 DEF Inv, LastStarted
<1> QED BY <1>1, <1>2, <1>3, <1>4 DEF Serving

\* Dispose looks at the listener without the lock, and other threads start and
\* stop before it has it; still the server is closed when it returns.
THEOREM DisposeReturnsClosed == Spec => [][ReturnsClosed]_vars
<1>1. Init => DisposeInv BY DEF Init, DisposeInv
<1>2. Inv /\ DisposeInv /\ [Next]_vars => DisposeInv' BY DisposeInvStep
<1>3. Inv /\ DisposeInv /\ [Next]_vars => [ReturnsClosed]_vars
  <2> SUFFICES ASSUME Inv, DisposeInv, Next, NEW c \in Callers,
                      pc[c] = "dispose", pc'[c] = "idle"
               PROVE  listener' = "closed"
      BY DEF ReturnsClosed
  <2>1. listener # "new" /\ listener \in {"new", "listening", "closed"}
        BY DEF DisposeInv, Inv, TypeOK
  <2>2. ASSUME NEW d \in Callers, NothingToStop(d) PROVE listener' = "closed"
        BY <2>1, <2>2, NobodyListens DEF NothingToStop
  <2>3. ASSUME NEW d \in Callers, EndOfStop(d) PROVE listener' = "closed"
        BY <2>1, <2>3, NobodyListens DEF EndOfStop, EndStop, StopThrows
  <2>4. ASSUME NEW d \in Callers, Dispose(d) \/ BeginStop(d) PROVE FALSE
        BY <2>4 DEF Dispose, BeginStop, Inv, TypeOK
  <2>5. ASSUME \/ \E d \in Callers : Start(d)
               \/ \E n \in Starts : CancelToken(n) \/ Work(n)
               \/ \E s \in Scrapers : Connect(s)
        PROVE  FALSE
        BY <2>5 DEF Start, StartWorker, CancelToken, Work, Listen, Loop, Interrupted, Leave,
                    Accept, Serve, Connect
  <2> QED BY <2>2, <2>3, <2>4, <2>5 DEF Next
<1> QED BY <1>1, <1>2, <1>3, Invariance, PTL DEF Spec
=============================================================================
