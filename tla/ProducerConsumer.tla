-------------------------- MODULE ProducerConsumer --------------------------
(***************************************************************************)
(* producer_consumer/SimpleProducerConsumer: ProducerConsumer<T>, an        *)
(* unbounded queue for many producers and many asynchronous consumers made  *)
(* of a ConcurrentQueue<T> and a SemaphoreSlim that counts the items.       *)
(*                                                                          *)
(* Write is two steps (Enqueue, then Release), ReadAsync is two steps       *)
(* (WaitAsync, then TryDequeue on the continuation), and any step of any    *)
(* other caller may come in between.  TryDequeue's result "gotOne" is only  *)
(* printed: a reader that finds the queue empty hands default(T) to its     *)
(* caller as if it had been written.                                        *)
(***************************************************************************)
EXTENDS Naturals, SequencesExt

CONSTANTS Writers,     \* the threads that call Write
          Readers,     \* the callers of ReadAsync
          MaxWrites,   \* bound: how many items each writer writes
          NoItem       \* default(T), what TryDequeue leaves in "item" when it fails

ASSUME ConstantsOK ==
    /\ IsFiniteSet(Writers)
    /\ IsFiniteSet(Readers)
    /\ MaxWrites \in Nat
    /\ NoItem \notin Writers \X (1 .. MaxWrites)

VARIABLES written,   \* written[w]: how many items w has enqueued
          wpc,       \* wpc[w]: "idle", or "enqueued" between Enqueue and Release
          queue,     \* _queue
          permits,   \* _semaphore.CurrentCount
          waiters,   \* _semaphore's pending WaitAsync calls, first come first
          rpc,       \* rpc[r]: "idle", "waiting" in WaitAsync, or "granted" before TryDequeue
          taken      \* history: what ReadAsync returned, in the order of the TryDequeue calls

vars == <<written, wpc, queue, permits, waiters, rpc, taken>>

Item == Writers \X (1 .. MaxWrites)

Init ==
    /\ written = [w \in Writers |-> 0]
    /\ wpc = [w \in Writers |-> "idle"]
    /\ queue = <<>>
    /\ permits = 0
    /\ waiters = <<>>
    /\ rpc = [r \in Readers |-> "idle"]
    /\ taken = <<>>

-----------------------------------------------------------------------------
(* Write                                                                    *)

\* A plausible slip, a producer's loop that runs once too often.
EnqueueOneMore(w) ==
    /\ wpc[w] = "idle"
    /\ written[w] <= MaxWrites
    /\ written' = [written EXCEPT ![w] = @ + 1]
    /\ wpc' = [wpc EXCEPT ![w] = "enqueued"]
    /\ queue' = Append(queue, <<w, written[w] + 1>>)
    /\ UNCHANGED <<permits, waiters, rpc, taken>>

\* Write, first half: _queue.Enqueue(value).
Enqueue(w) ==
    /\ wpc[w] = "idle"
    /\ written[w] < MaxWrites
    /\ written' = [written EXCEPT ![w] = @ + 1]
    /\ wpc' = [wpc EXCEPT ![w] = "enqueued"]
    /\ queue' = Append(queue, <<w, written[w] + 1>>)
    /\ UNCHANGED <<permits, waiters, rpc, taken>>

\* SemaphoreSlim.Release: the oldest pending WaitAsync gets the permit, the
\* count grows only when nobody waits.
GivePermit ==
    IF waiters = <<>>
    THEN permits' = permits + 1 /\ UNCHANGED <<waiters, rpc>>
    ELSE /\ waiters' = Tail(waiters)
         /\ rpc' = [rpc EXCEPT ![Head(waiters)] = "granted"]
         /\ UNCHANGED permits

\* Write, second half: _semaphore.Release().
Release(w) ==
    /\ wpc[w] = "enqueued"
    /\ wpc' = [wpc EXCEPT ![w] = "idle"]
    /\ GivePermit
    /\ UNCHANGED <<written, queue, taken>>

-----------------------------------------------------------------------------
(* ReadAsync                                                                *)

\* ReadAsync calls WaitAsync: it has the permit at once, or waits for one.
BeginRead(r) ==
    /\ rpc[r] = "idle"
    /\ IF permits > 0
       THEN /\ permits' = permits - 1
            /\ rpc' = [rpc EXCEPT ![r] = "granted"]
            /\ UNCHANGED waiters
       ELSE /\ waiters' = Append(waiters, r)
            /\ rpc' = [rpc EXCEPT ![r] = "waiting"]
            /\ UNCHANGED permits
    /\ UNCHANGED <<written, wpc, queue, taken>>

\* A plausible slip, the token tested once more after the await: the
\* permit the reader was given is lost with it.
DropGranted(r) ==
    /\ rpc[r] \in {"waiting", "granted"}
    /\ waiters' = Remove(waiters, r)
    /\ rpc' = [rpc EXCEPT ![r] = "idle"]
    /\ UNCHANGED <<written, wpc, queue, permits, taken>>

\* A plausible slip, a permit given back on cancellation though none was held.
GiveBack(r) ==
    /\ rpc[r] = "waiting"
    /\ waiters' = Remove(waiters, r)
    /\ rpc' = [rpc EXCEPT ![r] = "idle"]
    /\ permits' = permits + 1
    /\ UNCHANGED <<written, wpc, queue, taken>>

\* The caller's token is cancelled while ReadAsync waits: WaitAsync takes the
\* waiter out and throws.  Once the permit is given the token changes nothing.
Cancel(r) ==
    /\ rpc[r] = "waiting"
    /\ \E i \in 1 .. Len(waiters) : /\ waiters[i] = r
                                    /\ waiters' = RemoveAt(waiters, i)
    /\ rpc' = [rpc EXCEPT ![r] = "idle"]
    /\ UNCHANGED <<written, wpc, queue, permits, taken>>

\* A plausible slip, the item looked at and left in the queue.
PeekOnly(r) ==
    /\ rpc[r] = "granted"
    /\ rpc' = [rpc EXCEPT ![r] = "idle"]
    /\ IF queue = <<>>
       THEN taken' = Append(taken, NoItem)
       ELSE taken' = Append(taken, Head(queue))
    /\ UNCHANGED <<written, wpc, queue, permits, waiters>>

\* ReadAsync after the await: TryDequeue, then return item whatever gotOne is.
Dequeue(r) ==
    /\ rpc[r] = "granted"
    /\ rpc' = [rpc EXCEPT ![r] = "idle"]
    /\ IF queue = <<>>
       THEN taken' = Append(taken, NoItem) /\ UNCHANGED queue
       ELSE taken' = Append(taken, Head(queue)) /\ queue' = Tail(queue)
    /\ UNCHANGED <<written, wpc, permits, waiters>>

-----------------------------------------------------------------------------
Next ==
    \/ \E w \in Writers : Enqueue(w) \/ Release(w)
    \/ \E r \in Readers : BeginRead(r) \/ Cancel(r) \/ Dequeue(r)

Spec == Init /\ [][Next]_vars

\* Write runs to its end on its thread; the loop of Sample's background
\* consumer, while (true) { await pc.ReadAsync(); }, never stops reading.
\* Nothing obliges a token to be cancelled or a producer to write.
Fairness ==
    /\ \A w \in Writers : WF_vars(Release(w))
    /\ \A r \in Readers : WF_vars(BeginRead(r)) /\ WF_vars(Dequeue(r))

FairSpec == Spec /\ Fairness

-----------------------------------------------------------------------------
(* Properties                                                               *)

TypeOK ==
    /\ written \in [Writers -> 0 .. MaxWrites]
    /\ wpc \in [Writers -> {"idle", "enqueued"}]
    /\ queue \in Seq(Item)
    /\ permits \in Nat
    /\ waiters \in Seq(Readers)
    /\ rpc \in [Readers -> {"idle", "waiting", "granted"}]
    /\ taken \in Seq(Item \cup {NoItem})

Granted == {r \in Readers : rpc[r] = "granted"}
Waiting == {r \in Readers : rpc[r] = "waiting"}
Signalling == {w \in Writers : wpc[w] = "enqueued"}

\* A reader past the semaphore always finds an item: "gotOne" is never false,
\* so ReadAsync never returns an item nobody wrote, although nothing checks it.
GotOne == Granted # {} => queue # <<>>

\* No item is stranded: while a reader waits, everything in the queue belongs
\* to a Write that has still to release or to a reader already let through.
NoStrandedItem ==
    waiters # <<>> => Len(queue) = Cardinality(Signalling) + Cardinality(Granted)

\* No item is lost, returned twice or overtaken by a later one of its writer:
\* what was returned, followed by what is queued, holds just the items written,
\* each writer's in the order it wrote them.
ExactlyOnceInOrder ==
    LET all == taken \o queue
    IN  /\ \A i \in 1 .. Len(all) :
               all[i] \in Item /\ all[i][2] <= written[all[i][1]]
        /\ \A w \in Writers : \A n \in 1 .. written[w] :
               \E i \in 1 .. Len(all) : all[i] = <<w, n>>
        /\ \A i, j \in 1 .. Len(all) :
               i < j /\ all[i][1] = all[j][1] => all[i][2] < all[j][2]

\* The queue and semaphore implement the FIFO buffer of ItemQueue, and with
\* the readers of Sample everything written is read.
Buffer == INSTANCE ItemQueue WITH pending <- queue, handed <- taken
IsBuffer == Buffer!FairSpec
=============================================================================
