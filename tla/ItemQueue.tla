------------------------------ MODULE ItemQueue ------------------------------
(***************************************************************************)
(* What a producer/consumer buffer of producer_consumer/ promises, whatever *)
(* it is made of: an unbounded FIFO queue.  Every item put is handed out    *)
(* once, in the order of the puts, and nothing else is ever handed out.     *)
(* ProducerConsumer implements it with a ConcurrentQueue and a semaphore.   *)
(***************************************************************************)
EXTENDS Sequences

CONSTANT Item   \* what producers put

VARIABLES pending,   \* the items put and not yet handed out, oldest first
          handed     \* the items handed out, oldest first

queueVars == <<pending, handed>>

Init == pending = <<>> /\ handed = <<>>

Put(x) == /\ pending' = Append(pending, x)
          /\ UNCHANGED handed

Take == /\ pending # <<>>
        /\ handed' = Append(handed, Head(pending))
        /\ pending' = Tail(pending)

Next == (\E x \in Item : Put(x)) \/ Take

Spec == Init /\ [][Next]_queueVars

\* A buffer some consumer keeps reading also hands out all it holds.
FairSpec == Spec /\ WF_queueVars(Take)
=============================================================================
