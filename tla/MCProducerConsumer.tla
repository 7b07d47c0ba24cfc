------------------------- MODULE MCProducerConsumer -------------------------
(* Two writers and two readers: the smallest instance in which a writer's    *)
(* Enqueue comes between another's Enqueue and Release, and a cancelled      *)
(* reader stands before or behind another in the semaphore's queue.          *)
EXTENDS ProducerConsumer
=============================================================================
