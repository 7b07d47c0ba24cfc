---------------------------- MODULE ListingCache ----------------------------
(***************************************************************************)
(* What BlobArtifactUseCase promises about its cache, whatever the requests *)
(* of a listing, their failures and the clicks on the page do: the cache is *)
(* replaced in one step, by the whole container as one listing found it,    *)
(* when that listing succeeds; a listing that fails or is cancelled leaves  *)
(* it as it was.  ChoiceArtifact implements it.                             *)
(***************************************************************************)
EXTENDS Naturals, Sequences

CONSTANT BranchesOf   \* the container: the number of branches of each project

VARIABLES running,    \* a listing is under way
          requests,   \* how many were asked for
          cache       \* the artifacts of the last one that succeeded

cacheVars == <<running, requests, cache>>

\* All that listing n finds.
Container(n) ==
    [p \in 1 .. Len(BranchesOf) |->
        [project |-> p, branches |-> 1 .. BranchesOf[p], listing |-> n]]

Init == running = FALSE /\ requests = 0 /\ cache = <<>>

Begin == /\ ~running
         /\ requests' = requests + 1
         /\ running' = TRUE
         /\ UNCHANGED cache

\* It is over before anything is requested.
Reject == /\ ~running
          /\ requests' = requests + 1
          /\ UNCHANGED <<running, cache>>

Succeed == /\ running
           /\ running' = FALSE
           /\ cache' = Container(requests)
           /\ UNCHANGED requests

Fail == /\ running
        /\ running' = FALSE
        /\ UNCHANGED <<requests, cache>>

Next == Begin \/ Reject \/ Succeed \/ Fail

Spec == Init /\ [][Next]_cacheVars
=============================================================================
