----------------------- MODULE BlobArtifactRepository -----------------------
(***************************************************************************)
(* uwp/SelectedTextSpeach, Data/Repositories/BlobArtifactRepository.cs: one *)
(* listing of the artifacts of a blob container.  ListArtifactsAsync lists  *)
(* the project directories, then for each project its branch directories,   *)
(* then the blobs of all branches of the project at once (Task.WhenAll).    *)
(* A listing of one prefix goes segment by segment; every segment has a     *)
(* CancellationTokenSource of its own in cancellationDictionary, which      *)
(* Cancel() cancels and clears.                                             *)
(*                                                                          *)
(* All continuations run on the UI thread, one at a time; the storage       *)
(* service answers in any order.  A segment that was answered before        *)
(* Cancel() is not undone by it, though its continuation runs later.        *)
(***************************************************************************)
EXTENDS Naturals, SequencesExt

CONSTANTS BranchesOf,    \* BranchesOf[p]: how many branches the p-th project has
          MaxSegments    \* bound: segments of one prefix listing

ASSUME RepositoryConstants ==
    BranchesOf \in Seq(Nat) /\ MaxSegments \in Nat \ {0}

Top == 0                              \* the sequential listings: directories, branches
Branch == UNION {1 .. BranchesOf[p] : p \in DOMAIN BranchesOf}
Calls == {Top} \cup Branch

VARIABLES
    phase,         \* where ListArtifactsAsync stands, or how it ended
    at,            \* the project its loop is at
    call,          \* call[k]: the pending segment request of listing k
    registered,    \* registered[k]: k's entry in cancellationDictionary (whose keys
                   \* are hash codes of the sources, taken to differ)
    segments,      \* segments[k]: segments requested so far
    failure,       \* failure[b]: the exception branch b's listing ended with
    gathered,      \* the branches added to branchArtifactList
    artifactList   \* the projects completed, in order

repositoryVars ==
    <<phase, at, call, registered, segments, failure, gathered, artifactList>>

Running == phase \in {"directories", "branches", "details"}

RepositoryTypeOK ==
    /\ phase \in {"new", "directories", "branches", "details",
                  "completed", "canceled", "failed"}
    /\ at \in 0 .. Len(BranchesOf)
    /\ call \in [Calls -> {"none", "sent", "answered", "refused", "cancelled"}]
    /\ registered \in [Calls -> {"no", "live", "disposed"}]
    /\ segments \in [Calls -> 0 .. MaxSegments]
    /\ failure \in [Calls -> {"none", "canceled", "failed"}]
    /\ gathered \subseteq Branch
    /\ artifactList \in Seq([project : DOMAIN BranchesOf, branches : SUBSET Branch])

-----------------------------------------------------------------------------
\* A new BlobArtifactRepository, before (or without) a listing.
Fresh(state) ==
    /\ phase' = state
    /\ at' = 0
    /\ failure' = [k \in Calls |-> "none"]
    /\ gathered' = {}
    /\ artifactList' = <<>>

\* ListItemsAsync starts for the prefixes S, nothing else being under way:
\* a fresh CTS each, registered before the first segment is requested.
SendOnly(S) ==
    /\ call' = [k \in Calls |-> IF k \in S THEN "sent" ELSE "none"]
    /\ registered' = [k \in Calls |-> IF k \in S THEN "live" ELSE "no"]
    /\ segments' = [k \in Calls |-> IF k \in S THEN 1 ELSE 0]

RepositoryInit ==
    /\ phase = "new"
    /\ at = 0
    /\ call = [k \in Calls |-> "none"]
    /\ registered = [k \in Calls |-> "no"]
    /\ segments = [k \in Calls |-> 0]
    /\ failure = [k \in Calls |-> "none"]
    /\ gathered = {}
    /\ artifactList = <<>>

\* ListArtifactsAsync up to its first await, on a new repository.
ListArtifacts == Fresh("directories") /\ SendOnly({Top})

\* CloudStorageAccount.Parse throws on a malformed connection string before
\* anything is requested.
ListArtifactsRejected == Fresh("failed") /\ SendOnly({})

-----------------------------------------------------------------------------
(* The storage service                                                      *)

Answer(k) == /\ call[k] = "sent"
             /\ call' = [call EXCEPT ![k] = "answered"]
             /\ UNCHANGED <<phase, at, registered, segments, failure, gathered, artifactList>>

Refuse(k) == /\ call[k] = "sent"
             /\ call' = [call EXCEPT ![k] = "refused"]
             /\ UNCHANGED <<phase, at, registered, segments, failure, gathered, artifactList>>

-----------------------------------------------------------------------------
(* The continuations                                                        *)

\* The entry registered for the next segment is forgotten: the CTS of a
\* listing is made once, before its loop.
NextSegmentUnregistered(k) ==
    /\ call[k] = "answered"
    /\ segments[k] < MaxSegments
    /\ call' = [call EXCEPT ![k] = "sent"]
    /\ segments' = [segments EXCEPT ![k] = @ + 1]
    /\ registered' = [registered EXCEPT ![k] = "no"]
    /\ UNCHANGED <<phase, at, failure, gathered, artifactList>>

\* A segment came with a continuation token: its CTS is removed and disposed,
\* the next segment is requested under a new one.
NextSegment(k) ==
    /\ call[k] = "answered"
    /\ segments[k] < MaxSegments
    /\ call' = [call EXCEPT ![k] = "sent"]
    /\ segments' = [segments EXCEPT ![k] = @ + 1]
    /\ registered' = [registered EXCEPT ![k] = "live"]
    /\ UNCHANGED <<phase, at, failure, gathered, artifactList>>

\* The foreach over the directories goes on to project p, or is over.
VisitProject(p) ==
    IF p \in DOMAIN BranchesOf
    THEN /\ phase' = "branches"
         /\ at' = p
         /\ gathered' = {}
         /\ SendOnly({Top})
    ELSE /\ phase' = "completed"
         /\ SendOnly({})
         /\ UNCHANGED <<at, gathered>>

\* The entity is named after the project the loop has moved on to.
FinishWithNext(branches) ==
    /\ artifactList' = Append(artifactList, [project |-> at + 1, branches |-> branches])
    /\ VisitProject(at + 1)
    /\ UNCHANGED failure

\* All branches are listed: the project's entity is made and handed out.
FinishProject(branches) ==
    /\ artifactList' = Append(artifactList, [project |-> at, branches |-> branches])
    /\ VisitProject(at + 1)
    /\ UNCHANGED failure

DirectoriesListed ==
    /\ phase = "directories"
    /\ call[Top] = "answered"
    /\ VisitProject(1)
    /\ UNCHANGED <<failure, artifactList>>

BranchesListed ==
    /\ phase = "branches"
    /\ call[Top] = "answered"
    /\ IF BranchesOf[at] = 0
       THEN FinishProject({})
       ELSE /\ phase' = "details"
            /\ SendOnly(1 .. BranchesOf[at])
            /\ UNCHANGED <<at, failure, gathered, artifactList>>

\* Task.WhenAny instead of Task.WhenAll.
WhenAnyDone(b) == call[b] # "none"

\* The Task.WhenAll over the branches completes when b's task does.
WhenAllDone(b) == \A k \in Branch \ {b} : call[k] = "none"

\* The exceptions of the branches are swallowed.
Unobserved == TRUE

NoneFailed == \A k \in Branch : failure[k] = "none"

\* The await of Task.WhenAll throws the exception of the first task, in the
\* order of the branches, that has one.
WhenAllThrows(f) ==
    LET b == CHOOSE x \in Branch : f[x] # "none" /\ \A y \in Branch : y < x => f[y] = "none"
    IN  phase' = f[b] /\ UNCHANGED <<at, artifactList>>

\* One task of WhenAll ends well: its branch is added.  The project goes on
\* when it was the last one and none has failed.
DetailsListed(b) ==
    /\ phase = "details"
    /\ call[b] = "answered"
    /\ \/ /\ WhenAllDone(b)
          /\ NoneFailed
          /\ FinishProject(gathered \cup {b})
       \/ /\ ~ (WhenAllDone(b) /\ NoneFailed)
          /\ call' = [call EXCEPT ![b] = "none"]
          /\ registered' = [registered EXCEPT ![b] = "no"]
          /\ UNCHANGED <<segments, failure>>
          /\ gathered' = gathered \cup {b}
          /\ IF WhenAllDone(b)
             THEN WhenAllThrows(failure)
             ELSE UNCHANGED <<phase, at, artifactList>>

\* The request of k was refused or cancelled: ListBlobsSegmentedAsync throws,
\* "using" disposes the CTS and TryRemove is never reached.
SegmentThrows(k) ==
    LET ex == IF call[k] = "cancelled" THEN "canceled" ELSE "failed"
    IN  /\ call[k] \in {"refused", "cancelled"}
        /\ call' = [call EXCEPT ![k] = "none"]
        /\ registered' = [registered EXCEPT ![k] = IF @ = "live" THEN "disposed" ELSE "no"]
        /\ failure' = [failure EXCEPT ![k] = ex]
        /\ UNCHANGED <<segments, gathered>>
        /\ IF k = Top
           THEN phase' = ex /\ UNCHANGED <<at, artifactList>>
           ELSE IF WhenAllDone(k)
                THEN WhenAllThrows(failure')
                ELSE UNCHANGED <<phase, at, artifactList>>

\* A continuation of the listing runs on the UI thread.
Resume(k) ==
    \/ NextSegment(k)
    \/ k = Top /\ (DirectoriesListed \/ BranchesListed)
    \/ k # Top /\ DetailsListed(k)
    \/ SegmentThrows(k)

-----------------------------------------------------------------------------
(* Cancel                                                                   *)

Entries(state) == {k \in Calls : registered[k] = state}

\* Cancel the tokens in S: a request still on its way is given up.
CancelTokens(S) ==
    call' = [k \in Calls |-> IF k \in S /\ call[k] = "sent" THEN "cancelled" ELSE call[k]]

\* Every registered token is cancelled, then the dictionary is cleared.
Cancel ==
    /\ Entries("disposed") = {}
    /\ CancelTokens(Entries("live"))
    /\ registered' = [k \in Calls |-> "no"]
    /\ UNCHANGED <<phase, at, segments, failure, gathered, artifactList>>

\* The loop meets a disposed CTS, in whatever order the dictionary is
\* enumerated: CancellationTokenSource.Cancel throws ObjectDisposedException,
\* the entries not visited yet stay uncancelled and nothing is cleared.
CancelThrows ==
    /\ Entries("disposed") # {}
    /\ \E S \in SUBSET Entries("live") : CancelTokens(S)
    /\ UNCHANGED <<phase, at, registered, segments, failure, gathered, artifactList>>
=============================================================================
