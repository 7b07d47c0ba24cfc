------------------------ MODULE BlobArtifactUseCase ------------------------
(***************************************************************************)
(* uwp/SelectedTextSpeach, Models/UseCases/BlobArtifactUseCase.cs: requests *)
(* a listing from a BlobArtifactRepository of its own, keeps the last       *)
(* complete one in "caches", and publishes on the Artifacts property each   *)
(* project as it is found and, when a request fails or is cancelled, the    *)
(* cached ones again.                                                       *)
(*                                                                          *)
(* The field "repository" is shared by the listing and by downloads: each   *)
(* overwrites it, and CancelRequest reaches whichever came last.            *)
(***************************************************************************)
EXTENDS BlobArtifactRepository

VARIABLES
    repository,   \* whose repository the field holds: "none", "listing" or "download"
    requests,     \* listings requested so far: the identity of the running one
    current,      \* the artifacts of the running listing
    caches        \* the artifacts of the last listing that completed

useCaseVars == <<repository, requests, current, caches>>

\* An IArtifactEntity: the boxed struct made by one listing for one project.
Artifact(maxRequests) ==
    [project : DOMAIN BranchesOf, branches : SUBSET Branch, listing : 1 .. maxRequests]

UseCaseTypeOK(maxRequests) ==
    /\ RepositoryTypeOK
    /\ repository \in {"none", "listing", "download"}
    /\ requests \in 0 .. maxRequests
    /\ current \in Seq(Artifact(maxRequests))
    /\ caches \in Seq(Artifact(maxRequests))

UseCaseInit ==
    /\ RepositoryInit
    /\ repository = "none"
    /\ requests = 0
    /\ current = <<>>
    /\ caches = <<>>

-----------------------------------------------------------------------------
\* What OnGetEachArtifact is called with in this step.
Got == [i \in 1 .. Len(artifactList') - Len(artifactList) |->
           LET e == artifactList'[Len(artifactList) + i]
           IN  [project |-> e.project, branches |-> e.branches, listing |-> requests]]

\* RequestHoloLensPackagesAsync up to its first await.
NewRequest ==
    /\ requests' = requests + 1
    /\ current' = <<>>
    /\ repository' = "listing"
    /\ UNCHANGED caches

RequestHoloLensPackages == NewRequest /\ ListArtifacts

\* The same with a malformed connection string: it ends in the catch at once.
RequestRejected == NewRequest /\ ListArtifactsRejected

\* The cache is taken over as the listing goes on.
EagerCache ==
    /\ current' = current \o Got
    /\ caches' = current'
    /\ repository' = IF phase' = "completed" THEN "none" ELSE repository
    /\ UNCHANGED requests

\* What a step of the listing means here: each new project is added to
\* "current"; a complete listing becomes the cache and drops the repository.
FollowListing ==
    /\ current' = current \o Got
    /\ IF phase' = "completed"
       THEN caches' = current' /\ repository' = "none"
       ELSE UNCHANGED <<caches, repository>>
    /\ UNCHANGED requests

\* PushCache publishes "current" instead.
PushCurrent == IF phase' \in {"canceled", "failed"} THEN current' ELSE <<>>

\* PushCache: both catch clauses publish the cached artifacts once more.
\* (A ConcurrentBag filled by one thread enumerates last in first out, and
\* Reverse() undoes that.)
PushCache == IF phase' \in {"canceled", "failed"} THEN caches ELSE <<>>

\* All that the step publishes on Artifacts.
Published == Got \o PushCache

RequestStep(k) == Resume(k) /\ FollowListing

\* CancelRequest: repository?.Cancel().  Only a listing's repository ever has
\* tokens registered; the one of a download has an empty dictionary.
CancelRequest ==
    /\ IF repository = "listing" THEN Cancel ELSE UNCHANGED repositoryVars
    /\ UNCHANGED useCaseVars

CancelRequestThrows ==
    /\ repository = "listing"
    /\ CancelThrows
    /\ UNCHANGED useCaseVars

\* DownloadAsStreamAsync up to its first await.
Download ==
    /\ repository' = "download"
    /\ UNCHANGED <<repositoryVars, requests, current, caches>>

\* GetArtifactCache(projectName) and GetArtifactCache(projectName, branchName).
ArtifactCache(p) == {e \in ToSet(caches) : e.project = p}
ArtifactDetailCache(p, b) == {e \in ToSet(caches) : e.project = p /\ b \in e.branches}
=============================================================================
