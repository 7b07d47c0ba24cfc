------------------------ MODULE ChoiceArtifactProofs ------------------------
(***************************************************************************)
(* Proofs about the listing of ChoiceArtifact, for any number of projects,  *)
(* branches, segments and requests.  Three things carry them: which calls   *)
(* may be pending in each phase of the listing (Pending), that a branch of  *)
(* the project at hand is pending, gathered or failed and never forgotten   *)
(* (Accounted), and that the last artifact published is the last of the     *)
(* cache or one of the running listing (LastPublished).                     *)
(***************************************************************************)
EXTENDS ChoiceArtifact, SequenceTheorems, WellFoundedInduction, TLAPS

-----------------------------------------------------------------------------
(* The invariant of the repository                                         *)

\* Directories and branches are listed one at a time; only the branches of
\* one project are listed together; nothing is pending when nothing runs.
Pending ==
    /\ ~Running => \A k \in Calls : call[k] = "none"
    /\ phase \in {"directories", "branches"} => \A k \in Branch : call[k] = "none"
    /\ phase = "details" =>
           /\ call[Top] = "none"
           /\ \A b \in Branch : call[b] # "none" => b \in 1 .. BranchesOf[at]

\* No branch of the project at hand is lost.
Accounted ==
    /\ phase = "branches" => gathered = {}
    /\ phase = "details" =>
        /\ gathered \subseteq 1 .. BranchesOf[at]
        /\ \A b \in 1 .. BranchesOf[at] :
               call[b] # "none" \/ b \in gathered \/ failure[b] # "none"

\* Only branches fail without ending the listing.
Failures ==
    /\ phase \in {"directories", "branches"} => \A k \in Calls : failure[k] = "none"
    /\ phase = "details" => failure[Top] = "none"

\* The projects are listed in order, each with all its branches, and in the
\* end all of them.
ListedInOrder ==
    /\ phase = "directories" => artifactList = <<>>
    /\ phase \in {"branches", "details"} =>
           at \in DOMAIN BranchesOf /\ Len(artifactList) = at - 1
    /\ phase = "completed" => Len(artifactList) = Len(BranchesOf)
    /\ \A i \in 1 .. Len(artifactList) :
           artifactList[i] = [project |-> i, branches |-> 1 .. BranchesOf[i]]

RepositoryInv ==
    /\ RepositoryTypeOK
    /\ EveryCallCancellable
    /\ Pending
    /\ Accounted
    /\ Failures
    /\ ListedInOrder

-----------------------------------------------------------------------------
(* The invariant of the use case and of the page                           *)

\* The running listing's artifacts are those of the repository.
CurrentFollows ==
    Running =>
        /\ requests >= 1
        /\ Len(current) = Len(artifactList)
        /\ \A i \in 1 .. Len(current) :
               current[i] = [project |-> i, branches |-> 1 .. BranchesOf[i],
                             listing |-> requests]

\* Artifacts with all branches, and those of them whose listing is over.
Whole == {e \in Artifact(MaxRequests) : e.branches = 1 .. BranchesOf[e.project]}
Finished == {e \in Whole : /\ e.listing <= requests
                           /\ e.listing = requests => phase = "completed"}

\* The cache holds such a listing, all of it and in order; what is offered
\* comes from it or from an earlier one.
CacheFinished ==
    /\ caches \in Seq(Finished)
    /\ Len(caches) \in {0, Len(BranchesOf)}
    /\ \A i \in 1 .. Len(caches) :
           caches[i].project = i /\ caches[i].listing = caches[1].listing
    /\ branches \subseteq Finished /\ artifacts \subseteq Finished

\* The value ReadOnlyReactivePropertySlim compares the next one with.
LastPublished ==
    /\ Running /\ current # <<>> => lastArtifact = current[Len(current)]
    /\ caches # <<>> /\ (Running => current = <<>>) => lastArtifact = caches[Len(caches)]

\* The other variables of the use case and of the page.
Page ==
    /\ repository \in {"none", "listing", "download"}
    /\ requests \in 0 .. MaxRequests
    /\ current \in Seq(Artifact(MaxRequests))
    /\ lastArtifact = None \/ lastArtifact \in Artifact(MaxRequests)
    /\ selectedProject = NoProject \/ selectedProject \in Artifact(MaxRequests)
    /\ selectedBranch \in Calls
    /\ isChecking \in BOOLEAN
    /\ hasArtifact \in BOOLEAN /\ hasUrl \in BOOLEAN
    /\ down \in BOOLEAN

Inv ==
    /\ RepositoryInv
    /\ Page
    /\ isChecking <=> Running
    /\ CurrentFollows
    /\ CacheFinished
    /\ projects \in Seq(Whole)
    /\ LastPublished

-----------------------------------------------------------------------------
(* Facts about the constants and the helpers                               *)

LEMMA Projects ==
    /\ Len(BranchesOf) \in Nat /\ DOMAIN BranchesOf = 1 .. Len(BranchesOf)
    /\ \A p \in DOMAIN BranchesOf : BranchesOf[p] \in Nat /\ 1 .. BranchesOf[p] \subseteq Branch
    /\ Branch \subseteq Nat \ {0} /\ Top \in Calls /\ Top \notin Branch
    /\ Calls = {Top} \cup Branch
    /\ MaxSegments \in Nat \ {0}
<1>1. Len(BranchesOf) \in Nat /\ DOMAIN BranchesOf = 1 .. Len(BranchesOf)
      BY RepositoryConstants, LenProperties
<1>2. ASSUME NEW p \in DOMAIN BranchesOf
      PROVE  BranchesOf[p] \in Nat /\ 1 .. BranchesOf[p] \subseteq Branch
  <2>1. BranchesOf[p] \in Nat BY <1>1, RepositoryConstants, ElementOfSeq
  <2> QED BY <2>1 DEF Branch
<1>3. Branch \subseteq Nat \ {0}
  <2>1. ASSUME NEW b \in Branch PROVE b \in Nat \ {0}
    <3>1. PICK p \in DOMAIN BranchesOf : b \in 1 .. BranchesOf[p] BY DEF Branch
    <3>2. BranchesOf[p] \in Nat BY <1>2
    <3> QED BY <3>1, <3>2
  <2> QED BY <2>1
<1>4. Top \notin Branch BY <1>3 DEF Top
<1> QED BY <1>1, <1>2, <1>3, <1>4, RepositoryConstants DEF Calls

\* A set of branches that is not empty has a smallest one.
LEMMA FirstBranch ==
    ASSUME NEW B \in SUBSET Branch, B # {}
    PROVE  \E x \in B : \A y \in B : ~(y < x)
<1>1. B \subseteq Nat BY Projects
<1>2. \E x \in B : \A y \in B : ~(<<y, x>> \in OpToRel(<, Nat))
      BY <1>1, NatLessThanWellFounded, WFMin
<1>3. \A x, y \in B : y < x => <<y, x>> \in OpToRel(<, Nat)
      BY <1>1 DEF OpToRel
<1> QED BY <1>2, <1>3

\* Task.WhenAll throws an exception that one of the branches ended with.
LEMMA ThrowsOne ==
    ASSUME NEW f \in [Calls -> {"none", "canceled", "failed"}], WhenAllThrows(f),
           \E b \in Branch : f[b] # "none"
    PROVE  phase' \in {"canceled", "failed"} /\ at' = at /\ artifactList' = artifactList
<1> DEFINE B == {b \in Branch : f[b] # "none"}
<1>1. B \in SUBSET Branch /\ B # {} OBVIOUS
<1>2. PICK x \in B : \A y \in B : ~(y < x) BY <1>1, FirstBranch
<1>3. \E b \in Branch : f[b] # "none" /\ \A y \in Branch : y < b => f[y] = "none"
      BY <1>2
<1>4. \E b \in Branch : f[b] # "none" /\ phase' = f[b]
      BY <1>3 DEF WhenAllThrows
<1>5. \A b \in Branch : f[b] \in {"none", "canceled", "failed"} BY Projects
<1> QED BY <1>4, <1>5 DEF WhenAllThrows

LEMMA Sent ==
    ASSUME NEW S \in SUBSET Calls, SendOnly(S)
    PROVE  /\ call' \in [Calls -> {"none", "sent", "answered", "refused", "cancelled"}]
           /\ registered' \in [Calls -> {"no", "live", "disposed"}]
           /\ segments' \in [Calls -> 0 .. MaxSegments]
           /\ \A k \in Calls : call'[k] = (IF k \in S THEN "sent" ELSE "none")
           /\ EveryCallCancellable'
<1>1. 0 \in 0 .. MaxSegments /\ 1 \in 0 .. MaxSegments BY Projects
<1>2. /\ call' \in [Calls -> {"none", "sent", "answered", "refused", "cancelled"}]
      /\ registered' \in [Calls -> {"no", "live", "disposed"}]
      /\ \A k \in Calls : call'[k] = (IF k \in S THEN "sent" ELSE "none")
      BY DEF SendOnly
<1>3. segments' \in [Calls -> 0 .. MaxSegments] BY <1>1 DEF SendOnly
<1>4. EveryCallCancellable' BY DEF SendOnly, EveryCallCancellable
<1> QED BY <1>2, <1>3, <1>4

-----------------------------------------------------------------------------
(* The steps of the repository                                             *)

\* A step that only moves requests, ending none and beginning none.
LEMMA OnlyCalls ==
    ASSUME RepositoryInv, RepositoryTypeOK', EveryCallCancellable',
           UNCHANGED <<phase, at, failure, gathered, artifactList>>,
           \A k \in Calls : call'[k] = "none" <=> call[k] = "none"
    PROVE  RepositoryInv'
<1>1. Pending'
      BY Projects DEF RepositoryInv, Pending, Running
<1>2. Accounted'
  <2>1. SUFFICES ASSUME phase = "details" PROVE Accounted' BY DEF RepositoryInv, Accounted
  <2>2. 1 .. BranchesOf[at] \subseteq Calls
        BY <2>1, Projects DEF RepositoryInv, ListedInOrder
  <2> QED BY <2>1, <2>2 DEF RepositoryInv, Accounted
<1>3. Failures' /\ ListedInOrder' BY DEF RepositoryInv, Failures, ListedInOrder
<1> QED BY <1>1, <1>2, <1>3 DEF RepositoryInv

LEMMA ServiceKeeps ==
    ASSUME RepositoryInv, NEW k \in Calls, Answer(k) \/ Refuse(k)
    PROVE  RepositoryInv'
<1>1. \/ call[k] = "sent" /\ call' = [call EXCEPT ![k] = "answered"]
      \/ call[k] = "sent" /\ call' = [call EXCEPT ![k] = "refused"]
      BY DEF Answer, Refuse
<1>2. UNCHANGED <<phase, at, registered, segments, failure, gathered, artifactList>>
      BY DEF Answer, Refuse
<1>3. RepositoryTypeOK' BY <1>1, <1>2 DEF RepositoryInv, RepositoryTypeOK
<1>4. EveryCallCancellable'
      BY <1>1, <1>2 DEF RepositoryInv, RepositoryTypeOK, EveryCallCancellable
<1>5. \A j \in Calls : call'[j] = "none" <=> call[j] = "none"
      BY <1>1 DEF RepositoryInv, RepositoryTypeOK
<1> QED BY <1>2, <1>3, <1>4, <1>5, OnlyCalls

LEMMA NextSegmentKeeps ==
    ASSUME RepositoryInv, NEW k \in Calls, NextSegment(k)
    PROVE  RepositoryInv'
<1>1. segments' \in [Calls -> 0 .. MaxSegments]
  <2>1. segments[k] \in 0 .. MaxSegments /\ segments[k] < MaxSegments
        BY DEF RepositoryInv, RepositoryTypeOK, NextSegment
  <2>2. segments[k] + 1 \in 0 .. MaxSegments BY <2>1, Projects
  <2> QED BY <2>2 DEF RepositoryInv, RepositoryTypeOK, NextSegment
<1>2. RepositoryTypeOK' BY <1>1 DEF RepositoryInv, RepositoryTypeOK, NextSegment
<1>3. EveryCallCancellable'
      BY DEF RepositoryInv, RepositoryTypeOK, EveryCallCancellable, NextSegment
<1>4. \A j \in Calls : call'[j] = "none" <=> call[j] = "none"
      BY DEF RepositoryInv, RepositoryTypeOK, NextSegment
<1>5. UNCHANGED <<phase, at, failure, gathered, artifactList>> BY DEF NextSegment
<1> QED BY <1>2, <1>3, <1>4, <1>5, OnlyCalls

LEMMA CancelKeeps ==
    ASSUME RepositoryInv, Cancel \/ CancelThrows
    PROVE  RepositoryInv'
<1>1. UNCHANGED <<phase, at, segments, failure, gathered, artifactList>>
      BY DEF Cancel, CancelThrows
<1>2. PICK S \in SUBSET Entries("live") : CancelTokens(S)
      BY DEF Cancel, CancelThrows
<1>3. call' = [k \in Calls |-> IF k \in S /\ call[k] = "sent" THEN "cancelled" ELSE call[k]]
      BY <1>2 DEF CancelTokens
<1>4. registered' \in [Calls -> {"no", "live", "disposed"}]
      BY DEF Cancel, CancelThrows, RepositoryInv, RepositoryTypeOK
<1>5. RepositoryTypeOK' BY <1>1, <1>3, <1>4 DEF RepositoryInv, RepositoryTypeOK
<1>6. EveryCallCancellable'
  <2>1. CASE Cancel
    <3>1. call' = [k \in Calls |-> IF k \in Entries("live") /\ call[k] = "sent"
                                   THEN "cancelled" ELSE call[k]]
          BY <2>1 DEF Cancel, CancelTokens
    <3>2. \A k \in Calls : call'[k] # "sent"
          BY <3>1 DEF Entries, RepositoryInv, EveryCallCancellable
    <3> QED BY <3>2 DEF EveryCallCancellable
  <2>2. CASE CancelThrows
    <3>1. registered' = registered BY <2>2 DEF CancelThrows
    <3> QED BY <1>3, <3>1 DEF RepositoryInv, EveryCallCancellable
  <2> QED BY <2>1, <2>2
<1>7. \A k \in Calls : call'[k] = "none" <=> call[k] = "none" BY <1>3
<1> QED BY <1>1, <1>5, <1>6, <1>7, OnlyCalls

\* Past the last project there is none.
LEMMA NextUpTo ==
    ASSUME NEW n \in Nat, NEW q \in 0 .. n
    PROVE  q + 1 \in Nat \ {0} /\ (q + 1) - 1 = q /\ (q + 1 \notin 1 .. n => q = n)
OBVIOUS

\* The listing goes on to the project after q, or is over, when the projects
\* up to q are listed and nothing failed.
LEMMA Visits ==
    ASSUME RepositoryTypeOK, NEW q \in 0 .. Len(BranchesOf), VisitProject(q + 1), failure' = failure,
           \A k \in Calls : failure[k] = "none",
           artifactList' \in Seq([project : DOMAIN BranchesOf, branches : SUBSET Branch]),
           Len(artifactList') = q,
           \A i \in 1 .. q :
               artifactList'[i] = [project |-> i, branches |-> 1 .. BranchesOf[i]]
    PROVE  RepositoryInv' /\ phase' \in {"branches", "completed"}
<1> DEFINE p == q + 1
<1>0. /\ p \in Nat \ {0} /\ p - 1 = q
      /\ p \notin DOMAIN BranchesOf => q = Len(BranchesOf)
      BY Projects, NextUpTo DEF p
<1> HIDE DEF p
<1>1. /\ phase' = IF p \in DOMAIN BranchesOf THEN "branches" ELSE "completed"
      /\ p \in DOMAIN BranchesOf => at' = p /\ gathered' = {} /\ SendOnly({Top})
      /\ p \notin DOMAIN BranchesOf => at' = at /\ gathered' = gathered /\ SendOnly({})
      BY DEF VisitProject, p
<1>2. PICK S \in {{}, {Top}} : SendOnly(S) /\ (phase' = "completed" => S = {})
      BY <1>1
<1>3. S \in SUBSET Calls BY <1>2, Projects
<1>4. /\ call' \in [Calls -> {"none", "sent", "answered", "refused", "cancelled"}]
      /\ registered' \in [Calls -> {"no", "live", "disposed"}]
      /\ segments' \in [Calls -> 0 .. MaxSegments]
      /\ \A k \in Calls : call'[k] = (IF k \in S THEN "sent" ELSE "none")
      /\ EveryCallCancellable'
      BY <1>2, <1>3, Sent
<1>5. at' \in 0 .. Len(BranchesOf) /\ gathered' \subseteq Branch
  <2>1. CASE p \in DOMAIN BranchesOf
    <3>1. p \in 0 .. Len(BranchesOf) BY <2>1, Projects
    <3> QED BY <1>1, <2>1, <3>1
  <2>2. CASE p \notin DOMAIN BranchesOf BY <1>1, <2>2 DEF RepositoryTypeOK
  <2> QED BY <2>1, <2>2
<1>6. phase' \in {"branches", "completed"} BY <1>1
<1>7. RepositoryTypeOK' BY <1>4, <1>5, <1>6 DEF RepositoryTypeOK
<1>8. Pending'
  <2>1. phase' = "completed" => \A k \in Calls : call'[k] = "none" BY <1>2, <1>4
  <2>2. \A k \in Branch : call'[k] = "none" BY <1>2, <1>4, Projects
  <2> QED BY <1>6, <2>1, <2>2 DEF Pending, Running
<1>9. Accounted' BY <1>1, <1>6 DEF Accounted
<1>10. Failures' BY <1>6 DEF Failures
<1>11. ListedInOrder' BY <1>0, <1>1, <1>6 DEF ListedInOrder
<1> QED BY <1>4, <1>6, <1>7, <1>8, <1>9, <1>10, <1>11 DEF RepositoryInv

\* What a continuation of the listing does to the list of artifacts: it leaves
\* it alone, or adds the next project with all its branches.
ListGrows ==
    \/ artifactList' = artifactList /\ (phase' = "completed" => artifactList = <<>>)
    \/ /\ Len(artifactList) + 1 \in DOMAIN BranchesOf
       /\ artifactList' = Append(artifactList,
              [project |-> Len(artifactList) + 1,
               branches |-> 1 .. BranchesOf[Len(artifactList) + 1]])
       /\ phase' \in {"branches", "completed"}

LEMMA FinishKeeps ==
    ASSUME RepositoryInv, phase \in {"branches", "details"},
           \A k \in Calls : failure[k] = "none",
           FinishProject(1 .. BranchesOf[at])
    PROVE  RepositoryInv' /\ ListGrows /\ phase' # "new"
<1> DEFINE Rec == [project : DOMAIN BranchesOf, branches : SUBSET Branch]
           new == [project |-> at, branches |-> 1 .. BranchesOf[at]]
<1>1. at \in DOMAIN BranchesOf /\ Len(artifactList) = at - 1 BY DEF RepositoryInv, ListedInOrder
<1>2. at \in Nat \ {0} BY <1>1, Projects
<1>3. artifactList \in Seq(Rec) /\ new \in Rec
      BY <1>1, Projects DEF RepositoryInv, RepositoryTypeOK
<1>4. artifactList' = Append(artifactList, new) /\ VisitProject(at + 1) /\ failure' = failure
      BY DEF FinishProject
<1>5. /\ artifactList' \in Seq(Rec) /\ Len(artifactList') = at
      /\ artifactList'[at] = new
      /\ \A i \in 1 .. at - 1 : artifactList'[i] = artifactList[i]
      BY <1>1, <1>2, <1>3, <1>4, AppendProperties
<1>6. \A i \in 1 .. at : artifactList'[i] = [project |-> i, branches |-> 1 .. BranchesOf[i]]
  <2>1. ASSUME NEW i \in 1 .. at
        PROVE  artifactList'[i] = [project |-> i, branches |-> 1 .. BranchesOf[i]]
    <3>1. CASE i = at BY <1>5, <3>1
    <3>2. CASE i # at
      <4>1. i \in 1 .. at - 1 BY <1>2, <3>2
      <4> QED BY <1>1, <1>5, <4>1 DEF RepositoryInv, ListedInOrder
    <3> QED BY <3>1, <3>2
  <2> QED BY <2>1
<1>8. RepositoryInv' /\ phase' \in {"branches", "completed"}
  <2> HIDE DEF Rec, new
  <2>1. artifactList' \in Seq([project : DOMAIN BranchesOf, branches : SUBSET Branch])
        BY <1>5 DEF Rec
  <2>2. RepositoryTypeOK /\ at \in 0 .. Len(BranchesOf)
        BY DEF RepositoryInv, RepositoryTypeOK
  <2> QED BY <1>4, <1>5, <1>6, <2>1, <2>2, Visits
<1>9. ListGrows
  <2>1. Len(artifactList) + 1 = at BY <1>1, <1>2
  <2> QED BY <1>1, <1>4, <1>8, <2>1 DEF ListGrows
<1> QED BY <1>8, <1>9

LEMMA DirectoriesListedKeeps ==
    ASSUME RepositoryInv, DirectoriesListed
    PROVE  RepositoryInv' /\ ListGrows /\ phase' # "new"
<1>1. /\ phase = "directories" /\ VisitProject(1) /\ failure' = failure
      /\ artifactList' = artifactList
      BY DEF DirectoriesListed
<1>2. artifactList = <<>> /\ \A k \in Calls : failure[k] = "none"
      BY <1>1 DEF RepositoryInv, ListedInOrder, Failures
<1>3. artifactList' \in Seq([project : DOMAIN BranchesOf, branches : SUBSET Branch])
      BY <1>1 DEF RepositoryInv, RepositoryTypeOK
<1>4. Len(artifactList') = 0 BY <1>1, <1>2
<1>5. \A i \in 1 .. 0 : artifactList'[i] = [project |-> i, branches |-> 1 .. BranchesOf[i]]
      OBVIOUS
<1>6. RepositoryInv' /\ phase' \in {"branches", "completed"}
  <2>1. RepositoryTypeOK /\ VisitProject(0 + 1) BY <1>1 DEF RepositoryInv
  <2>2. 0 \in 0 .. Len(BranchesOf) BY Projects
  <2> QED BY <1>1, <1>2, <1>3, <1>4, <1>5, <2>1, <2>2, Visits
<1> QED BY <1>1, <1>2, <1>6 DEF ListGrows

LEMMA BranchesListedKeeps ==
    ASSUME RepositoryInv, BranchesListed
    PROVE  RepositoryInv' /\ ListGrows /\ phase' # "new"
<1>1. phase = "branches" /\ at \in DOMAIN BranchesOf /\ \A k \in Calls : failure[k] = "none"
      BY DEF BranchesListed, RepositoryInv, ListedInOrder, Failures
<1>2. BranchesOf[at] \in Nat /\ 1 .. BranchesOf[at] \subseteq Branch BY <1>1, Projects
<1>3. CASE BranchesOf[at] = 0
  <2>1. 1 .. BranchesOf[at] = {} BY <1>3
  <2>2. FinishProject(1 .. BranchesOf[at]) BY <1>3, <2>1 DEF BranchesListed
  <2> QED BY <1>1, <2>2, FinishKeeps
<1>4. CASE BranchesOf[at] # 0
  <2>1. /\ phase' = "details" /\ SendOnly(1 .. BranchesOf[at])
        /\ UNCHANGED <<at, failure, gathered, artifactList>>
        BY <1>4 DEF BranchesListed
  <2>2. 1 .. BranchesOf[at] \in SUBSET Calls BY <1>2, Projects
  <2>3. /\ call' \in [Calls -> {"none", "sent", "answered", "refused", "cancelled"}]
        /\ registered' \in [Calls -> {"no", "live", "disposed"}]
        /\ segments' \in [Calls -> 0 .. MaxSegments]
        /\ \A k \in Calls : call'[k] = (IF k \in 1 .. BranchesOf[at] THEN "sent" ELSE "none")
        /\ EveryCallCancellable'
        BY <2>1, <2>2, Sent
  <2>4. RepositoryTypeOK' BY <2>1, <2>3 DEF RepositoryInv, RepositoryTypeOK
  <2>5. Pending'
    <3>1. Top \notin 1 .. BranchesOf[at] BY <1>2, Projects
    <3>2. call'[Top] = "none" BY <2>3, <3>1, Projects
    <3>3. \A b \in Branch : call'[b] # "none" => b \in 1 .. BranchesOf[at]
          BY <2>3, Projects
    <3> QED BY <2>1, <3>2, <3>3 DEF Pending, Running
  <2>6. gathered = {}
        BY <1>1 DEF RepositoryInv, Accounted
  <2>7. Accounted'
    <3>1. \A b \in 1 .. BranchesOf[at] : call'[b] # "none" BY <2>2, <2>3
    <3> QED BY <2>1, <2>6, <3>1 DEF Accounted
  <2>8. Failures' BY <1>1, <2>1, Projects DEF Failures
  <2>9. ListedInOrder' BY <1>1, <2>1 DEF RepositoryInv, ListedInOrder
  <2>10. ListGrows BY <2>1 DEF ListGrows
  <2> QED BY <2>1, <2>3, <2>4, <2>5, <2>7, <2>8, <2>9, <2>10 DEF RepositoryInv
<1> QED BY <1>3, <1>4

\* A listing that ended with an exception satisfies the invariant when no
\* request is pending any more.
LEMMA EndsWithException ==
    ASSUME RepositoryInv, RepositoryTypeOK', EveryCallCancellable',
           phase' \in {"canceled", "failed"}, artifactList' = artifactList,
           \A k \in Calls : call'[k] = "none"
    PROVE  RepositoryInv' /\ ListGrows
<1>1. Pending' /\ Accounted' /\ Failures' BY DEF Pending, Running, Accounted, Failures
<1>2. ListedInOrder' BY DEF RepositoryInv, ListedInOrder
<1> QED BY <1>1, <1>2 DEF RepositoryInv, ListGrows

\* One branch ends, well or with an exception, while others go on: it is
\* gathered or has failed.
LEMMA OthersGoOn ==
    ASSUME RepositoryInv, RepositoryTypeOK', EveryCallCancellable', phase = "details",
           NEW b \in Branch, call[b] # "none",
           UNCHANGED <<phase, at, artifactList>>,
           call' = [call EXCEPT ![b] = "none"],
           \/ gathered' = gathered \cup {b} /\ failure' = failure
           \/ gathered' = gathered /\ \E ex \in {"canceled", "failed"} :
                                          failure' = [failure EXCEPT ![b] = ex]
    PROVE  RepositoryInv' /\ ListGrows
<1>1. /\ at \in DOMAIN BranchesOf /\ call[Top] = "none" /\ b \in 1 .. BranchesOf[at]
      /\ \A x \in Branch : call[x] # "none" => x \in 1 .. BranchesOf[at]
      BY DEF RepositoryInv, ListedInOrder, Pending
<1>2. b # Top /\ b \in Calls /\ 1 .. BranchesOf[at] \subseteq Calls /\ Branch \subseteq Calls
      BY <1>1, Projects
<1>3. call'[b] = "none" /\ \A k \in Calls \ {b} : call'[k] = call[k]
      BY <1>2 DEF RepositoryInv, RepositoryTypeOK
<1>4. Pending'
  <2>1. call'[Top] = "none" BY <1>1, <1>2, <1>3, Projects
  <2>2. \A x \in Branch : call'[x] # "none" => x \in 1 .. BranchesOf[at]
        BY <1>1, <1>2, <1>3
  <2> QED BY <2>1, <2>2 DEF Pending, Running
<1>5. \A k \in Calls \ {b} : failure'[k] = failure[k]
      BY <1>2 DEF RepositoryInv, RepositoryTypeOK
<1>6. b \in gathered' \/ failure'[b] # "none"
      BY <1>2 DEF RepositoryInv, RepositoryTypeOK
<1>7. gathered \subseteq gathered' /\ gathered' \subseteq 1 .. BranchesOf[at]
      BY <1>1 DEF RepositoryInv, Accounted
<1>8. Accounted'
  <2>1. ASSUME NEW x \in 1 .. BranchesOf[at]
        PROVE  call'[x] # "none" \/ x \in gathered' \/ failure'[x] # "none"
    <3>1. CASE x = b BY <1>6, <3>1
    <3>2. CASE x # b
          BY <1>2, <1>3, <1>5, <1>7, <3>2 DEF RepositoryInv, Accounted
    <3> QED BY <3>1, <3>2
  <2> QED BY <1>7, <2>1 DEF Accounted
<1>9. Failures' BY <1>2, <1>5, Projects DEF RepositoryInv, Failures
<1>10. ListedInOrder' BY DEF RepositoryInv, ListedInOrder
<1> QED BY <1>4, <1>8, <1>9, <1>10 DEF RepositoryInv, ListGrows

LEMMA DetailsListedKeeps ==
    ASSUME RepositoryInv, NEW b \in Branch, DetailsListed(b)
    PROVE  RepositoryInv' /\ ListGrows /\ phase' # "new"
<1>1. phase = "details" /\ call[b] = "answered" BY DEF DetailsListed
<1>2. /\ at \in DOMAIN BranchesOf /\ call[Top] = "none" /\ failure[Top] = "none"
      /\ \A x \in Branch : call[x] # "none" => x \in 1 .. BranchesOf[at]
      /\ b \in 1 .. BranchesOf[at]
      BY <1>1 DEF RepositoryInv, ListedInOrder, Pending, Failures
<1>3. 1 .. BranchesOf[at] \subseteq Branch /\ b \in Calls /\ Calls = {Top} \cup Branch
      BY <1>2, Projects
<1>4. CASE WhenAllDone(b) /\ NoneFailed /\ FinishProject(gathered \cup {b})
  <2>1. gathered \cup {b} = 1 .. BranchesOf[at]
    <3>1. ASSUME NEW x \in 1 .. BranchesOf[at] PROVE x \in gathered \cup {b}
      <4>1. x = b \/ call[x] = "none" BY <1>3, <1>4 DEF WhenAllDone
      <4>2. failure[x] = "none" BY <1>3, <1>4 DEF NoneFailed
      <4> QED BY <1>1, <4>1, <4>2 DEF RepositoryInv, Accounted
    <3>2. gathered \subseteq 1 .. BranchesOf[at] BY <1>1 DEF RepositoryInv, Accounted
    <3> QED BY <1>2, <3>1, <3>2
  <2>2. \A k \in Calls : failure[k] = "none" BY <1>2, <1>3, <1>4 DEF NoneFailed
  <2>3. FinishProject(1 .. BranchesOf[at]) BY <1>4, <2>1
  <2> QED BY <1>1, <2>2, <2>3, FinishKeeps
<1>5. CASE /\ call' = [call EXCEPT ![b] = "none"]
           /\ registered' = [registered EXCEPT ![b] = "no"]
           /\ UNCHANGED <<segments, failure>>
           /\ gathered' = gathered \cup {b}
           /\ ~ (WhenAllDone(b) /\ NoneFailed)
           /\ IF WhenAllDone(b)
              THEN WhenAllThrows(failure)
              ELSE UNCHANGED <<phase, at, artifactList>>
  <2>1. /\ call' \in [Calls -> {"none", "sent", "answered", "refused", "cancelled"}]
        /\ call'[b] = "none" /\ \A k \in Calls \ {b} : call'[k] = call[k]
        BY <1>3, <1>5 DEF RepositoryInv, RepositoryTypeOK
  <2>2. /\ registered' \in [Calls -> {"no", "live", "disposed"}]
        /\ \A k \in Calls \ {b} : registered'[k] = registered[k]
        BY <1>3, <1>5 DEF RepositoryInv, RepositoryTypeOK
  <2>3. EveryCallCancellable' BY <2>1, <2>2 DEF RepositoryInv, EveryCallCancellable
  <2>4. CASE WhenAllDone(b)
    <3>1. \E x \in Branch : failure[x] # "none" BY <1>5, <2>4 DEF NoneFailed
    <3>2. phase' \in {"canceled", "failed"} /\ at' = at /\ artifactList' = artifactList
          BY <1>5, <2>4, <3>1, ThrowsOne DEF RepositoryInv, RepositoryTypeOK
    <3>3. \A k \in Calls : call'[k] = "none"
          BY <1>2, <1>3, <2>1, <2>4 DEF WhenAllDone
    <3>4. RepositoryTypeOK'
          BY <1>5, <2>1, <2>2, <3>2 DEF RepositoryInv, RepositoryTypeOK
    <3> QED BY <2>3, <3>2, <3>3, <3>4, EndsWithException
  <2>5. CASE ~WhenAllDone(b)
    <3>1. UNCHANGED <<phase, at, artifactList>> BY <1>5, <2>5
    <3>2. RepositoryTypeOK'
          BY <1>5, <2>1, <2>2, <3>1 DEF RepositoryInv, RepositoryTypeOK
    <3> QED BY <1>1, <1>5, <2>3, <3>1, <3>2, OthersGoOn
  <2> QED BY <2>4, <2>5
<1> QED BY <1>4, <1>5 DEF DetailsListed

LEMMA SegmentThrowsKeeps ==
    ASSUME RepositoryInv, NEW k \in Calls, SegmentThrows(k)
    PROVE  RepositoryInv' /\ ListGrows /\ phase' # "new"
<1> DEFINE ex == IF call[k] = "cancelled" THEN "canceled" ELSE "failed"
<1>0. ex \in {"canceled", "failed"} OBVIOUS
<1>1. /\ call[k] \in {"refused", "cancelled"}
      /\ call' = [call EXCEPT ![k] = "none"]
      /\ registered' = [registered EXCEPT ![k] = IF @ = "live" THEN "disposed" ELSE "no"]
      /\ failure' = [failure EXCEPT ![k] = ex]
      /\ UNCHANGED <<segments, gathered>>
      /\ k = Top => phase' = ex /\ UNCHANGED <<at, artifactList>>
      /\ k # Top => IF WhenAllDone(k) THEN WhenAllThrows(failure')
                    ELSE UNCHANGED <<phase, at, artifactList>>
      BY DEF SegmentThrows
<1> HIDE DEF ex
<1>2. /\ call' \in [Calls -> {"none", "sent", "answered", "refused", "cancelled"}]
      /\ call'[k] = "none" /\ \A j \in Calls \ {k} : call'[j] = call[j]
      BY <1>1 DEF RepositoryInv, RepositoryTypeOK
<1>3. /\ registered' \in [Calls -> {"no", "live", "disposed"}]
      /\ \A j \in Calls \ {k} : registered'[j] = registered[j]
      BY <1>1 DEF RepositoryInv, RepositoryTypeOK
<1>4. EveryCallCancellable' BY <1>2, <1>3 DEF RepositoryInv, EveryCallCancellable
<1>5. failure' \in [Calls -> {"none", "canceled", "failed"}] /\ failure'[k] = ex
      BY <1>0, <1>1 DEF RepositoryInv, RepositoryTypeOK
<1>6. segments' \in [Calls -> 0 .. MaxSegments] /\ gathered' \subseteq Branch
      BY <1>1 DEF RepositoryInv, RepositoryTypeOK
<1>7. Running /\ call[k] # "none"
      BY <1>1 DEF RepositoryInv, Pending
<1>8. CASE k = Top
  <2>1. phase' \in {"canceled", "failed"} /\ at' = at /\ artifactList' = artifactList
        BY <1>0, <1>1, <1>8
  <2>2. phase \in {"directories", "branches"}
        BY <1>7, <1>8 DEF RepositoryInv, Pending, Running
  <2>3. \A j \in Calls : call'[j] = "none"
        BY <1>2, <1>8, <2>2, Projects DEF RepositoryInv, Pending
  <2>4. RepositoryTypeOK'
        BY <1>2, <1>3, <1>5, <1>6, <2>1 DEF RepositoryInv, RepositoryTypeOK
  <2> QED BY <1>4, <2>1, <2>3, <2>4, EndsWithException
<1>9. CASE k # Top
  <2>1. k \in Branch /\ Calls = {Top} \cup Branch BY <1>9, Projects
  <2>2. phase = "details" /\ call[Top] = "none"
        BY <1>7, <2>1 DEF RepositoryInv, Pending, Running
  <2>3. CASE WhenAllDone(k)
    <3>1. WhenAllThrows(failure') BY <1>1, <1>9, <2>3
    <3>2. \E b \in Branch : failure'[b] # "none" BY <1>0, <1>5, <2>1
    <3>3. phase' \in {"canceled", "failed"} /\ at' = at /\ artifactList' = artifactList
          BY <1>5, <3>1, <3>2, ThrowsOne
    <3>4. \A j \in Calls : call'[j] = "none"
          BY <1>2, <2>1, <2>2, <2>3 DEF WhenAllDone
    <3>5. RepositoryTypeOK'
          BY <1>2, <1>3, <1>5, <1>6, <3>3 DEF RepositoryInv, RepositoryTypeOK
    <3> QED BY <1>4, <3>3, <3>4, <3>5, EndsWithException
  <2>4. CASE ~WhenAllDone(k)
    <3>1. UNCHANGED <<phase, at, artifactList>> BY <1>1, <1>9, <2>4
    <3>2. RepositoryTypeOK'
          BY <1>2, <1>3, <1>5, <1>6, <3>1 DEF RepositoryInv, RepositoryTypeOK
    <3> QED BY <1>0, <1>1, <1>4, <1>7, <2>1, <2>2, <3>1, <3>2, OthersGoOn
  <2> QED BY <2>3, <2>4
<1> QED BY <1>8, <1>9

\* A continuation runs while the listing does.
LEMMA ResumeKeeps ==
    ASSUME RepositoryInv, NEW k \in Calls, Resume(k)
    PROVE  RepositoryInv' /\ ListGrows /\ phase' # "new" /\ Running
<1>1. call[k] # "none"
  <2>1. CASE NextSegment(k) BY <2>1 DEF NextSegment
  <2>2. CASE k = Top /\ (DirectoriesListed \/ BranchesListed)
        BY <2>2 DEF DirectoriesListed, BranchesListed
  <2>3. CASE DetailsListed(k) BY <2>3 DEF DetailsListed
  <2>4. CASE SegmentThrows(k) BY <2>4 DEF SegmentThrows
  <2> QED BY <2>1, <2>2, <2>3, <2>4 DEF Resume
<1>2. Running BY <1>1 DEF RepositoryInv, Pending
<1>3. CASE NextSegment(k)
  <2>1. RepositoryInv' BY <1>3, NextSegmentKeeps
  <2>2. artifactList' = artifactList /\ phase' = phase BY <1>3 DEF NextSegment
  <2> QED BY <1>2, <2>1, <2>2 DEF ListGrows, Running
<1>4. CASE DirectoriesListed BY <1>2, <1>4, DirectoriesListedKeeps
<1>5. CASE BranchesListed BY <1>2, <1>5, BranchesListedKeeps
<1>6. CASE k # Top /\ DetailsListed(k)
  <2>1. k \in Branch BY <1>6, Projects
  <2> QED BY <1>2, <1>6, <2>1, DetailsListedKeeps
<1>7. CASE SegmentThrows(k) BY <1>2, <1>7, SegmentThrowsKeeps
<1> QED BY <1>3, <1>4, <1>5, <1>6, <1>7 DEF Resume

\* A new listing, or one that ends at once, on a repository of its own.
LEMMA NewListingKeeps ==
    ASSUME ListArtifacts \/ ListArtifactsRejected
    PROVE  RepositoryInv'
<1>1. PICK S \in {{}, {Top}} : SendOnly(S)
      BY DEF ListArtifacts, ListArtifactsRejected
<1>2. S \in SUBSET Calls BY <1>1, Projects
<1>3. /\ call' \in [Calls -> {"none", "sent", "answered", "refused", "cancelled"}]
      /\ registered' \in [Calls -> {"no", "live", "disposed"}]
      /\ segments' \in [Calls -> 0 .. MaxSegments]
      /\ \A k \in Calls : call'[k] = (IF k \in S THEN "sent" ELSE "none")
      /\ EveryCallCancellable'
      BY <1>1, <1>2, Sent
<1>4. /\ phase' \in {"directories", "failed"} /\ at' = 0
      /\ failure' = [k \in Calls |-> "none"] /\ gathered' = {} /\ artifactList' = <<>>
      BY DEF ListArtifacts, ListArtifactsRejected, Fresh
<1>5. artifactList' \in Seq([project : DOMAIN BranchesOf, branches : SUBSET Branch])
      BY <1>4, EmptySeq
<1>6. RepositoryTypeOK'
  <2>1. 0 \in 0 .. Len(BranchesOf) BY Projects
  <2> QED BY <1>3, <1>4, <1>5, <2>1 DEF RepositoryTypeOK
<1>7. Pending'
  <2>1. \A k \in Branch : call'[k] = "none" BY <1>1, <1>3, Projects
  <2>2. phase' = "failed" => SendOnly({})
        BY DEF ListArtifacts, ListArtifactsRejected, Fresh
  <2>3. phase' = "failed" => \A k \in Calls : call'[k] = "none" BY <2>2 DEF SendOnly
  <2> QED BY <1>4, <2>1, <2>3 DEF Pending, Running
<1>8. Accounted' /\ Failures' BY <1>4 DEF Accounted, Failures
<1>9. ListedInOrder'
  <2>1. Len(artifactList') = 0 BY <1>4
  <2>2. 1 .. Len(artifactList') = {} BY <2>1
  <2> QED BY <1>4, <2>2 DEF ListedInOrder
<1> QED BY <1>3, <1>6, <1>7, <1>8, <1>9 DEF RepositoryInv

-----------------------------------------------------------------------------
(* The steps of the use case and of the page                               *)

LEMMA InitInv == Init => Inv
<1> SUFFICES ASSUME Init PROVE Inv OBVIOUS
<1> USE DEF Init, UseCaseInit, RepositoryInit
<1>1. RepositoryTypeOK
  <2>1. 0 \in 0 .. Len(BranchesOf) /\ 0 \in 0 .. MaxSegments BY Projects
  <2>2. artifactList \in Seq([project : DOMAIN BranchesOf, branches : SUBSET Branch])
        BY EmptySeq
  <2>3. segments \in [Calls -> 0 .. MaxSegments] BY <2>1
  <2> QED BY <2>1, <2>2, <2>3 DEF RepositoryTypeOK
<1>2. RepositoryInv
  <2>1. EveryCallCancellable /\ Pending /\ Accounted /\ Failures
        BY DEF EveryCallCancellable, Pending, Running, Accounted, Failures
  <2>2. 1 .. Len(artifactList) = {}
    <3>1. Len(artifactList) = 0 OBVIOUS
    <3> QED BY <3>1
  <2>3. ListedInOrder BY <2>2 DEF ListedInOrder
  <2> QED BY <1>1, <2>1, <2>3 DEF RepositoryInv
<1>3. Page
  <2>1. 0 \in 0 .. MaxRequests BY RequestsBounded
  <2>2. current \in Seq(Artifact(MaxRequests)) BY EmptySeq
  <2> QED BY <2>1, <2>2, Projects DEF Page
<1>4. caches \in Seq(Finished) /\ projects \in Seq(Whole) BY EmptySeq
<1>5. Len(caches) = 0 /\ 1 .. Len(caches) = {}
  <2>1. Len(caches) = 0 OBVIOUS
  <2> QED BY <2>1
<1>6. CacheFinished BY <1>4, <1>5 DEF CacheFinished
<1>7. (isChecking <=> Running) /\ CurrentFollows /\ LastPublished
      BY DEF Running, CurrentFollows, LastPublished
<1> QED BY <1>2, <1>3, <1>4, <1>6, <1>7 DEF Inv

\* A step outside the listing that offers only what is finished.
LEMMA PageOnly ==
    ASSUME Inv, RepositoryInv', Page', projects' \in Seq(Whole),
           branches' \subseteq Finished, artifacts' \subseteq Finished,
           UNCHANGED <<phase, artifactList, requests, current, caches, isChecking,
                       lastArtifact>>
    PROVE  Inv'
<1>1. Finished' = Finished BY DEF Finished
<1>2. CacheFinished' BY <1>1 DEF Inv, CacheFinished
<1>3. CurrentFollows' BY DEF Inv, CurrentFollows, Running
<1>4. LastPublished' BY DEF Inv, LastPublished, Running
<1>5. isChecking' <=> Running' BY DEF Inv, Running
<1> QED BY <1>2, <1>3, <1>4, <1>5 DEF Inv

\* The invariant of the repository holds as long as it is left alone.
LEMMA RepositoryAlone ==
    ASSUME RepositoryInv, UNCHANGED repositoryVars PROVE RepositoryInv'
<1>1. UNCHANGED <<phase, at, call, registered, segments, failure, gathered, artifactList>>
      BY DEF repositoryVars
<1>2. RepositoryTypeOK' BY <1>1 DEF RepositoryInv, RepositoryTypeOK
<1>3. EveryCallCancellable' BY <1>1 DEF RepositoryInv, EveryCallCancellable
<1> QED BY <1>1, <1>2, <1>3, OnlyCalls

LEMMA ServiceStepInv ==
    ASSUME Inv, NEW k \in Calls, ServiceStep(k) PROVE Inv'
<1>1. RepositoryInv' BY ServiceKeeps DEF Inv, ServiceStep
<1>2. UNCHANGED <<phase, artifactList>> /\ UNCHANGED <<useCaseVars, listVars, selectionVars, down>>
      BY DEF ServiceStep, Answer, Refuse
<1>3. UNCHANGED <<repository, requests, current, caches, isChecking, projects, lastArtifact,
                  selectedProject, branches, selectedBranch, artifacts, hasArtifact, hasUrl,
                  down>>
      BY <1>2 DEF useCaseVars, listVars, selectionVars
<1>4. Page' BY <1>3 DEF Inv, Page
<1> QED BY <1>1, <1>2, <1>3, <1>4, PageOnly DEF Inv, CacheFinished

LEMMA ClickCancelInv == ASSUME Inv, ClickCancel PROVE Inv'
<1>1. /\ UNCHANGED useCaseVars /\ projects' = <<>> /\ selectedProject' = NoProject
      /\ UNCHANGED <<isChecking, lastArtifact, branches, selectedBranch, artifacts,
                     hasArtifact, hasUrl>>
      /\ down' \in BOOLEAN
      BY DEF ClickCancel, CancelRequest, CancelRequestThrows, Inv, Page
<1>2. Cancel \/ CancelThrows \/ UNCHANGED repositoryVars
      BY DEF ClickCancel, CancelRequest, CancelRequestThrows
<1>3. RepositoryInv' BY <1>2, CancelKeeps, RepositoryAlone DEF Inv
<1>4. UNCHANGED <<phase, artifactList>>
      BY <1>2 DEF Cancel, CancelThrows, repositoryVars
<1>5. UNCHANGED <<repository, requests, current, caches>> BY <1>1 DEF useCaseVars
<1>6. Page' BY <1>1, <1>5 DEF Inv, Page
<1>7. projects' \in Seq(Whole) BY <1>1, EmptySeq
<1> QED BY <1>1, <1>3, <1>4, <1>5, <1>6, <1>7, PageOnly DEF Inv, CacheFinished

\* Clicks that leave the listing alone: download, copy and select.
LEMMA ClickInv ==
    ASSUME Inv,
           \/ ClickDownload \/ DownloadEnds \/ ClickCopy \/ CopyDisables \/ CopyEnables
           \/ SelectArtifact
           \/ \E e \in ToSet(projects) : SelectProject(e)
           \/ \E b \in Branch : SelectBranch(b)
    PROVE  Inv'
<1>1. UNCHANGED repositoryVars
      BY DEF ClickDownload, Download, DownloadEnds, ClickCopy, CopyDisables, CopyEnables,
             SelectArtifact, SelectProject, SelectBranch
<1>2. UNCHANGED <<requests, current, caches>> /\ UNCHANGED listVars
      BY DEF ClickDownload, Download, DownloadEnds, ClickCopy, CopyDisables, CopyEnables,
             SelectArtifact, SelectProject, SelectBranch, useCaseVars
<1>3. RepositoryInv' BY <1>1, RepositoryAlone DEF Inv
<1>4. UNCHANGED <<phase, artifactList, isChecking, projects, lastArtifact>>
      BY <1>1, <1>2 DEF repositoryVars, listVars
<1>5. ToSet(caches) \subseteq Finished
  <2>1. \A i \in DOMAIN caches : caches[i] \in Finished
        BY LenProperties, ElementOfSeq DEF Inv, CacheFinished
  <2> QED BY <2>1 DEF ToSet
<1>6. Page' /\ branches' \subseteq Finished /\ artifacts' \subseteq Finished
  <2>1. CASE ClickDownload \/ DownloadEnds \/ ClickCopy \/ CopyDisables \/ CopyEnables
          \/ SelectArtifact
    <3>1. /\ UNCHANGED <<selectedProject, branches, selectedBranch, artifacts>>
          /\ repository' \in {repository, "download"}
          /\ hasArtifact' \in BOOLEAN /\ hasUrl' \in BOOLEAN
          /\ down' \in BOOLEAN
          BY <2>1 DEF ClickDownload, Download, DownloadEnds, ClickCopy, CopyDisables,
                      CopyEnables, SelectArtifact, useCaseVars, selectionVars, Inv, Page
    <3> QED BY <1>2, <1>4, <3>1 DEF Inv, Page, CacheFinished
  <2>2. ASSUME NEW e \in ToSet(projects), SelectProject(e)
        PROVE  Page' /\ branches' \subseteq Finished /\ artifacts' \subseteq Finished
    <3>1. /\ selectedProject' = e /\ branches' = ArtifactCache(e.project)
          /\ selectedBranch' = Top /\ artifacts' = {} /\ hasArtifact' = FALSE
          /\ UNCHANGED <<hasUrl, down>> /\ repository' = repository
          BY <2>2 DEF SelectProject, useCaseVars
    <3>2. e \in Artifact(MaxRequests)
      <4>1. PICK i \in DOMAIN projects : e = projects[i] BY DEF ToSet
      <4>2. e \in Whole BY <4>1, LenProperties, ElementOfSeq DEF Inv
      <4> QED BY <4>2 DEF Whole
    <3>3. branches' \subseteq Finished BY <1>5, <3>1 DEF ArtifactCache
    <3> QED BY <1>2, <1>4, <3>1, <3>2, <3>3, Projects DEF Inv, Page
  <2>3. ASSUME NEW b \in Branch, SelectBranch(b)
        PROVE  Page' /\ branches' \subseteq Finished /\ artifacts' \subseteq Finished
    <3>1. /\ selectedBranch' = b /\ hasArtifact' = FALSE
          /\ artifacts' \subseteq ToSet(caches)
          /\ UNCHANGED <<selectedProject, branches, hasUrl, down>>
          /\ repository' = repository
          BY <2>3 DEF SelectBranch, useCaseVars, ArtifactDetailCache
    <3> QED BY <1>2, <1>4, <1>5, <3>1, Projects DEF Inv, Page, CacheFinished
  <2> QED BY <2>1, <2>2, <2>3
<1>7. projects' \in Seq(Whole) BY <1>4 DEF Inv
<1> QED BY <1>2, <1>3, <1>4, <1>6, <1>7, PageOnly

\* A new request makes every earlier listing one that is over.
LEMMA EarlierFinished ==
    ASSUME requests \in Nat, requests' = requests + 1 PROVE Finished \subseteq Finished'
<1>1. ASSUME NEW e \in Finished PROVE e \in Finished'
  <2>1. e \in Whole /\ e.listing \in Nat /\ e.listing <= requests
        BY RequestsBounded DEF Finished, Whole, Artifact
  <2>2. e.listing <= requests' /\ e.listing # requests' BY <2>1
  <2> QED BY <2>1, <2>2 DEF Finished
<1> QED BY <1>1

LEMMA LastCached ==
    ASSUME Inv, caches # <<>>
    PROVE  /\ Len(caches) \in Nat \ {0} /\ Last(caches) = caches[Len(caches)]
           /\ Last(caches) \in Finished /\ Last(caches) \in Artifact(MaxRequests)
<1>1. caches \in Seq(Finished) BY DEF Inv, CacheFinished
<1>2. Len(caches) \in Nat \ {0} BY <1>1, EmptySeq
<1>3. Last(caches) = caches[Len(caches)] BY DEF Last
<1>4. Len(caches) \in 1 .. Len(caches) BY <1>2
<1>5. caches[Len(caches)] \in Finished BY <1>1, <1>4, ElementOfSeq
<1> QED BY <1>2, <1>3, <1>5 DEF Finished, Whole

LEMMA CheckInv == ASSUME Inv, Check \/ CheckRejected PROVE Inv'
<1>1. /\ ~Running /\ requests \in 0 .. MaxRequests /\ requests < MaxRequests
      BY DEF Check, CheckRejected, Inv, Page
<1>2. /\ requests' = requests + 1 /\ current' = <<>> /\ repository' = "listing"
      /\ caches' = caches /\ projects' = <<>>
      /\ selectedProject' = NoProject /\ branches' = {} /\ selectedBranch' = Top
      /\ artifacts' = {} /\ hasArtifact' = FALSE /\ UNCHANGED <<hasUrl, down>>
      BY DEF Check, CheckRejected, RequestHoloLensPackages, RequestRejected, NewRequest, ClearAll
<1>3. requests \in Nat /\ requests' \in 1 .. MaxRequests
      BY <1>1, <1>2, RequestsBounded
<1>4. RepositoryInv'
  <2>1. ListArtifacts \/ ListArtifactsRejected
        BY DEF Check, CheckRejected, RequestHoloLensPackages, RequestRejected
  <2> QED BY <2>1, NewListingKeeps
<1>5. \/ /\ phase' = "directories" /\ isChecking' = TRUE /\ lastArtifact' = lastArtifact
      \/ /\ phase' = "failed" /\ isChecking' = isChecking /\ lastArtifact' = Latest(caches)
      BY DEF Check, CheckRejected, RequestHoloLensPackages, RequestRejected, ListArtifacts,
             ListArtifactsRejected, Fresh
<1>6. isChecking' <=> Running' BY <1>1, <1>5 DEF Running, Inv
<1>7. artifactList' = <<>>
      BY DEF Check, CheckRejected, RequestHoloLensPackages, RequestRejected, ListArtifacts,
             ListArtifactsRejected, Fresh
<1>8. CurrentFollows'
  <2>1. Len(current') = 0 /\ Len(artifactList') = 0 BY <1>2, <1>7
  <2>2. 1 .. Len(current') = {} BY <2>1
  <2>3. requests' >= 1 BY <1>3
  <2> QED BY <2>1, <2>2, <2>3 DEF CurrentFollows
<1>9. CacheFinished'
  <2>1. Finished \subseteq Finished' BY <1>2, <1>3, EarlierFinished
  <2>2. caches' \in Seq(Finished') BY <1>2, <2>1, SeqMonotonic DEF Inv, CacheFinished
  <2> QED BY <1>2, <2>2 DEF Inv, CacheFinished
<1>10. caches # <<>> => lastArtifact = Last(caches)
       BY <1>1, LastCached DEF Inv, LastPublished
<1>11. lastArtifact' = lastArtifact BY <1>5, <1>10 DEF Latest
<1>12. LastPublished'
       BY <1>2, <1>10, <1>11, LastCached DEF LastPublished
<1>13. projects' \in Seq(Whole) BY <1>2, EmptySeq
<1>14. Page'
  <2>1. current' \in Seq(Artifact(MaxRequests)) BY <1>2, EmptySeq
  <2>2. requests' \in 0 .. MaxRequests BY <1>3
  <2>3. isChecking' \in BOOLEAN BY <1>5 DEF Inv, Page
  <2> QED BY <1>2, <1>11, <2>1, <2>2, <2>3, Projects DEF Inv, Page
<1> QED BY <1>4, <1>6, <1>8, <1>9, <1>12, <1>13, <1>14 DEF Inv

\* What the use case is handed in a step of the listing: nothing, or the
\* entity of the next project.
NextArtifact == [project |-> Len(artifactList) + 1,
                 branches |-> 1 .. BranchesOf[Len(artifactList) + 1],
                 listing |-> requests]

LEMMA GotNext ==
    ASSUME RepositoryInv, ListGrows
    PROVE  \/ artifactList' = artifactList /\ (phase' = "completed" => artifactList = <<>>)
              /\ Got = <<>>
           \/ /\ Len(artifactList) + 1 \in DOMAIN BranchesOf
              /\ Len(artifactList') = Len(artifactList) + 1
              /\ phase' \in {"branches", "completed"}
              /\ Got = <<NextArtifact>>
<1> DEFINE Rec == [project : DOMAIN BranchesOf, branches : SUBSET Branch]
           n == Len(artifactList)
<1>1. artifactList \in Seq(Rec) BY DEF RepositoryInv, RepositoryTypeOK
<1>2. n \in Nat BY <1>1, LenProperties
<1>3. CASE artifactList' = artifactList /\ (phase' = "completed" => artifactList = <<>>)
  <2>1. 1 .. Len(artifactList') - Len(artifactList) = {} BY <1>2, <1>3
  <2>2. Got = <<>> BY <2>1 DEF Got
  <2> QED BY <1>3, <2>2
<1>4. CASE /\ n + 1 \in DOMAIN BranchesOf
           /\ artifactList' = Append(artifactList, [project |-> n + 1,
                                                    branches |-> 1 .. BranchesOf[n + 1]])
           /\ phase' \in {"branches", "completed"}
  <2> DEFINE e == [project |-> n + 1, branches |-> 1 .. BranchesOf[n + 1]]
  <2>1. e \in Rec BY <1>4, Projects
  <2>2. Len(artifactList') = n + 1 /\ artifactList'[n + 1] = e
        BY <1>1, <1>2, <1>4, <2>1, AppendProperties
  <2>3. Len(artifactList') - Len(artifactList) = 1 BY <1>2, <2>2
  <2>4. Got = [i \in 1 .. 1 |->
                  [project |-> artifactList'[n + i].project,
                   branches |-> artifactList'[n + i].branches, listing |-> requests]]
        BY <2>3 DEF Got
  <2>5. Got = [i \in 1 .. 1 |-> NextArtifact]
    <3>1. \A i \in 1 .. 1 : artifactList'[n + i] = e BY <1>2, <2>2
    <3> QED BY <2>4, <3>1 DEF NextArtifact
  <2>6. Got = <<NextArtifact>> BY <2>5
  <2> QED BY <1>4, <2>2, <2>6
<1> QED BY <1>3, <1>4 DEF ListGrows

\* Dropping a repeated first value leaves whole projects.
LEMMA DistinctWhole ==
    ASSUME NEW es \in Seq(Whole) PROVE Distinct(es) \in Seq(Whole)
<1>1. CASE es # <<>> BY <1>1, HeadTailProperties DEF Distinct
<1>2. CASE es = <<>> BY <1>2 DEF Distinct
<1> QED BY <1>1, <1>2

\* While a listing runs, what was finished before stays so.
LEMMA StaysFinished ==
    ASSUME Running, requests' = requests PROVE Finished \subseteq Finished'
BY DEF Finished, Running

LEMMA NextWhole ==
    ASSUME Inv, Running, Len(artifactList) + 1 \in DOMAIN BranchesOf
    PROVE  NextArtifact \in Whole /\ NextArtifact.listing = requests
<1>1. requests \in 1 .. MaxRequests
  <2>1. requests \in 0 .. MaxRequests /\ requests >= 1 BY DEF Inv, Page, CurrentFollows
  <2> QED BY <2>1, RequestsBounded
<1>2. 1 .. BranchesOf[Len(artifactList) + 1] \in SUBSET Branch BY Projects
<1>3. NextArtifact \in Artifact(MaxRequests) BY <1>1, <1>2 DEF NextArtifact, Artifact
<1> QED BY <1>3 DEF Whole, NextArtifact

\* The artifacts of the running listing after the next one is added.
LEMMA CurrentGrows ==
    ASSUME Inv, Running, Len(artifactList) + 1 \in DOMAIN BranchesOf,
           current' = current \o <<NextArtifact>>, requests' = requests,
           Len(artifactList') = Len(artifactList) + 1
    PROVE  /\ current' \in Seq(Artifact(MaxRequests)) /\ Len(current') = Len(artifactList')
           /\ Len(current') \in Nat \ {0} /\ current'[Len(current')] = NextArtifact
           /\ \A i \in 1 .. Len(current') :
                  current'[i] = [project |-> i, branches |-> 1 .. BranchesOf[i],
                                 listing |-> requests]
<1> DEFINE n == Len(artifactList)
<1>1. current \in Seq(Artifact(MaxRequests)) /\ Len(current) = n
      BY DEF Inv, Page, CurrentFollows
<1>2. n \in Nat BY <1>1, LenProperties
<1>3. <<NextArtifact>> \in Seq(Artifact(MaxRequests)) /\ Len(<<NextArtifact>>) = 1
      /\ <<NextArtifact>>[1] = NextArtifact
      BY NextWhole DEF Whole
<1>4. /\ current' \in Seq(Artifact(MaxRequests)) /\ Len(current') = n + 1
      /\ \A i \in 1 .. n + 1 :
             current'[i] = IF i <= n THEN current[i] ELSE <<NextArtifact>>[i - n]
      BY <1>1, <1>3, ConcatProperties
<1>5. current'[n + 1] = NextArtifact
  <2>1. n + 1 \in 1 .. n + 1 /\ ~(n + 1 <= n) /\ (n + 1) - n = 1 BY <1>2
  <2> QED BY <1>3, <1>4, <2>1
<1>6. ASSUME NEW i \in 1 .. n + 1
      PROVE  current'[i] = [project |-> i, branches |-> 1 .. BranchesOf[i], listing |-> requests]
  <2>1. CASE i = n + 1 BY <1>5, <2>1 DEF NextArtifact
  <2>2. CASE i # n + 1
    <3>1. i \in 1 .. n /\ i <= n BY <1>2, <2>2
    <3>2. current'[i] = current[i] BY <1>4, <3>1
    <3>3. current[i] = [project |-> i, branches |-> 1 .. BranchesOf[i], listing |-> requests]
          BY <1>1, <3>1 DEF Inv, CurrentFollows
    <3> QED BY <3>2, <3>3
  <2> QED BY <2>1, <2>2
<1> QED BY <1>2, <1>4, <1>5, <1>6

LEMMA ListingStepInv ==
    ASSUME Inv, NEW k \in Calls, ListingStep(k) PROVE Inv'
<1>1. /\ Resume(k) /\ FollowListing /\ AddProjects(Published) /\ isChecking' = StillAwaited
      /\ UNCHANGED <<selectionVars, down>>
      BY DEF ListingStep, RequestStep
<1>2. /\ RepositoryInv /\ RepositoryInv' /\ ListGrows /\ phase' # "new" /\ Running
      BY <1>1, ResumeKeeps DEF Inv
<1>3. /\ UNCHANGED <<selectedProject, branches, selectedBranch, artifacts, hasArtifact, hasUrl,
                     down>>
      /\ requests' = requests
      /\ current' = current \o Got
      /\ phase' = "completed" => caches' = current' /\ repository' = "none"
      /\ phase' # "completed" => caches' = caches /\ repository' = repository
      /\ projects' = projects \o Distinct(Published) /\ lastArtifact' = Latest(Published)
      BY <1>1 DEF FollowListing, AddProjects, selectionVars
<1>4. phase' \in {"directories", "branches", "details", "completed", "canceled", "failed"}
      BY <1>2 DEF RepositoryInv, RepositoryTypeOK
<1>5. isChecking' \in BOOLEAN /\ (isChecking' <=> Running')
  <2>1. isChecking' = (phase' \in {"directories", "branches", "details"})
        BY <1>1 DEF StillAwaited
  <2>2. Running' <=> phase' \in {"directories", "branches", "details"} BY DEF Running
  <2>3. (phase' \in {"directories", "branches", "details"}) \in BOOLEAN OBVIOUS
  <2> QED BY <2>1, <2>2, <2>3, Zenon
<1>6. /\ caches \in Seq(Finished) /\ projects \in Seq(Whole) /\ requests >= 1
      /\ current \in Seq(Artifact(MaxRequests))
      /\ branches \subseteq Finished /\ artifacts \subseteq Finished
      BY <1>2 DEF Inv, CacheFinished, CurrentFollows, Page
<1>7. Finished \subseteq Finished' BY <1>2, <1>3, StaysFinished
<1>8. caches \in Seq(Whole)
  <2>1. Finished \subseteq Whole BY DEF Finished
  <2> QED BY <1>6, <2>1, SeqMonotonic
<1>9. Published \in Seq(Whole) => projects' \in Seq(Whole)
      BY <1>3, <1>6, DistinctWhole, ConcatProperties
<1>10. ASSUME current' \in Seq(Artifact(MaxRequests)),
              lastArtifact' = None \/ lastArtifact' \in Artifact(MaxRequests)
       PROVE  Page'
  <2>1. repository' \in {"none", "listing", "download"} BY <1>3 DEF Inv, Page
  <2> QED BY <1>3, <1>5, <1>10, <2>1 DEF Inv, Page
<1>11. CASE artifactList' = artifactList /\ (phase' = "completed" => artifactList = <<>>)
            /\ Got = <<>>
  <2>1. current' = current BY <1>3, <1>6, <1>11, ConcatEmptySeq
  <2>2. CurrentFollows' BY <1>2, <1>3, <1>11, <2>1 DEF Inv, CurrentFollows
  <2>3. CASE phase' \in {"canceled", "failed"}
    <3>1. Published = caches
      <4>1. PushCache = caches BY <2>3 DEF PushCache
      <4> QED BY <1>6, <1>11, <4>1, ConcatEmptySeq DEF Published
    <3>2. caches' = caches BY <1>3, <2>3
    <3>3. CacheFinished'
      <4>1. caches' \in Seq(Finished') BY <1>6, <1>7, <3>2, SeqMonotonic
      <4> QED BY <1>3, <1>7, <3>2, <4>1 DEF Inv, CacheFinished
    <3>4. LastPublished'
      <4>1. ~Running' BY <2>3 DEF Running
      <4>2. caches # <<>> => lastArtifact' = caches[Len(caches)]
            BY <1>3, <3>1, LastCached DEF Latest
      <4> QED BY <3>2, <4>1, <4>2 DEF LastPublished
    <3>5. lastArtifact' = None \/ lastArtifact' \in Artifact(MaxRequests)
          BY <1>3, <3>1, LastCached DEF Latest, Inv, Page
    <3>6. Page' BY <1>6, <1>10, <2>1, <3>5
    <3> QED BY <1>2, <1>5, <1>8, <1>9, <2>2, <3>1, <3>3, <3>4, <3>6 DEF Inv
  <2>4. CASE phase' \notin {"canceled", "failed"}
    <3>1. Published = <<>>
      <4>1. PushCache = <<>> BY <2>4 DEF PushCache
      <4> QED BY <1>11, <4>1, ConcatEmptySeq, EmptySeq DEF Published
    <3>2. lastArtifact' = lastArtifact BY <1>3, <3>1 DEF Latest
    <3>3. Page' BY <1>6, <1>10, <2>1, <3>2 DEF Inv, Page
    <3>4. projects' \in Seq(Whole) BY <1>9, <3>1, EmptySeq
    <3>5. CASE phase' = "completed"
      <4>1. current = <<>>
        <5>1. Len(current) = 0 BY <1>2, <1>11, <3>5 DEF Inv, CurrentFollows
        <5> QED BY <1>6, <5>1, EmptySeq
      <4>2. caches' = <<>> BY <1>3, <2>1, <3>5, <4>1
      <4>3. CacheFinished'
        <5>1. caches' \in Seq(Finished') BY <4>2, EmptySeq
        <5>2. Len(caches') = 0 /\ 1 .. Len(caches') = {}
          <6>1. Len(caches') = 0 BY <4>2
          <6> QED BY <6>1
        <5> QED BY <1>3, <1>6, <1>7, <5>1, <5>2 DEF CacheFinished
      <4>4. LastPublished' BY <2>1, <4>1, <4>2 DEF LastPublished
      <4> QED BY <1>2, <1>5, <2>2, <3>3, <3>4, <4>3, <4>4 DEF Inv
    <3>6. CASE phase' # "completed"
      <4>1. caches' = caches BY <1>3, <3>6
      <4>2. CacheFinished'
        <5>1. caches' \in Seq(Finished') BY <1>6, <1>7, <4>1, SeqMonotonic
        <5> QED BY <1>3, <1>7, <4>1, <5>1 DEF Inv, CacheFinished
      <4>3. Running' BY <1>4, <2>4, <3>6 DEF Running
      <4>4. LastPublished' BY <1>2, <2>1, <3>2, <4>1, <4>3 DEF Inv, LastPublished
      <4> QED BY <1>2, <1>5, <2>2, <3>3, <3>4, <4>2, <4>4 DEF Inv
    <3> QED BY <3>5, <3>6
  <2> QED BY <2>3, <2>4
<1>12. CASE /\ Len(artifactList) + 1 \in DOMAIN BranchesOf
            /\ Len(artifactList') = Len(artifactList) + 1
            /\ phase' \in {"branches", "completed"}
            /\ Got = <<NextArtifact>>
  <2>1. /\ current' \in Seq(Artifact(MaxRequests)) /\ Len(current') = Len(artifactList')
        /\ Len(current') \in Nat \ {0} /\ current'[Len(current')] = NextArtifact
        /\ \A i \in 1 .. Len(current') :
               current'[i] = [project |-> i, branches |-> 1 .. BranchesOf[i],
                              listing |-> requests]
        BY <1>2, <1>3, <1>12, CurrentGrows
  <2>2. NextArtifact \in Whole BY <1>2, <1>12, NextWhole
  <2>3. Published = <<NextArtifact>>
    <3>1. PushCache = <<>> BY <1>12 DEF PushCache
    <3>2. <<NextArtifact>> \in Seq(Whole) BY <2>2
    <3> QED BY <1>12, <3>1, <3>2, ConcatEmptySeq DEF Published
  <2>4. lastArtifact' = NextArtifact BY <1>3, <2>3 DEF Latest, Last
  <2>5. projects' \in Seq(Whole) BY <1>9, <2>2, <2>3
  <2>6. Page' BY <1>10, <2>1, <2>2, <2>4 DEF Whole
  <2>7. CurrentFollows' BY <1>3, <1>6, <2>1 DEF CurrentFollows
  <2>8. CASE phase' = "completed"
    <3>1. caches' = current' BY <1>3, <2>8
    <3>2. CacheFinished'
      <4>1. ASSUME NEW i \in 1 .. Len(current')
            PROVE  /\ current'[i] \in Finished' /\ current'[i].project = i
                   /\ current'[i].listing = requests
        <5>1. current'[i] \in Artifact(MaxRequests) BY <2>1, ElementOfSeq
        <5>2. current'[i].project = i /\ current'[i].branches = 1 .. BranchesOf[i]
              /\ current'[i].listing = requests
          <6>1. current'[i] = [project |-> i, branches |-> 1 .. BranchesOf[i],
                               listing |-> requests]
                BY <2>1
          <6> QED BY <6>1
        <5>3. requests <= requests BY DEF Inv, Page
        <5> QED BY <1>3, <2>8, <5>1, <5>2, <5>3 DEF Finished, Whole
      <4>2. current' \in Seq(Finished')
        <5>1. current' \in [1 .. Len(current') -> Artifact(MaxRequests)]
              BY <2>1, LenProperties
        <5>2. current' \in [1 .. Len(current') -> Finished'] BY <4>1, <5>1
        <5> QED BY <2>1, <5>2, SeqDef
      <4>3. Len(current') = Len(BranchesOf)
            BY <1>2, <2>1, <2>8 DEF RepositoryInv, ListedInOrder
      <4>4. \A i \in 1 .. Len(current') :
                current'[i].project = i /\ current'[i].listing = current'[1].listing
        <5>1. 1 \in 1 .. Len(current') BY <2>1
        <5> QED BY <4>1, <5>1
      <4> QED BY <1>3, <1>6, <1>7, <3>1, <4>2, <4>3, <4>4 DEF CacheFinished
    <3>3. LastPublished'
      <4>1. ~Running' BY <2>8 DEF Running
      <4> QED BY <2>1, <2>4, <3>1, <4>1 DEF LastPublished
    <3> QED BY <1>2, <1>5, <2>5, <2>6, <2>7, <3>2, <3>3 DEF Inv
  <2>9. CASE phase' # "completed"
    <3>1. caches' = caches BY <1>3, <2>9
    <3>2. CacheFinished'
      <4>1. caches' \in Seq(Finished') BY <1>6, <1>7, <3>1, SeqMonotonic
      <4> QED BY <1>3, <1>7, <3>1, <4>1 DEF Inv, CacheFinished
    <3>3. Running' /\ current' # <<>>
      <4>1. Running' BY <1>12, <2>9 DEF Running
      <4>2. current' # <<>> BY <2>1, EmptySeq
      <4> QED BY <4>1, <4>2
    <3>4. LastPublished' BY <2>1, <2>4, <3>1, <3>3 DEF LastPublished
    <3> QED BY <1>2, <1>5, <2>5, <2>6, <2>7, <3>2, <3>4 DEF Inv
  <2> QED BY <2>8, <2>9
<1> QED BY <1>2, <1>11, <1>12, GotNext

LEMMA InvStep == Inv /\ [Next]_vars => Inv'
<1> SUFFICES ASSUME Inv, [Next]_vars PROVE Inv'
  OBVIOUS
<1>1. CASE Check \/ CheckRejected BY <1>1, CheckInv
<1>2. ASSUME NEW k \in Calls, ListingStep(k) PROVE Inv' BY <1>2, ListingStepInv
<1>3. ASSUME NEW k \in Calls, ServiceStep(k) PROVE Inv' BY <1>3, ServiceStepInv
<1>4. CASE ClickCancel BY <1>4, ClickCancelInv
<1>5. CASE \/ ClickDownload \/ DownloadEnds \/ ClickCopy \/ CopyDisables \/ CopyEnables
           \/ SelectArtifact
           \/ \E e \in ToSet(projects) : SelectProject(e)
           \/ \E b \in Branch : SelectBranch(b)
  BY <1>5, ClickInv
<1>6. CASE UNCHANGED vars
  <2>1. RepositoryInv' BY <1>6, RepositoryAlone DEF vars, Inv
  <2>2. UNCHANGED <<phase, artifactList, repository, requests, current, caches, isChecking,
                    projects, lastArtifact, selectedProject, branches, selectedBranch,
                    artifacts, hasArtifact, hasUrl, down>>
        BY <1>6 DEF vars, repositoryVars, useCaseVars, listVars, selectionVars
  <2>3. Page' BY <2>2 DEF Inv, Page
  <2> QED BY <2>1, <2>2, <2>3, PageOnly DEF Inv, CacheFinished
<1> QED
  BY <1>1, <1>2, <1>3, <1>4, <1>5, <1>6 DEF Next

-----------------------------------------------------------------------------
(* The theorems                                                            *)

THEOREM Invariance == Spec => []Inv
<1> QED
  BY InitInv, InvStep, PTL DEF Spec

\* Copies and downloads: a handler or a half second ends once for each click,
\* on whatever thread and in whatever order.
LEMMA ButtonsCorrect == Spec => []ButtonsTypeOK
<1>1. ASSUME Init PROVE ButtonsTypeOK
  <2>1. /\ copyEnabled \in BOOLEAN
        /\ downloads = 0 /\ toDisable = 0 /\ toEnable = 0
        BY <1>1 DEF Init
  <2> QED BY ONLY <2>1, ClicksBounded DEF ButtonsTypeOK
<1>2. ASSUME ButtonsTypeOK, [Next]_vars PROVE ButtonsTypeOK'
  <2>1. CASE Check \/ CheckRejected \/ ClickCancel
        BY <1>2, <2>1 DEF Check, CheckRejected, ClickCancel, ButtonsTypeOK, buttonVars
  <2>2. ASSUME NEW k \in Calls, ListingStep(k) \/ ServiceStep(k) PROVE ButtonsTypeOK'
        BY <1>2, <2>2 DEF ListingStep, ServiceStep, ButtonsTypeOK, buttonVars
  <2>3. CASE ClickDownload
    <3>1. /\ copyEnabled' \in BOOLEAN
          /\ \/ downloads < MaxDownloads /\ downloads' = downloads + 1
             \/ downloads' = downloads
          /\ toDisable' = toDisable /\ toEnable' = toEnable
          BY <1>2, <2>3 DEF ClickDownload, ButtonsTypeOK
    <3> QED BY ONLY <1>2, <3>1, ClicksBounded DEF ButtonsTypeOK
  <2>4. CASE DownloadEnds
    <3>1. /\ copyEnabled' \in BOOLEAN /\ downloads > 0 /\ downloads' = downloads - 1
          /\ toDisable' = toDisable /\ toEnable' = toEnable
          BY <2>4 DEF DownloadEnds
    <3> QED BY ONLY <1>2, <3>1, ClicksBounded DEF ButtonsTypeOK
  <2>5. CASE ClickCopy
    <3>1. /\ copyEnabled' \in BOOLEAN /\ downloads' = downloads /\ toEnable' = toEnable
          /\ \/ toDisable + toEnable < MaxCopies /\ toDisable' = toDisable + 1
             \/ toDisable' = toDisable
          BY <1>2, <2>5 DEF ClickCopy, ButtonsTypeOK
    <3> QED BY ONLY <1>2, <3>1, ClicksBounded DEF ButtonsTypeOK
  <2>6. CASE CopyDisables
    <3>1. /\ copyEnabled' \in BOOLEAN /\ downloads' = downloads
          /\ toDisable > 0 /\ toDisable' = toDisable - 1 /\ toEnable' = toEnable + 1
          BY <2>6 DEF CopyDisables
    <3> QED BY ONLY <1>2, <3>1, ClicksBounded DEF ButtonsTypeOK
  <2>7. CASE CopyEnables
    <3>1. /\ copyEnabled' \in BOOLEAN /\ downloads' = downloads
          /\ toEnable > 0 /\ toEnable' = toEnable - 1 /\ toDisable' = toDisable
          BY <2>7 DEF CopyEnables
    <3> QED BY ONLY <1>2, <3>1, ClicksBounded DEF ButtonsTypeOK
  <2>8. CASE SelectArtifact BY <1>2, <2>8 DEF SelectArtifact, ButtonsTypeOK
  <2>9. ASSUME \/ \E e \in ToSet(projects) : SelectProject(e)
               \/ \E b \in Branch : SelectBranch(b)
        PROVE  ButtonsTypeOK'
        BY <1>2, <2>9 DEF SelectProject, SelectBranch, ButtonsTypeOK, buttonVars
  <2>10. CASE UNCHANGED vars BY <1>2, <2>10 DEF vars, ButtonsTypeOK, buttonVars
  <2> QED BY <1>2, <2>1, <2>2, <2>3, <2>4, <2>5, <2>6, <2>7, <2>8, <2>9, <2>10 DEF Next
<1> QED BY <1>1, <1>2, PTL DEF Spec

\* The variables of page, use case and repository keep their types.
THEOREM TypeCorrect == Spec => []TypeOK
<1>1. Inv /\ ButtonsTypeOK => TypeOK
  <2> SUFFICES ASSUME Inv, ButtonsTypeOK PROVE TypeOK OBVIOUS
  <2>1. Whole \subseteq Artifact(MaxRequests) /\ Finished \subseteq Artifact(MaxRequests)
        BY DEF Whole, Finished
  <2>2. caches \in Seq(Artifact(MaxRequests)) /\ projects \in Seq(Artifact(MaxRequests))
        BY <2>1, SeqMonotonic DEF Inv, CacheFinished
  <2>3. UseCaseTypeOK(MaxRequests) BY <2>2 DEF UseCaseTypeOK, Inv, RepositoryInv, Page
  <2>4. branches \subseteq Artifact(MaxRequests) /\ artifacts \subseteq Artifact(MaxRequests)
        BY <2>1 DEF Inv, CacheFinished
  <2> QED BY <2>2, <2>3, <2>4 DEF TypeOK, Inv, Page
<1> QED
  BY <1>1, Invariance, ButtonsCorrect, PTL

\* Every request on its way can be cancelled through the dictionary.
THEOREM AlwaysCancellable == Spec => []EveryCallCancellable
<1>1. Inv => EveryCallCancellable BY DEF Inv, RepositoryInv
<1> QED
  BY <1>1, Invariance, PTL

\* No project is ever shown, cached or offered with a branch missing.
THEOREM ProjectsWhole == Spec => []OnlyWholeProjects
<1>1. Inv => OnlyWholeProjects
  <2> SUFFICES ASSUME Inv PROVE OnlyWholeProjects OBVIOUS
  <2>1. ToSet(projects) \subseteq Whole BY LenProperties, ElementOfSeq DEF ToSet, Inv
  <2>2. ToSet(caches) \subseteq Finished
        BY LenProperties, ElementOfSeq DEF ToSet, Inv, CacheFinished
  <2>3. Finished \subseteq Whole BY DEF Finished
  <2> QED BY <2>1, <2>2, <2>3 DEF OnlyWholeProjects, Inv, CacheFinished, Whole
<1> QED
  BY <1>1, Invariance, PTL

\* Nothing of a listing that is running, failed or was cancelled is offered.
THEOREM NothingUnfinished == Spec => []OnlyFinishedListings
<1>1. Inv => OnlyFinishedListings
  <2> SUFFICES ASSUME Inv PROVE OnlyFinishedListings OBVIOUS
  <2>1. ToSet(caches) \subseteq Finished
        BY LenProperties, ElementOfSeq DEF ToSet, Inv, CacheFinished
  <2> QED BY <2>1 DEF OnlyFinishedListings, Inv, CacheFinished, Finished
<1> QED
  BY <1>1, Invariance, PTL

\* What the cache offers is a whole container, each project with each branch,
\* as one listing found it, or nothing.
CacheComplete ==
    caches = <<>> \/ \E n \in 1 .. requests :
        caches = [p \in 1 .. Len(BranchesOf) |->
                     [project |-> p, branches |-> 1 .. BranchesOf[p], listing |-> n]]

\* The cache always is the outcome of one listing, and of a complete one.
THEOREM CacheOfOneListing == Spec => []CacheComplete
<1>1. Inv => CacheComplete
  <2> SUFFICES ASSUME Inv, caches # <<>> PROVE CacheComplete BY DEF CacheComplete
  <2>1. /\ caches \in Seq(Finished) /\ Len(caches) \in {0, Len(BranchesOf)}
        /\ \A i \in 1 .. Len(caches) :
               caches[i].project = i /\ caches[i].listing = caches[1].listing
        BY DEF Inv, CacheFinished
  <2>2. Len(caches) \in Nat /\ Len(caches) # 0 BY <2>1, EmptySeq
  <2>3. Len(caches) = Len(BranchesOf) BY <2>1, <2>2
  <2>4. \A i \in 1 .. Len(caches) : caches[i] \in Finished BY <2>1, ElementOfSeq
  <2> DEFINE n == caches[1].listing
             F == [p \in 1 .. Len(BranchesOf) |->
                      [project |-> p, branches |-> 1 .. BranchesOf[p], listing |-> n]]
  <2>5. n \in 1 .. requests
    <3>1. caches[1] \in Finished BY <2>2, <2>4
    <3>2. n \in 1 .. MaxRequests /\ n <= requests
          BY <3>1 DEF Finished, Whole, Artifact
    <3>3. requests \in Nat /\ MaxRequests \in Nat BY RequestsBounded DEF Inv, Page
    <3> QED BY <3>2, <3>3
  <2>6. ASSUME NEW i \in 1 .. Len(BranchesOf)
        PROVE  caches[i] = [project |-> i, branches |-> 1 .. BranchesOf[i], listing |-> n]
    <3>1. /\ caches[i] \in Artifact(MaxRequests)
          /\ caches[i].branches = 1 .. BranchesOf[caches[i].project]
          BY <2>3, <2>4 DEF Finished, Whole
    <3>2. caches[i].project = i /\ caches[i].listing = n BY <2>1, <2>3
    <3> QED BY <3>1, <3>2 DEF Artifact
  <2>7. caches = F
    <3>1. caches \in [1 .. Len(caches) -> Finished] BY <2>1, LenProperties
    <3>2. caches = [i \in 1 .. Len(caches) |-> caches[i]] BY <3>1
    <3> QED BY <2>3, <2>6, <3>2
  <2> QED BY <2>5, <2>7 DEF CacheComplete
<1> QED
  BY <1>1, Invariance, PTL

\* The command runs as long as the listing does, and leaves no request behind.
THEOREM IdleIsQuiet == Spec => []QuietWhenIdle
<1>1. Inv => QuietWhenIdle BY DEF Inv, RepositoryInv, Pending, QuietWhenIdle
<1> QED
  BY <1>1, Invariance, PTL

-----------------------------------------------------------------------------
(* What a step of the listing may never do                                 *)

\* The step that completes a listing, or adds a project, has no failure behind
\* it and leaves no request that was cancelled.
LEMMA NoSuccessStep ==
    ASSUME Inv, NEW k \in Calls, Resume(k),
           \E j \in Calls : failure[j] # "none" \/ call[j] = "cancelled"
    PROVE  artifactList' = artifactList /\ phase' # "completed"
<1>1. PICK j \in Calls : failure[j] # "none" \/ call[j] = "cancelled" OBVIOUS
<1>2. Running BY ResumeKeeps DEF Inv
<1>3. phase \in {"directories", "branches"} => call[Top] = "cancelled"
      BY <1>1, Projects DEF Inv, RepositoryInv, Pending, Failures
<1>4. CASE NextSegment(k) BY <1>2, <1>4 DEF NextSegment, Running
<1>5. CASE DirectoriesListed \/ BranchesListed
      BY <1>3, <1>5 DEF DirectoriesListed, BranchesListed
<1>6. CASE k # Top /\ DetailsListed(k)
  <2>1. k \in Branch /\ Calls = {Top} \cup Branch BY <1>6, Projects
  <2>2. phase = "details" /\ call[k] = "answered" /\ call[Top] = "none" /\ failure[Top] = "none"
        BY <1>6 DEF DetailsListed, Inv, RepositoryInv, Pending, Failures
  <2>3. ~(WhenAllDone(k) /\ NoneFailed)
        BY <1>1, <2>1, <2>2 DEF WhenAllDone, NoneFailed
  <2>4. IF WhenAllDone(k) THEN WhenAllThrows(failure) ELSE UNCHANGED <<phase, at, artifactList>>
        BY <1>6, <2>3 DEF DetailsListed
  <2>5. CASE WhenAllDone(k)
    <3>1. \E b \in Branch : failure[b] # "none" BY <2>3, <2>5 DEF NoneFailed
    <3> QED BY <2>4, <2>5, <3>1, ThrowsOne DEF Inv, RepositoryInv, RepositoryTypeOK
  <2>6. CASE ~WhenAllDone(k) BY <2>2, <2>4, <2>6
  <2> QED BY <2>5, <2>6
<1>7. CASE SegmentThrows(k)
  <2>1. failure' \in [Calls -> {"none", "canceled", "failed"}] /\ failure'[k] # "none"
        BY <1>7 DEF SegmentThrows, Inv, RepositoryInv, RepositoryTypeOK
  <2>2. CASE k = Top BY <1>7, <2>2 DEF SegmentThrows
  <2>3. CASE k # Top /\ WhenAllDone(k)
    <3>1. k \in Branch /\ WhenAllThrows(failure') BY <1>7, <2>3, Projects DEF SegmentThrows
    <3> QED BY <2>1, <3>1, ThrowsOne
  <2>4. CASE k # Top /\ ~WhenAllDone(k)
        BY <1>2, <1>7, <2>4 DEF SegmentThrows, Running
  <2> QED BY <2>2, <2>3, <2>4
<1> QED BY <1>4, <1>5, <1>6, <1>7 DEF Resume

\* The steps other than those of the listing leave its list and its phase, or
\* do not happen while it runs.
LEMMA OtherSteps ==
    ASSUME Inv, Next, Running
    PROVE  \/ \E k \in Calls : ListingStep(k)
           \/ UNCHANGED <<phase, artifactList, isChecking>>
<1>1. ~Check /\ ~CheckRejected BY DEF Inv, Check, CheckRejected
<1>2. ASSUME NEW k \in Calls, ServiceStep(k) PROVE UNCHANGED <<phase, artifactList, isChecking>>
      BY <1>2 DEF ServiceStep, Answer, Refuse, listVars
<1>3. CASE ClickCancel
      BY <1>3 DEF ClickCancel, CancelRequest, CancelRequestThrows, Cancel, CancelThrows,
                  repositoryVars
<1>4. CASE \/ ClickDownload \/ DownloadEnds \/ ClickCopy \/ CopyDisables \/ CopyEnables
           \/ SelectArtifact
           \/ \E e \in ToSet(projects) : SelectProject(e)
           \/ \E b \in Branch : SelectBranch(b)
      BY <1>4 DEF ClickDownload, Download, DownloadEnds, ClickCopy, CopyDisables,
                  CopyEnables, SelectArtifact, SelectProject, SelectBranch, repositoryVars,
                  listVars
<1> QED BY <1>1, <1>2, <1>3, <1>4 DEF Next

\* A branch that failed or was cancelled keeps its project from the list and
\* the listing from success, however many others still answer.
THEOREM FailureNeverSucceeds == Spec => NoSuccessAfterFailure
<1> DEFINE A == Running /\ (\E k \in Calls : failure[k] # "none" \/ call[k] = "cancelled")
                    => artifactList' = artifactList /\ phase' # "completed"
<1>1. Inv /\ [Next]_vars => [A]_vars
  <2> SUFFICES ASSUME Inv, Next, Running,
                      \E k \in Calls : failure[k] # "none" \/ call[k] = "cancelled"
               PROVE  artifactList' = artifactList /\ phase' # "completed"
      OBVIOUS
  <2>1. CASE \E k \in Calls : ListingStep(k)
        BY <2>1, NoSuccessStep DEF ListingStep, RequestStep
  <2>2. CASE UNCHANGED <<phase, artifactList, isChecking>> BY <2>2 DEF Running
  <2> QED BY <2>1, <2>2, OtherSteps
<1> QED
  BY <1>1, Invariance, PTL DEF Spec, NoSuccessAfterFailure

\* The first cached artifact is never the one published last, unless the cache
\* holds one only: a failure publishes all of them again.
LEMMA FirstNotLast ==
    ASSUME Inv, Running, caches # <<>>, Len(caches) # 1
    PROVE  caches[1] # lastArtifact
<1>1. /\ Len(caches) \in Nat \ {0} /\ caches \in Seq(Finished)
      /\ \A i \in 1 .. Len(caches) :
           caches[i].project = i /\ caches[i].listing = caches[1].listing
      BY LastCached DEF Inv, CacheFinished
<1>2. 1 \in 1 .. Len(caches) /\ Len(caches) \in 1 .. Len(caches) BY <1>1
<1>3. caches[1].project = 1 /\ caches[1].listing # requests
  <2>1. caches[1] \in Finished BY <1>1, <1>2, ElementOfSeq
  <2>2. phase # "completed" BY DEF Running
  <2> QED BY <1>1, <1>2, <2>1, <2>2 DEF Finished
<1>4. CASE current = <<>>
  <2>1. lastArtifact = caches[Len(caches)] BY <1>4 DEF Inv, LastPublished
  <2>2. lastArtifact.project = Len(caches) BY <1>1, <1>2, <2>1
  <2> QED BY <1>3, <2>2
<1>5. CASE current # <<>>
  <2>1. Len(current) \in Nat \ {0} BY <1>5, EmptySeq DEF Inv, Page
  <2>2. Len(current) \in 1 .. Len(current) BY <2>1
  <2>3. lastArtifact = current[Len(current)] BY <1>5 DEF Inv, LastPublished
  <2>4. lastArtifact = [project |-> Len(current), branches |-> 1 .. BranchesOf[Len(current)],
                        listing |-> requests]
        BY <2>2, <2>3 DEF Inv, CurrentFollows
  <2>5. lastArtifact.listing = requests BY <2>4
  <2> QED BY <1>3, <2>5
<1> QED BY <1>4, <1>5

\* Every project of the cache is in the list again when a listing ended
\* without success.
THEOREM CacheComesBack == Spec => CachedProjectsComeBack
<1> DEFINE A == isChecking /\ ~isChecking' /\ phase' # "completed" /\ Len(caches) # 1
                    => ToSet(caches) \subseteq ToSet(projects')
<1>1. Inv /\ [Next]_vars => [A]_vars
  <2> SUFFICES ASSUME Inv, Next, isChecking, ~isChecking', phase' # "completed",
                      Len(caches) # 1
               PROVE  ToSet(caches) \subseteq ToSet(projects')
      OBVIOUS
  <2>1. Running BY DEF Inv
  <2>2. PICK k \in Calls : ListingStep(k) BY <2>1, OtherSteps
  <2>3. /\ Resume(k) /\ AddProjects(Published) /\ isChecking' = StillAwaited
        BY <2>2 DEF ListingStep, RequestStep
  <2>4. RepositoryInv /\ RepositoryInv' /\ ListGrows /\ phase' # "new"
        BY <2>3, ResumeKeeps DEF Inv
  <2>5. phase' \in {"canceled", "failed"}
    <3>1. phase' \notin {"directories", "branches", "details"} BY <2>3 DEF StillAwaited
    <3> QED BY <2>4, <3>1 DEF RepositoryInv, RepositoryTypeOK
  <2>6. caches \in Seq(Finished) /\ projects \in Seq(Whole) BY DEF Inv, CacheFinished
  <2>7. caches \in Seq(Whole)
    <3>1. Finished \subseteq Whole BY DEF Finished
    <3> QED BY <2>6, <3>1, SeqMonotonic
  <2>8. Published = caches
    <3>1. PushCache = caches BY <2>5 DEF PushCache
    <3>2. Got = <<>> BY <2>4, <2>5, GotNext
    <3> QED BY <2>7, <3>1, <3>2, ConcatEmptySeq DEF Published
  <2>9. Distinct(caches) = caches BY <2>1, FirstNotLast DEF Distinct
  <2>10. projects' = projects \o caches BY <2>3, <2>8, <2>9 DEF AddProjects
  <2>11. ASSUME NEW i \in DOMAIN caches PROVE caches[i] \in ToSet(projects')
    <3> DEFINE n == Len(projects)
    <3>1. n \in Nat /\ Len(caches) \in Nat /\ i \in 1 .. Len(caches)
          BY <2>6, <2>7, LenProperties
    <3>2. /\ projects' \in Seq(Whole) /\ Len(projects') = n + Len(caches)
          /\ \A j \in 1 .. n + Len(caches) :
                 projects'[j] = IF j <= n THEN projects[j] ELSE caches[j - n]
          BY <2>6, <2>7, <2>10, ConcatProperties
    <3>3. n + i \in 1 .. n + Len(caches) /\ ~(n + i <= n) /\ (n + i) - n = i BY <3>1
    <3>4. projects'[n + i] = caches[i] BY <3>2, <3>3
    <3>5. n + i \in DOMAIN projects' BY <3>2, <3>3, LenProperties
    <3> QED BY <3>4, <3>5 DEF ToSet
  <2> QED BY <2>11 DEF ToSet
<1> QED
  BY <1>1, Invariance, PTL DEF Spec, CachedProjectsComeBack

-----------------------------------------------------------------------------
(* Cancelling                                                              *)

\* A click on Cancel that throws nothing gives up every request on its way,
\* of all the branches that are listed concurrently, as long as no download
\* has taken the use case's repository away.
CancelReachesAll ==
    [][ClickCancel /\ repository = "listing" /\ ~down'
           => \A k \in Calls : call[k] = "sent" => call'[k] = "cancelled"]_vars

\* OnClickCancelBlobCommand misses no request of the running listing.
THEOREM CancelMissesNothing == Spec => CancelReachesAll
<1> DEFINE A == ClickCancel /\ repository = "listing" /\ ~down'
                    => \A k \in Calls : call[k] = "sent" => call'[k] = "cancelled"
<1>1. Inv => A
  <2> SUFFICES ASSUME Inv, ClickCancel, repository = "listing", ~down',
                      NEW k \in Calls, call[k] = "sent"
               PROVE  call'[k] = "cancelled"
      OBVIOUS
  <2>1. Cancel BY DEF ClickCancel, CancelRequest
  <2>2. k \in Entries("live") BY DEF Entries, Inv, RepositoryInv, EveryCallCancellable
  <2> QED BY <2>1, <2>2 DEF Cancel, CancelTokens
<1>2. Inv /\ [Next]_vars => [A]_vars BY <1>1
<1> QED
  BY <1>2, Invariance, PTL DEF Spec, CancelReachesAll

-----------------------------------------------------------------------------
(* The cache, as its users see it                                          *)

Cache == INSTANCE ListingCache WITH running <- isChecking, cache <- caches

\* A listing that succeeds leaves all it found in the cache.
LEMMA CacheOnSuccess ==
    ASSUME Inv, NEW k \in Calls, ListingStep(k), phase' = "completed"
    PROVE  caches' = Cache!Container(requests)
<1>1. Resume(k) /\ FollowListing BY DEF ListingStep, RequestStep
<1>2. RepositoryInv /\ RepositoryInv' /\ ListGrows /\ Running
      BY <1>1, ResumeKeeps DEF Inv
<1>3. requests' = requests /\ current' = current \o Got /\ caches' = current'
      BY <1>1 DEF FollowListing
<1>4. Len(artifactList') = Len(BranchesOf) BY <1>2 DEF RepositoryInv, ListedInOrder
<1>5. CASE artifactList' = artifactList /\ artifactList = <<>> /\ Got = <<>>
  <2>1. Len(BranchesOf) = 0 BY <1>4, <1>5
  <2>2. current \in Seq(Artifact(MaxRequests)) /\ Len(current) = Len(artifactList)
        BY <1>2 DEF Inv, Page, CurrentFollows
  <2>3. Len(current) = 0 BY <1>5, <2>2
  <2>4. current = <<>> BY <2>2, <2>3, EmptySeq
  <2>5. current' = <<>> BY <1>3, <1>5, <2>2, <2>4, ConcatEmptySeq
  <2>6. 1 .. Len(BranchesOf) = {} BY <2>1
  <2>7. Cache!Container(requests) = <<>> BY <2>6 DEF Cache!Container
  <2> QED BY <1>3, <2>5, <2>7
<1>6. CASE /\ Len(artifactList) + 1 \in DOMAIN BranchesOf
           /\ Len(artifactList') = Len(artifactList) + 1
           /\ Got = <<NextArtifact>>
  <2>1. /\ current' \in Seq(Artifact(MaxRequests)) /\ Len(current') = Len(artifactList')
        /\ \A i \in 1 .. Len(current') :
               current'[i] = [project |-> i, branches |-> 1 .. BranchesOf[i],
                              listing |-> requests]
        BY <1>2, <1>3, <1>6, CurrentGrows
  <2>2. current' = [i \in 1 .. Len(current') |-> current'[i]] BY <2>1, LenProperties
  <2> QED BY <1>3, <1>4, <2>1, <2>2 DEF Cache!Container
<1> QED BY <1>2, <1>5, <1>6, GotNext

\* Every step of page, use case and repository replaces the cache whole, on
\* the success of a listing, or leaves it alone: it implements ListingCache.
THEOREM ImplementsCache == Spec => Cache!Spec
<1>1. Init => Cache!Init BY DEF Init, UseCaseInit, Cache!Init
<1>2. Inv /\ [Next]_vars => [Cache!Next]_Cache!cacheVars
  <2> SUFFICES ASSUME Inv, [Next]_vars PROVE [Cache!Next]_Cache!cacheVars
      OBVIOUS
  <2>1. CASE Check
    <3>1. /\ ~isChecking /\ isChecking' = TRUE
          /\ requests' = requests + 1 /\ caches' = caches
          BY <2>1 DEF Check, RequestHoloLensPackages, NewRequest
    <3>2. Cache!Begin BY <3>1 DEF Cache!Begin
    <3> QED BY <3>2 DEF Cache!Next
  <2>2. CASE CheckRejected
    <3>1. /\ ~isChecking /\ isChecking' = isChecking
          /\ requests' = requests + 1 /\ caches' = caches
          BY <2>2 DEF CheckRejected, RequestRejected, NewRequest
    <3>2. Cache!Reject BY <3>1 DEF Cache!Reject
    <3> QED BY <3>2 DEF Cache!Next
  <2>3. ASSUME NEW k \in Calls, ListingStep(k) PROVE [Cache!Next]_Cache!cacheVars
    <3>1. /\ Resume(k) /\ FollowListing
          /\ isChecking' = (phase' \in {"directories", "branches", "details"})
          BY <2>3 DEF ListingStep, RequestStep, StillAwaited
    <3>2. Running BY <3>1, ResumeKeeps DEF Inv
    <3>3. isChecking /\ isChecking = TRUE BY <3>2 DEF Inv, Page
    <3>4. requests' = requests BY <3>1 DEF FollowListing
    <3>5. CASE phase' = "completed"
      <4>1. caches' = Cache!Container(requests) BY <2>3, <3>5, CacheOnSuccess
      <4>2. isChecking' = FALSE
        <5>1. phase' \notin {"directories", "branches", "details"} BY <3>5
        <5>2. (phase' \in {"directories", "branches", "details"}) = FALSE BY <5>1
        <5> QED BY <3>1, <5>2, Zenon
      <4>3. Cache!Succeed BY <3>3, <3>4, <4>1, <4>2 DEF Cache!Succeed
      <4> QED BY <4>3 DEF Cache!Next
    <3>6. CASE phase' # "completed" /\ isChecking'
      <4>1. isChecking' = TRUE BY <3>1, <3>6
      <4>2. caches' = caches BY <3>1, <3>6 DEF FollowListing
      <4> QED BY <3>3, <3>4, <4>1, <4>2 DEF Cache!cacheVars
    <3>7. CASE phase' # "completed" /\ ~isChecking'
      <4>1. isChecking' = FALSE BY <3>1, <3>7
      <4>2. caches' = caches BY <3>1, <3>7 DEF FollowListing
      <4>3. Cache!Fail BY <3>3, <3>4, <4>1, <4>2 DEF Cache!Fail
      <4> QED BY <4>3 DEF Cache!Next
    <3> QED BY <3>5, <3>6, <3>7
  <2>4. ASSUME NEW k \in Calls, ServiceStep(k) PROVE [Cache!Next]_Cache!cacheVars
        BY <2>4 DEF ServiceStep, useCaseVars, listVars, Cache!cacheVars
  <2>5. CASE ClickCancel
        BY <2>5 DEF ClickCancel, CancelRequest, CancelRequestThrows, useCaseVars,
                    Cache!cacheVars
  <2>6. CASE \/ ClickDownload \/ DownloadEnds \/ ClickCopy \/ CopyDisables \/ CopyEnables
             \/ SelectArtifact
             \/ \E e \in ToSet(projects) : SelectProject(e)
             \/ \E b \in Branch : SelectBranch(b)
        BY <2>6 DEF ClickDownload, Download, DownloadEnds, ClickCopy, CopyDisables,
                    CopyEnables, SelectArtifact, SelectProject, SelectBranch, useCaseVars,
                    listVars, Cache!cacheVars
  <2>7. CASE UNCHANGED vars
        BY <2>7 DEF vars, useCaseVars, listVars, Cache!cacheVars
  <2> QED BY <2>1, <2>2, <2>3, <2>4, <2>5, <2>6, <2>7 DEF Next
<1> QED
  BY <1>1, <1>2, Invariance, PTL DEF Spec, Cache!Spec

-----------------------------------------------------------------------------
(* How a listing comes to its end                                          *)

\* Where the listing stands: the directories, then for each project its
\* branches and their details.
Position ==
    IF phase = "branches" THEN 2 * at ELSE IF phase = "details" THEN 2 * at + 1 ELSE 0

\* The answers and continuations a listing of one prefix has still to come at
\* most, when its request stands at c in its s-th segment.
Left(c, s) ==
    2 * (MaxSegments - s) + (IF c = "sent" THEN 2 ELSE IF c = "none" THEN 0 ELSE 1)

\* A listing that runs has a request on its way or a continuation queued, and
\* a bounded way to go.
SomethingPending ==
    Running =>
        /\ \E k \in Calls : call[k] # "none"
        /\ Position \in 0 .. 2 * Len(BranchesOf) + 1
        /\ \A k \in Calls : Left(call[k], segments[k]) \in 0 .. 2 * MaxSegments + 2

\* A step moves the listing on, or leaves it no more to wait for, and less when
\* the step is an answer, a continuation or a cancellation.
Nearer ==
    \/ Position < Position'
    \/ /\ Position' = Position
       /\ \A k \in Calls : Left(call'[k], segments'[k]) <= Left(call[k], segments[k])
       /\ call' # call =>
              \E k \in Calls : Left(call'[k], segments'[k]) < Left(call[k], segments[k])

\* Arithmetic for the lemmas below.
LEMMA LeftBounds ==
    ASSUME NEW c \in {"none", "sent", "answered", "refused", "cancelled"},
           NEW s \in 0 .. MaxSegments
    PROVE  Left(c, s) \in 0 .. 2 * MaxSegments + 2
<1>1. MaxSegments \in Nat BY Projects
<1> QED BY <1>1 DEF Left

LEMMA LeftLess ==
    ASSUME NEW s \in 0 .. MaxSegments
    PROVE  /\ \A c \in {"answered", "refused", "cancelled"} :
                  /\ Left(c, s) < Left("sent", s)
                  /\ Left("none", s) < Left(c, s)
           /\ Left("sent", s + 1) < Left("answered", s)
<1>1. MaxSegments \in Nat BY Projects
<1> QED BY <1>1 DEF Left

LEMMA PositionBounds ==
    ASSUME RepositoryInv PROVE Position \in 0 .. 2 * Len(BranchesOf) + 1
<1>1. Len(BranchesOf) \in Nat /\ at \in 0 .. Len(BranchesOf)
      BY Projects DEF RepositoryInv, RepositoryTypeOK
<1>2. 2 * at \in 0 .. 2 * Len(BranchesOf) + 1 /\ 2 * at + 1 \in 0 .. 2 * Len(BranchesOf) + 1
      BY <1>1
<1>3. 0 \in 0 .. 2 * Len(BranchesOf) + 1 BY <1>1
<1> QED BY <1>2, <1>3 DEF Position

\* A step that only moves requests, each no further from its end.
LEMMA MovesRequests ==
    ASSUME RepositoryTypeOK, RepositoryTypeOK', UNCHANGED <<phase, at>>,
           \A k \in Calls :
               \/ call'[k] = call[k] /\ segments'[k] = segments[k]
               \/ Left(call'[k], segments'[k]) < Left(call[k], segments[k])
    PROVE  Nearer
<1>1. Position' = Position BY DEF Position
<1>2. \A k \in Calls : Left(call[k], segments[k]) \in Nat
                       /\ Left(call'[k], segments'[k]) \in Nat
  <2>1. TAKE k \in Calls
  <2>2. /\ call[k] \in {"none", "sent", "answered", "refused", "cancelled"}
        /\ segments[k] \in 0 .. MaxSegments
        /\ call'[k] \in {"none", "sent", "answered", "refused", "cancelled"}
        /\ segments'[k] \in 0 .. MaxSegments
        BY DEF RepositoryTypeOK
  <2>3. MaxSegments \in Nat BY Projects
  <2> QED BY <2>2, <2>3, LeftBounds
<1>3. \A k \in Calls : Left(call'[k], segments'[k]) <= Left(call[k], segments[k])
  <2>1. TAKE k \in Calls
  <2>2. CASE call'[k] = call[k] /\ segments'[k] = segments[k] BY <1>2, <2>2
  <2>3. CASE Left(call'[k], segments'[k]) < Left(call[k], segments[k]) BY <1>2, <2>3
  <2> QED BY <2>2, <2>3
<1>4. ASSUME call' # call
      PROVE  \E k \in Calls : Left(call'[k], segments'[k]) < Left(call[k], segments[k])
  <2>1. PICK k \in Calls : call'[k] # call[k] BY <1>4 DEF RepositoryTypeOK
  <2> QED BY <2>1
<1> QED BY <1>1, <1>3, <1>4 DEF Nearer

\* The listing goes on to a project, which waits for its branches, or is over.
LEMMA VisitMoves ==
    ASSUME NEW p \in Nat, VisitProject(p), Running'
    PROVE  Position' = 2 * p /\ \E k \in Calls : call'[k] # "none"
<1>1. phase' = "branches" /\ at' = p /\ SendOnly({Top}) BY DEF VisitProject, Running
<1>2. call'[Top] = "sent" BY <1>1, Projects DEF SendOnly
<1> QED BY <1>1, <1>2, Projects DEF Position

LEMMA FinishMoves ==
    ASSUME RepositoryInv, phase \in {"branches", "details"},
           NEW B, FinishProject(B), Running'
    PROVE  Nearer /\ \E k \in Calls : call'[k] # "none"
<1>1. at \in Nat /\ at + 1 \in Nat
      BY Projects DEF RepositoryInv, RepositoryTypeOK
<1>2. VisitProject(at + 1) BY DEF FinishProject
<1>3. Position' = 2 * (at + 1) /\ \E k \in Calls : call'[k] # "none"
      BY <1>1, <1>2, VisitMoves
<1>4. Position \in {2 * at, 2 * at + 1} BY DEF Position
<1>5. Position < Position' BY <1>1, <1>3, <1>4
<1> QED BY <1>3, <1>5 DEF Nearer

\* One branch ends while another goes on.
LEMMA BranchEnds ==
    ASSUME RepositoryTypeOK, RepositoryTypeOK', NEW b \in Branch,
           call[b] \in {"answered", "refused", "cancelled"}, ~WhenAllDone(b),
           UNCHANGED <<phase, at, segments>>, call' = [call EXCEPT ![b] = "none"]
    PROVE  Nearer /\ \E k \in Calls : call'[k] # "none"
<1>1. b \in Calls /\ Branch \subseteq Calls BY Projects
<1>2. call'[b] = "none" /\ \A k \in Calls \ {b} : call'[k] = call[k]
      BY <1>1 DEF RepositoryTypeOK
<1>3. Left(call'[b], segments'[b]) < Left(call[b], segments[b])
  <2>1. segments[b] \in 0 .. MaxSegments BY <1>1 DEF RepositoryTypeOK
  <2> QED BY <1>2, <2>1, LeftLess
<1>4. Nearer
  <2>1. \A k \in Calls : \/ call'[k] = call[k] /\ segments'[k] = segments[k]
                         \/ Left(call'[k], segments'[k]) < Left(call[k], segments[k])
        BY <1>2, <1>3
  <2> QED BY <2>1, MovesRequests
<1>5. \E k \in Branch : k # b /\ call[k] # "none" BY DEF WhenAllDone
<1> QED BY <1>1, <1>2, <1>4, <1>5

\* A continuation that does not end the listing brings it nearer to its end,
\* and leaves it something to wait for.
LEMMA ResumeMoves ==
    ASSUME RepositoryInv, RepositoryInv', NEW k \in Calls, Resume(k), Running'
    PROVE  Nearer /\ \E j \in Calls : call'[j] # "none"
<1>0. RepositoryTypeOK /\ RepositoryTypeOK' BY DEF RepositoryInv
<1>1. CASE NextSegment(k)
  <2>1. /\ call[k] = "answered" /\ call'[k] = "sent"
        /\ segments'[k] = segments[k] + 1 /\ segments[k] \in 0 .. MaxSegments
        /\ \A j \in Calls \ {k} : call'[j] = call[j] /\ segments'[j] = segments[j]
        /\ UNCHANGED <<phase, at>>
        BY <1>0, <1>1 DEF NextSegment, RepositoryTypeOK
  <2>2. Left(call'[k], segments'[k]) < Left(call[k], segments[k]) BY <2>1, LeftLess
  <2>3. \A j \in Calls : \/ call'[j] = call[j] /\ segments'[j] = segments[j]
                         \/ Left(call'[j], segments'[j]) < Left(call[j], segments[j])
        BY <2>1, <2>2
  <2> QED BY <1>0, <2>1, <2>3, MovesRequests
<1>2. CASE DirectoriesListed
  <2>1. phase = "directories" /\ VisitProject(1) BY <1>2 DEF DirectoriesListed
  <2>2. Position = 0 /\ Position' = 2 * 1 /\ \E j \in Calls : call'[j] # "none"
        BY <2>1, VisitMoves DEF Position
  <2> QED BY <2>2 DEF Nearer
<1>3. CASE BranchesListed
  <2>1. phase = "branches" /\ at \in DOMAIN BranchesOf
        BY <1>3 DEF BranchesListed, RepositoryInv, ListedInOrder
  <2>2. CASE BranchesOf[at] = 0
    <3>1. FinishProject({}) BY <1>3, <2>2 DEF BranchesListed
    <3> QED BY <2>1, <3>1, FinishMoves
  <2>3. CASE BranchesOf[at] # 0
    <3>1. phase' = "details" /\ at' = at /\ SendOnly(1 .. BranchesOf[at])
          BY <1>3, <2>3 DEF BranchesListed
    <3>2. 1 \in 1 .. BranchesOf[at] /\ 1 \in Calls
      <4>1. BranchesOf[at] \in Nat \ {0} BY <2>1, <2>3, Projects
      <4>2. 1 \in 1 .. BranchesOf[at] BY <4>1
      <4> QED BY <2>1, <4>2, Projects
    <3>3. call'[1] = "sent" BY <3>1, <3>2 DEF SendOnly
    <3>4. at \in Nat BY <2>1, Projects
    <3>5. Position = 2 * at /\ Position' = 2 * at + 1 BY <2>1, <3>1 DEF Position
    <3>6. Position < Position' BY <3>4, <3>5
    <3> QED BY <3>2, <3>3, <3>6 DEF Nearer
  <2> QED BY <2>2, <2>3
<1>4. CASE k # Top /\ DetailsListed(k)
  <2>1. k \in Branch /\ phase = "details" /\ call[k] = "answered"
        BY <1>4, Projects DEF DetailsListed
  <2>2. CASE FinishProject(gathered \cup {k}) BY <2>1, <2>2, FinishMoves
  <2>3. CASE /\ ~(WhenAllDone(k) /\ NoneFailed)
             /\ call' = [call EXCEPT ![k] = "none"] /\ UNCHANGED <<segments, failure>>
             /\ IF WhenAllDone(k) THEN WhenAllThrows(failure)
                                  ELSE UNCHANGED <<phase, at, artifactList>>
    <3>1. ~WhenAllDone(k)
      <4> SUFFICES ASSUME WhenAllDone(k) PROVE FALSE OBVIOUS
      <4>1. WhenAllThrows(failure) /\ \E b \in Branch : failure[b] # "none"
            BY <2>3 DEF NoneFailed
      <4>2. phase' \in {"canceled", "failed"}
            BY <1>0, <4>1, ThrowsOne DEF RepositoryTypeOK
      <4> QED BY <4>2 DEF Running
    <3> QED BY <1>0, <2>1, <2>3, <3>1, BranchEnds
  <2> QED BY <1>4, <2>2, <2>3 DEF DetailsListed
<1>5. CASE SegmentThrows(k)
  <2> DEFINE ex == IF call[k] = "cancelled" THEN "canceled" ELSE "failed"
  <2>1. /\ call[k] \in {"refused", "cancelled"} /\ call' = [call EXCEPT ![k] = "none"]
        /\ failure' = [failure EXCEPT ![k] = ex] /\ segments' = segments
        /\ k = Top => phase' = ex
        /\ k # Top => IF WhenAllDone(k) THEN WhenAllThrows(failure')
                      ELSE UNCHANGED <<phase, at, artifactList>>
        BY <1>5 DEF SegmentThrows
  <2>2. k # Top /\ k \in Branch
    <3>1. ex \notin {"directories", "branches", "details"} OBVIOUS
    <3>2. k # Top BY <2>1, <3>1 DEF Running
    <3> QED BY <3>2, Projects
  <2>3. ~WhenAllDone(k)
    <3> SUFFICES ASSUME WhenAllDone(k) PROVE FALSE OBVIOUS
    <3>1. failure' \in [Calls -> {"none", "canceled", "failed"}] /\ failure'[k] # "none"
          BY <1>0, <2>1 DEF RepositoryTypeOK
    <3>2. phase' \in {"canceled", "failed"} BY <2>1, <2>2, <3>1, ThrowsOne
    <3> QED BY <3>2 DEF Running
  <2>4. UNCHANGED <<phase, at, segments>> BY <2>1, <2>2, <2>3
  <2> QED BY <1>0, <2>1, <2>2, <2>3, <2>4, BranchEnds
<1> QED BY <1>1, <1>2, <1>3, <1>4, <1>5 DEF Resume

\* The other steps end no request and send none.
LEMMA OthersMove ==
    ASSUME Inv, Inv', [Next]_vars, Running, \A k \in Calls : ~ListingStep(k)
    PROVE  Nearer /\ \A k \in Calls : call'[k] = "none" => call[k] = "none"
<1>0. RepositoryTypeOK /\ RepositoryTypeOK' BY DEF Inv, RepositoryInv
<1>1. ASSUME UNCHANGED <<phase, at, segments>>,
             \A k \in Calls : \/ call'[k] = call[k]
                              \/ /\ call[k] = "sent"
                                 /\ call'[k] \in {"answered", "refused", "cancelled"}
      PROVE  Nearer /\ \A k \in Calls : call'[k] = "none" => call[k] = "none"
  <2>1. ASSUME NEW k \in Calls
        PROVE  \/ call'[k] = call[k] /\ segments'[k] = segments[k]
               \/ Left(call'[k], segments'[k]) < Left(call[k], segments[k])
    <3>1. segments[k] \in 0 .. MaxSegments /\ segments'[k] = segments[k]
          BY <1>0, <1>1 DEF RepositoryTypeOK
    <3> QED BY <1>1, <3>1, LeftLess
  <2>2. Nearer BY <1>0, <1>1, <2>1, MovesRequests
  <2> QED BY <1>1, <2>2
<1>2. ~Check /\ ~CheckRejected BY DEF Inv, Check, CheckRejected
<1>3. ASSUME NEW j \in Calls, ServiceStep(j)
      PROVE  Nearer /\ \A k \in Calls : call'[k] = "none" => call[k] = "none"
  <2>1. /\ call[j] = "sent" /\ UNCHANGED <<phase, at, segments>>
        /\ \/ call' = [call EXCEPT ![j] = "answered"]
           \/ call' = [call EXCEPT ![j] = "refused"]
        BY <1>3 DEF ServiceStep, Answer, Refuse
  <2>2. \A k \in Calls : \/ call'[k] = call[k]
                         \/ /\ call[k] = "sent"
                            /\ call'[k] \in {"answered", "refused", "cancelled"}
        BY <1>0, <2>1 DEF RepositoryTypeOK
  <2> QED BY <1>1, <2>1, <2>2
<1>4. CASE ClickCancel
  <2>1. Cancel \/ CancelThrows \/ UNCHANGED repositoryVars
        BY <1>4 DEF ClickCancel, CancelRequest, CancelRequestThrows
  <2>2. UNCHANGED <<phase, at, segments>>
        BY <2>1 DEF Cancel, CancelThrows, repositoryVars
  <2>3. \A k \in Calls : \/ call'[k] = call[k]
                         \/ call[k] = "sent" /\ call'[k] = "cancelled"
    <3>1. CASE Cancel \/ CancelThrows
          BY <3>1 DEF Cancel, CancelThrows, CancelTokens
    <3>2. CASE UNCHANGED repositoryVars BY <3>2 DEF repositoryVars
    <3> QED BY <2>1, <3>1, <3>2
  <2> QED BY <1>1, <2>2, <2>3
<1>5. CASE \/ ClickDownload \/ DownloadEnds \/ ClickCopy \/ CopyDisables \/ CopyEnables
           \/ SelectArtifact
           \/ \E e \in ToSet(projects) : SelectProject(e)
           \/ \E b \in Branch : SelectBranch(b)
  <2>1. UNCHANGED <<phase, at, segments, call>>
        BY <1>5 DEF ClickDownload, Download, DownloadEnds, ClickCopy, CopyDisables,
                    CopyEnables, SelectArtifact, SelectProject, SelectBranch,
                    repositoryVars
  <2> QED BY <1>1, <2>1
<1>6. CASE UNCHANGED vars
  <2>1. UNCHANGED <<phase, at, segments, call>> BY <1>6 DEF vars, repositoryVars
  <2> QED BY <1>1, <2>1
<1> QED BY <1>2, <1>3, <1>4, <1>5, <1>6 DEF Next

\* Nothing but a click on the button begins a listing.
LEMMA OnlyCheckStarts ==
    ASSUME Inv, [Next]_vars, ~Running, Running' PROVE Check
<1>1. ~CheckRejected
      BY DEF CheckRejected, RequestRejected, ListArtifactsRejected, Fresh, Running
<1>2. ASSUME NEW k \in Calls, ListingStep(k) PROVE FALSE
      BY <1>2, ResumeKeeps DEF ListingStep, RequestStep, Inv
<1>3. ASSUME NEW k \in Calls, ServiceStep(k) PROVE FALSE
      BY <1>3 DEF ServiceStep, Answer, Refuse, Running
<1>4. ~ClickCancel
      BY DEF ClickCancel, CancelRequest, CancelRequestThrows, Cancel, CancelThrows,
             repositoryVars, Running
<1>5. ASSUME \/ ClickDownload \/ DownloadEnds \/ ClickCopy \/ CopyDisables \/ CopyEnables
             \/ SelectArtifact
             \/ \E e \in ToSet(projects) : SelectProject(e)
             \/ \E b \in Branch : SelectBranch(b)
      PROVE  FALSE
      BY <1>5 DEF ClickDownload, Download, DownloadEnds, ClickCopy, CopyDisables,
                  CopyEnables, SelectArtifact, SelectProject, SelectBranch, repositoryVars,
                  Running
<1>6. ~UNCHANGED vars BY DEF vars, repositoryVars, Running
<1> QED BY <1>1, <1>2, <1>3, <1>4, <1>5, <1>6 DEF Next

\* Unless the listing ends with it, a step brings it nearer to its end.
GetsNearer == isChecking /\ isChecking' => Nearer

LEMMA NearerStep ==
    ASSUME Inv, Inv', [Next]_vars, isChecking, isChecking'
    PROVE  Nearer /\ ((\E k \in Calls : call[k] # "none") => \E k \in Calls : call'[k] # "none")
<1>1. Running /\ Running' BY DEF Inv
<1>2. ASSUME NEW k \in Calls, ListingStep(k)
      PROVE  Nearer /\ \E j \in Calls : call'[j] # "none"
      BY <1>1, <1>2, ResumeMoves DEF ListingStep, RequestStep, Inv
<1>3. CASE \A k \in Calls : ~ListingStep(k)
      BY <1>1, <1>3, OthersMove
<1> QED BY <1>2, <1>3

\* A listing never waits for nothing: while the command runs, the storage
\* service has a request to answer or the UI thread a continuation to run.
THEOREM ListingNeverStalls == Spec => []SomethingPending
<1> DEFINE Waiting == Running => \E k \in Calls : call[k] # "none"
<1>1. Init => Waiting BY DEF Init, UseCaseInit, RepositoryInit, Running
<1>2. Inv /\ Inv' /\ Waiting /\ [Next]_vars => Waiting'
  <2> SUFFICES ASSUME Inv, Inv', Waiting, [Next]_vars, Running'
               PROVE  \E k \in Calls : call'[k] # "none"
      OBVIOUS
  <2>1. CASE Running
    <3>1. isChecking /\ isChecking' BY <2>1 DEF Inv
    <3> QED BY <2>1, <3>1, NearerStep
  <2>2. CASE ~Running
    <3>1. Check BY <2>2, OnlyCheckStarts
    <3>2. call'[Top] = "sent"
          BY <3>1, Projects DEF Check, RequestHoloLensPackages, ListArtifacts, SendOnly
    <3> QED BY <3>2, Projects
  <2> QED BY <2>1, <2>2
<1>3. Inv /\ Waiting => SomethingPending
  <2> SUFFICES ASSUME Inv, Waiting, Running PROVE SomethingPending BY DEF SomethingPending
  <2>1. Position \in 0 .. 2 * Len(BranchesOf) + 1 BY PositionBounds DEF Inv
  <2>2. \A k \in Calls : Left(call[k], segments[k]) \in 0 .. 2 * MaxSegments + 2
        BY LeftBounds DEF Inv, RepositoryInv, RepositoryTypeOK
  <2> QED BY <2>1, <2>2 DEF SomethingPending
<1> QED
  BY <1>1, <1>2, <1>3, Invariance, PTL DEF Spec

\* Every step of a listing that goes on brings it nearer to its end, however
\* answers, refusals, cancellations and clicks come: no step takes it back.
THEOREM ListingGetsNearer == Spec => [][GetsNearer]_vars
<1>1. Inv /\ Inv' /\ [Next]_vars => [GetsNearer]_vars
      BY NearerStep DEF GetsNearer
<1> QED
  BY <1>1, Invariance, PTL DEF Spec
=============================================================================
