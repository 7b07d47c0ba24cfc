--------------------------- MODULE ChoiceArtifact ---------------------------
(***************************************************************************)
(* uwp/SelectedTextSpeach, ViewModels/ChoiceArtifactViewModel.cs: the page  *)
(* on which the user lists the artifacts of a blob container, cancels the   *)
(* listing, picks a project, a branch and an artifact, copies its URL and   *)
(* downloads it.  It composes the view model with the use case and with the *)
(* repository of its listing.                                               *)
(*                                                                          *)
(* Every step is one turn of the UI thread, or of a pool thread for the two *)
(* that follow a copy.  An await that completes on the UI thread continues  *)
(* inline, so the end of a listing, the use case's reaction and the view    *)
(* model's are one step.  An exception that leaves a command takes the      *)
(* application down (App.xaml.cs, OnUnhandledException).                    *)
(***************************************************************************)
EXTENDS BlobArtifactUseCase

CONSTANTS MaxRequests,   \* bound: clicks on "Get Blob Items"
          MaxDownloads,  \* bound: downloads that run at once
          MaxCopies,     \* bound: clicks on "Copy SasUrl" within half a second
          NoProject      \* no project selected

ASSUME RequestsBounded == MaxRequests \in Nat
ASSUME ClicksBounded == MaxDownloads \in Nat /\ MaxCopies \in Nat

VARIABLES
    isChecking,      \* IsBlobChecking, true as long as OnClickCheckBlobCommand runs
    projects,        \* Projects, the list of the first combo box
    lastArtifact,    \* latest value of Artifacts, which drops an equal successor
    selectedProject, \* SelectedProject
    branches,        \* Branches: the cached projects whose branches are listed
    selectedBranch,  \* SelectedBranch, Top for none
    artifacts,       \* Artifacts: the cached projects whose details are listed
    hasArtifact,     \* SelectedArtifact is not null
    hasUrl,          \* ArtifactUrl is not blank
    copyEnabled,     \* CopyButtonEnabled: both Copy and Download can be clicked
    downloads,       \* how many handlers of OnClickDownloadCommand run
    toDisable,       \* copies whose Observable.Start has not run yet
    toEnable,        \* copies whose half second is not over
    down             \* an exception was left unhandled

selectionVars == <<selectedProject, branches, selectedBranch, artifacts, hasArtifact, hasUrl>>
listVars == <<isChecking, projects, lastArtifact>>
buttonVars == <<copyEnabled, downloads, toDisable, toEnable>>
vars == <<repositoryVars, useCaseVars, listVars, selectionVars, buttonVars, down>>

None == <<>>   \* no artifact published yet

Init ==
    /\ UseCaseInit
    /\ isChecking = FALSE
    /\ projects = <<>>
    /\ lastArtifact = None
    /\ selectedProject = NoProject
    /\ branches = {}
    /\ selectedBranch = Top
    /\ artifacts = {}
    /\ hasArtifact = FALSE
    /\ hasUrl = FALSE
    /\ copyEnabled = FALSE
    /\ downloads = 0 /\ toDisable = 0 /\ toEnable = 0
    /\ down = FALSE

-----------------------------------------------------------------------------
(* The artifacts published to the list                                      *)

\* ReadOnlyReactivePropertySlim passes a value on unless it equals the one
\* before.  Those of one step differ, so only the first can be dropped.
Distinct(es) ==
    IF es # <<>> /\ es[1] = lastArtifact THEN Tail(es) ELSE es

Latest(es) == IF es = <<>> THEN lastArtifact ELSE Last(es)

\* Projects.Add for each artifact that arrives.
AddProjects(es) ==
    /\ projects' = projects \o Distinct(es)
    /\ lastArtifact' = Latest(es)

\* Clearing the list behind a combo box clears its selection (XAML).
ClearAll ==
    /\ selectedProject' = NoProject
    /\ branches' = {}
    /\ selectedBranch' = Top
    /\ artifacts' = {}
    /\ hasArtifact' = FALSE
    /\ UNCHANGED hasUrl

-----------------------------------------------------------------------------
(* Commands                                                                 *)

\* OnClickCheckBlobCommand, an AsyncReactiveCommand: not while it runs.  The
\* request starts first, then the lists are cleared.
Check ==
    /\ ~down /\ ~isChecking /\ requests < MaxRequests
    /\ RequestHoloLensPackages
    /\ isChecking' = TRUE
    /\ projects' = <<>>
    /\ ClearAll
    /\ UNCHANGED <<lastArtifact, buttonVars, down>>

\* With a malformed connection string the request is over before the lists
\* are cleared, and what it published goes with them.
CheckRejected ==
    /\ ~down /\ ~isChecking /\ requests < MaxRequests
    /\ RequestRejected
    /\ projects' = <<>>
    /\ lastArtifact' = Latest(caches)
    /\ ClearAll
    /\ UNCHANGED <<isChecking, buttonVars, down>>

\* "IsBlobChecking.Value = false" is reached after a success only.
UntilSuccess == phase' # "completed"

\* The await in the command's handler is still pending.
StillAwaited == phase' \in {"directories", "branches", "details"}

\* A continuation of the listing; when the listing ends so does the command.
ListingStep(k) ==
    /\ ~down
    /\ RequestStep(k)
    /\ AddProjects(Published)
    /\ isChecking' = StillAwaited
    /\ UNCHANGED <<selectionVars, buttonVars, down>>

ServiceStep(k) ==
    /\ ~down
    /\ Answer(k) \/ Refuse(k)
    /\ UNCHANGED <<useCaseVars, listVars, selectionVars, buttonVars, down>>

\* OnClickCancelBlobCommand: the list is cleared, then the request cancelled.
ClickCancel ==
    /\ ~down /\ isChecking
    /\ projects' = <<>>
    /\ selectedProject' = NoProject
    /\ \/ CancelRequest /\ UNCHANGED down
       \/ CancelRequestThrows /\ down' = TRUE
    /\ UNCHANGED <<isChecking, lastArtifact, branches, selectedBranch, artifacts,
                   hasArtifact, hasUrl, buttonVars>>

\* OnClickDownloadCommand shares CopyButtonEnabled: it is FALSE from the click
\* on, but another artifact or the end of a copy may set it while downloads
\* run.  The handler dereferences SelectedArtifact.Value.
ClickDownload ==
    /\ ~down /\ copyEnabled
    /\ \/ /\ hasArtifact /\ downloads < MaxDownloads
          /\ Download
          /\ downloads' = downloads + 1
          /\ copyEnabled' = FALSE
          /\ UNCHANGED down
       \/ /\ ~hasArtifact
          /\ down' = TRUE
          /\ UNCHANGED <<repositoryVars, useCaseVars, downloads, copyEnabled>>
    /\ UNCHANGED <<listVars, selectionVars, toDisable, toEnable>>

\* DownloadAsStreamAsync ends, the command can be executed again, and nothing
\* catches what was thrown.
DownloadEnds ==
    /\ ~down /\ downloads > 0
    /\ downloads' = downloads - 1
    /\ copyEnabled' = TRUE
    /\ down' \in BOOLEAN
    /\ UNCHANGED <<repositoryVars, useCaseVars, listVars, selectionVars, toDisable, toEnable>>

\* OnClickCopyCommand passes SelectedArtifact.Value.Name too, and disables the
\* button for half a second.
ClickCopy ==
    /\ ~down /\ copyEnabled
    /\ \/ /\ hasArtifact /\ toDisable + toEnable < MaxCopies
          /\ toDisable' = toDisable + 1
          /\ UNCHANGED down
       \/ /\ ~hasArtifact
          /\ down' = TRUE
          /\ UNCHANGED toDisable
    /\ UNCHANGED <<repositoryVars, useCaseVars, listVars, selectionVars, copyEnabled,
                   downloads, toEnable>>

\* Observable.Start and what follows its Delay, both on pool threads.
CopyDisables ==
    /\ ~down /\ toDisable > 0
    /\ toDisable' = toDisable - 1
    /\ toEnable' = toEnable + 1
    /\ copyEnabled' = FALSE
    /\ UNCHANGED <<repositoryVars, useCaseVars, listVars, selectionVars, downloads, down>>

CopyEnables ==
    /\ ~down /\ toEnable > 0
    /\ toEnable' = toEnable - 1
    /\ copyEnabled' = TRUE
    /\ UNCHANGED <<repositoryVars, useCaseVars, listVars, selectionVars, downloads,
                   toDisable, down>>

-----------------------------------------------------------------------------
(* The combo boxes                                                          *)

\* SelectedProject: Branches is filled from the cache, by project name.
SelectProject(e) ==
    /\ ~down
    /\ e \in ToSet(projects)
    /\ e # selectedProject
    /\ selectedProject' = e
    /\ branches' = ArtifactCache(e.project)
    /\ selectedBranch' = Top
    /\ artifacts' = {}
    /\ hasArtifact' = FALSE
    /\ UNCHANGED <<repositoryVars, useCaseVars, listVars, hasUrl, buttonVars, down>>

\* SelectedBranch: Artifacts is filled from the cache for the project that is
\* selected now, possibly none.
SelectBranch(b) ==
    /\ ~down
    /\ \E e \in branches : b \in e.branches
    /\ b # selectedBranch
    /\ selectedBranch' = b
    /\ artifacts' = IF selectedProject = NoProject THEN {}
                    ELSE ArtifactDetailCache(selectedProject.project, b)
    /\ hasArtifact' = FALSE
    /\ UNCHANGED <<repositoryVars, useCaseVars, listVars, selectedProject, branches,
                   hasUrl, buttonVars, down>>

\* A URL other than the last one enables the buttons, whatever disabled them.
SelectArtifact ==
    /\ ~down
    /\ artifacts # {}
    /\ hasArtifact' = TRUE
    /\ hasUrl' = TRUE
    /\ copyEnabled' = TRUE \/ (hasUrl /\ copyEnabled' = copyEnabled)
    /\ UNCHANGED <<repositoryVars, useCaseVars, listVars, selectedProject, branches,
                   selectedBranch, artifacts, downloads, toDisable, toEnable, down>>

-----------------------------------------------------------------------------
Next ==
    \/ Check \/ CheckRejected
    \/ \E k \in Calls : ListingStep(k) \/ ServiceStep(k)
    \/ ClickCancel \/ ClickDownload \/ DownloadEnds
    \/ ClickCopy \/ CopyDisables \/ CopyEnables
    \/ \E e \in ToSet(projects) : SelectProject(e)
    \/ \E b \in Branch : SelectBranch(b)
    \/ SelectArtifact

Spec == Init /\ [][Next]_vars

\* The UI thread runs every continuation that is queued, and the storage
\* client ends every request: it has a timeout and a bounded retry policy.
\* No user is obliged to click.
FairSpec ==
    /\ Spec
    /\ \A k \in Calls : WF_vars(ServiceStep(k)) /\ WF_vars(ListingStep(k))

-----------------------------------------------------------------------------
(* Properties                                                               *)

ButtonsTypeOK ==
    /\ copyEnabled \in BOOLEAN
    /\ downloads \in 0 .. MaxDownloads
    /\ toDisable \in Nat /\ toEnable \in Nat /\ toDisable + toEnable <= MaxCopies

TypeOK ==
    /\ UseCaseTypeOK(MaxRequests)
    /\ isChecking \in BOOLEAN
    /\ projects \in Seq(Artifact(MaxRequests))
    /\ lastArtifact = None \/ lastArtifact \in Artifact(MaxRequests)
    /\ selectedProject = NoProject \/ selectedProject \in Artifact(MaxRequests)
    /\ branches \subseteq Artifact(MaxRequests)
    /\ selectedBranch \in Calls
    /\ artifacts \subseteq Artifact(MaxRequests)
    /\ hasArtifact \in BOOLEAN /\ hasUrl \in BOOLEAN
    /\ down \in BOOLEAN
    /\ ButtonsTypeOK

\* However segments, projects and branches overlap and whenever Cancel was
\* clicked, a request still on its way has its live token in the dictionary:
\* the next Cancel of this repository reaches it.
EveryCallCancellable ==
    \A k \in Calls : call[k] = "sent" => registered[k] = "live"

\* The page never shows, caches or offers a project with branches missing,
\* though they are gathered concurrently and any of them may fail.
OnlyWholeProjects ==
    \A e \in ToSet(projects) \cup ToSet(caches) \cup branches \cup artifacts :
        e.branches = 1 .. BranchesOf[e.project]

\* What is offered for selection, copying and download never comes from a
\* listing that is still running, failed or was cancelled.
OnlyFinishedListings ==
    \A e \in ToSet(caches) \cup branches \cup artifacts :
        e.listing = requests => phase = "completed"

\* The command is running exactly as long as the listing is, and a listing
\* that ended left no request behind it.
QuietWhenIdle ==
    /\ isChecking <=> Running
    /\ ~isChecking => \A k \in Calls : call[k] = "none"

\* After a listing that was cancelled or failed on the way, every project of
\* the cache is in the list again, whatever was cleared or found meanwhile.
\* (Not for a malformed connection string, where the list is cleared last, nor
\* for a cache of one project, which may equal the value published last.)
CachedProjectsComeBack ==
    [][isChecking /\ ~isChecking' /\ phase' # "completed" /\ Len(caches) # 1
           => ToSet(caches) \subseteq ToSet(projects')]_vars

\* One branch that was cancelled or failed keeps its project, and the listing,
\* from ever counting as complete.
NoSuccessAfterFailure ==
    [][Running /\ (\E k \in Calls : failure[k] # "none" \/ call[k] = "cancelled")
           => artifactList' = artifactList /\ phase' # "completed"]_vars

\* Every check comes to an end, unless the application went down.
CheckEnds == isChecking ~> (~isChecking \/ down)

\* While a listing can be cancelled, every CTS in the dictionary can still be
\* cancelled: what needs no cancellation any more has been removed.
CancellableAreLive ==
    isChecking => \A k \in Calls : registered[k] # "disposed"
=============================================================================
