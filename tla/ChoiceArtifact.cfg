SPECIFICATION FairSpec
CONSTANTS
  BranchesOf <- MCBranchesOf
  MaxSegments = 2
  MaxRequests = 3
  MaxDownloads = 2
  MaxCopies = 1
  NoProject = NoProject
INVARIANTS TypeOK EveryCallCancellable OnlyWholeProjects OnlyFinishedListings QuietWhenIdle
PROPERTIES CachedProjectsComeBack NoSuccessAfterFailure CheckEnds
CHECK_DEADLOCK FALSE
