SPECIFICATION Spec
CONSTANTS
  BranchesOf <- MCBranchesOf
  MaxSegments = 2
  MaxRequests = 1
  MaxDownloads = 1
  MaxCopies = 1
  NoProject = NoProject
INVARIANT CancellableAreLive
CHECK_DEADLOCK FALSE
