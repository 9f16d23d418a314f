CONSTANTS
  MaxApprovals = 1
  ApproveIn <- SoftWaiting
  MaxAttempts = 1
  MaxRequests = 0
  MaxReaps = 0
  MaxPauses = 0
  MaxCrashes = 0
SPECIFICATION Spec
INVARIANTS WorkerHasItsWorktree
