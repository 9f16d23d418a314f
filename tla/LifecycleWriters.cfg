CONSTANTS
  MaxApprovals = 0
  ApproveIn <- AnyWaiting
  MaxAttempts = 1
  MaxRequests = 1
  MaxReaps = 1
  MaxPauses = 1
  MaxCrashes = 1
SPECIFICATION Spec
INVARIANTS StoriesAgree KilledWorkIsNotCompleted
