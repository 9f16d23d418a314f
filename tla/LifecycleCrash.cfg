CONSTANTS
  MaxApprovals = 0
  ApproveIn <- AnyWaiting
  MaxAttempts = 2
  MaxRequests = 1
  MaxReaps = 1
  MaxPauses = 0
  MaxCrashes = 1
SPECIFICATION FairSpec
PROPERTIES SubmittedSettles CrashedWorkSettles
