CONSTANTS
  MaxAttempts = 2
  MaxPolls = 1
  MaxLosses = 1
  MaxStale = 1
  MaxReaps = 2
SPECIFICATION FairSpec
INVARIANTS ResultMatchesRecord KilledIsReported ReaperSparesRunners
PROPERTIES AttemptEnds CancelStopsWorker
