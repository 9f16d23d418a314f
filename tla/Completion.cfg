SPECIFICATION Spec
CONSTANTS
  None = None
  Unknown = Unknown
  Cases <- HandedOver
  Commands <- MCCommands
  Edits <- MCEdits
  MaxFaults = 2
INVARIANTS
  VerifiedMeansChecked PatchIsReviewed ForbiddenIsNotPublished RecordsAgree
  AcceptedIsDelivered
PROPERTIES EveryExecutionIsRecorded
