SPECIFICATION Spec
CONSTANTS
  None = None
  Unknown = Unknown
INVARIANTS
  StatusTablesAgree FinishedStaysFinished ProvidersFit ReadOnlyIsNotEscalated
  BetterHistoryNeverHurts ReadersAgree
CHECK_DEADLOCK FALSE
