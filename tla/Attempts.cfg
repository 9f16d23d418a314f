SPECIFICATION Spec
CONSTANTS
  None = None
  MaxBaselines = 2
  MaxAttempts = 4
  Routes <- MCRoutes
  Edits <- MCEdits
INVARIANTS SidesNotRevisited AuditCoversResult RowsTellTheOutcome LedgerIsConsistent
PROPERTIES RunEnds StopsAreFinal
