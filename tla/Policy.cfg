CONSTANTS
  t1 = t1
  t2 = t2
  t3 = t3
  src = src
  Tasks <- MCTasks
  Types <- MCTypes
  Paths <- MCPaths
  Overrides <- MCOverrides
  Requests <- MCRequests
  None = None
  MaxRollbacks = 1
  MaxRevokes = 1
  MaxCrashes = 1
SPECIFICATION Spec
SYMMETRY TaskSymmetry
CHECK_DEADLOCK FALSE
INVARIANTS AutoApprovalIsEarned CountsAreBacked DangerNeverRuns
PROPERTIES RollbackEarnsNothing
