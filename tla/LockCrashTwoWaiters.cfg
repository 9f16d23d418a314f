CONSTANTS
  Procs = {p1,p2,p3}
  MaxOps = 1
  MaxTries = 1
  MaxCrashes = 1
SPECIFICATION Spec
INVARIANTS NoLostUpdate

