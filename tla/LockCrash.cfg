SPECIFICATION FairSpec
CONSTANTS
  Procs = {p1,p2}
  MaxOps = 2
  MaxTries = 2
  MaxCrashes = 1
INVARIANTS TypeOK ExclusionUntilCrash
PROPERTIES CallsAreAtomic EveryCallEnds
