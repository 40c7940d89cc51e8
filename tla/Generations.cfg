\* Failed captures and crashes, one fewer than keep_per_repo allows.
CONSTANTS
  r1 = r1
  r2 = r2
  Runs = {r1}
  Keep = 4
  MaxGens = 10
  MaxFaults = 2
SPECIFICATION Spec
INVARIANTS
  NothingHalfMadeAdvertised
  LastResultRestorable
CHECK_DEADLOCK FALSE
