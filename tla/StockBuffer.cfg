CONSTANTS
  Creators = {c1, c2}
  Buffer = Buffer
  Null = Null
  NumEnvs = 1
  Batch = 1
  MaxTakes = 8
SPECIFICATION FairSpec
INVARIANTS IInv NeverNull NoOverwrite
PROPERTIES DestructorStopsStocked
CHECK_DEADLOCK FALSE
