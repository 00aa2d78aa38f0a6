CONSTANTS
  Envs = {r1, r2, r3}
  Requests = {r1, r2, r3, r4}
  Configs <- BothModes
  MaxPositions = 19
  Null = Null
SPECIFICATION Spec
SYMMETRY Symmetry
INVARIANTS IInv NoStaleBuffer BatchIsComplete OldestFirst SyncOrder AlignedBetweenRounds
CHECK_DEADLOCK FALSE
