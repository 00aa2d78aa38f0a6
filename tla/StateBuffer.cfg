CONSTANTS
  Requests = {r1, r2, r3, r4}
  Batch = 3
  MostPlayers = 2
  Half = 7
  Nobody = Nobody
SPECIFICATION FairSpec
INVARIANTS IInv SlicesDisjoint QuietOnReturn WaitReturnsWrittenRows RowsFollowOrder
PROPERTIES WaitReturns
CHECK_DEADLOCK FALSE
