CONSTANTS
  Envs = {e1, e2}
  MaxNumPlayers = 4
  Batches = {1, 2}
  Nothing = Nothing
SPECIFICATION Spec
INVARIANTS IInv OwnPlayersAct
