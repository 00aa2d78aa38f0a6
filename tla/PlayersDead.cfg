CONSTANTS
  Envs = {e1, e2}
  MaxNumPlayers = 2
  Batches = {1, 2}
  Nothing = Nothing
SPECIFICATION Spec
INVARIANT InferredPlayersAct
