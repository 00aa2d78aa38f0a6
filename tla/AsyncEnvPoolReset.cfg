CONSTANTS
  Envs = {e1, e2}
  Workers = {w1, w2}
  Actions = {a}
  Configs <- MultiPlayer
  MaxEpisodeSteps = 1
  Nothing = Nothing
SPECIFICATION FairSpec
PROPERTIES ResetReturns
CHECK_DEADLOCK FALSE
