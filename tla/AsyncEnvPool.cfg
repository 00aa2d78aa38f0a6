CONSTANTS
  Envs = {e1, e2}
  Workers = {w1, w2}
  Actions = {a}
  Configs <- AnyMode
  MaxEpisodeSteps = 1
  Nothing = Nothing
SPECIFICATION FairSpec
INVARIANTS IInv NoEnvRace SteppingNumIsOutstanding NeverStuck
PROPERTIES ImplementsVectorEnv RecvReturns DestructorJoins
CHECK_DEADLOCK FALSE
