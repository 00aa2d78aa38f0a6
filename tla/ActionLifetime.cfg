CONSTANTS
  Envs = {e1, e2}
  Workers = {w1, w2}
  MaxSends = 3
  Nothing = Nothing
SPECIFICATION Spec
INVARIANTS IInv StepReadsLiveArray
PROPERTY CallsReturn
CHECK_DEADLOCK FALSE
