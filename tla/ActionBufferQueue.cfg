CONSTANTS
  Senders = {s1, s2}
  Workers = {w1, w2}
  Slices = {a, b}
  NoSlice = NoSlice
  NumEnvs = 1
  MaxBulk = 2
  MaxEnqueued = 4
SPECIFICATION FairSpec
INVARIANTS DequeueReturnsSent NoSlotRace IInv
PROPERTIES ImplementsFifo EverySliceDelivered
CHECK_DEADLOCK FALSE
