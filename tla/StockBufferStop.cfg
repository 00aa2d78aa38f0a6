CONSTANTS
  Creators = {c1}
  Buffer = Buffer
  Null = Null
  NumEnvs = 1
  Batch = 1
  MaxTakes = 8
SPECIFICATION FairSpec
PROPERTIES DestructorStopsThreads
CHECK_DEADLOCK FALSE
