SPECIFICATION FairSpec
CONSTANTS
  MaxMsgs = 2
  MaxArchives = 2
  MemorySteps = {"long_term"}
  MaxConcurrent = 2
  FaultKinds = {}
  MaxFaults = 1
  MaxCrashes = 1
PROPERTY NobodyWaitsForever
CHECK_DEADLOCK FALSE
