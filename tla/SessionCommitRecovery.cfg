SPECIFICATION FairSpec
CONSTANTS
  MaxMsgs = 2
  MaxArchives = 2
  MemorySteps = {"long_term"}
  MaxConcurrent = 2
  FaultKinds <- AllFaults
  MaxFaults = 1
  MaxCrashes = 1
INVARIANTS
  TypeOK
  NothingLost
  CompletedInOrder
  ExtractedOnce
  AckedIsSettled
PROPERTIES
  CommitsSettle
CHECK_DEADLOCK FALSE
