SPECIFICATION FairSpec
CONSTANTS
  Jobs = {"s", "e"}
  Queues = {"Embedding", "Semantic"}
  QueueOf <- MCQueueOf
  Outputs <- MCOutputs
  StatusOrder <- MCOrder
  MaxConcurrent <- OneByOne
  Deduped = {}
  Raising = {"s"}
  Unreadable = {}
  Clearable = {}
  Waits = TRUE
  MaxRows = 3
  MaxRestarts = 0
PROPERTIES
  WaitReturns
