SPECIFICATION FairSpec
CONSTANTS
  Jobs = {"s", "e"}
  Queues = {"Embedding", "Semantic"}
  QueueOf <- MCQueueOf
  Outputs <- MCOutputs
  StatusOrder <- MCOrder
  MaxConcurrent <- TwoAtOnce
  Deduped = {"s"}
  Raising = {"s"}
  Unreadable = {"e"}
  Clearable = {}
  Waits = TRUE
  MaxRows = 4
  MaxRestarts = 0
PROPERTIES
  WaitReturns
