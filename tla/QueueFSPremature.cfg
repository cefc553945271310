SPECIFICATION Spec
CONSTANTS
  Jobs = {"s", "e"}
  Queues = {"Embedding", "Semantic"}
  QueueOf <- MCQueueOf
  Outputs <- MCOutputs
  StatusOrder <- MCOrder
  MaxConcurrent <- TwoAtOnce
  Deduped = {}
  Raising = {}
  Unreadable = {}
  Clearable = {}
  Waits = TRUE
  MaxRows = 3
  MaxRestarts = 0
INVARIANTS
  WaitMeansDone
