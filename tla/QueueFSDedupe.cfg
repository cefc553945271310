SPECIFICATION Spec
CONSTANTS
  Jobs = {"m"}
  Queues = {"Embedding", "Semantic"}
  QueueOf <- MCQueueOf
  Outputs <- MCOutputs
  StatusOrder <- MCOrder
  MaxConcurrent <- TwoAtOnce
  Deduped = {"m"}
  Raising = {}
  Unreadable = {}
  Clearable = {}
  Waits = FALSE
  MaxRows = 2
  MaxRestarts = 0
INVARIANTS
  AckIsSafe
