SPECIFICATION FairSpec
CONSTANTS
  Jobs = {"s", "e"}
  Queues = {"Embedding", "Semantic"}
  QueueOf <- MCQueueOf
  Outputs <- MCOutputs
  StatusOrder <- MCOrder
  MaxConcurrent <- SequentialEmbedding
  Deduped = {}
  Raising = {"s"}
  Unreadable = {"s"}
  Clearable = {"Embedding"}
  Waits = FALSE
  MaxRows = 5
  MaxRestarts = 1
INVARIANTS
  TypeOK
  AckIsSafe
  NothingStranded
  InProgressExact
PROPERTIES
  LedgerSpec
  EveryJobSettles
