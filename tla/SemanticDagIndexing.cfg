SPECIFICATION FairSpec
CONSTANTS
  Dirs <- TreeDirs
  Files <- TreeFiles
  Gone <- TreeGone
  Root = "r"
  Parent <- TreeParent
  Ancestors <- TreeAncestors
  Confs <- TreeConfs
  MaxWorkers = 2
  Handlers = {1}
  FailureThreshold = 1
INVARIANTS
  TypeOK
  OverviewSeesChildren
  NoStaleReuse
  HeldWhileIndexing
PROPERTIES
  LockReleased
CHECK_DEADLOCK FALSE
