SPECIFICATION FairSpec
CONSTANTS
  Owners = {1, 2}
  Paths = {"p", "q"}
  Anc <- MCAnc
  Asks <- AskTreeAndChild
  Refreshers = {}
  Crashers = {1, 2}
  Expire = 0
  MaxClock = 1
  Kinds <- ChildDir
PROPERTIES
  AcquireReturns
  OrphanReclaimed
INVARIANTS
  IInv
