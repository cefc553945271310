SPECIFICATION Spec
CONSTANTS
  Owners = {1, 2}
  Paths = {"p", "q"}
  Anc <- MCAnc
  Asks <- AskTreeAndChild
  Refreshers = {1}
  Crashers = {2}
  Expire = 0
  MaxClock = 1
  Kinds <- ChildOrNot
INVARIANTS
  TypeOK
  GuardedExclusion
