SPECIFICATION Spec
CONSTANTS
  Owners = {1, 2}
  Paths = {"p", "q"}
  Anc <- MCAnc
  Asks <- AskExactP
  Refreshers = {}
  Crashers = {}
  Expire = 0
  MaxClock = 0
  Kinds <- ChildDir
INVARIANTS
  MutualExclusion
