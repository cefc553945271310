SPECIFICATION Spec
CONSTANTS
  Nodes <- Tree
  Scopes <- TreeScopes
  Parent <- TreeParent
  Policies <- FileOrListing
  Readers = {1, 2}
  Greps = {1}
  Implicit = TRUE
  MaxChanges = 1
  MaxFaults = 1
  MaxRestarts = 1
INVARIANTS
  TypeOK
  NoStaleRead
  StaleIsDoomed
  SingleFlight
CHECK_DEADLOCK FALSE
