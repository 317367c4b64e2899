SPECIFICATION Spec
CONSTANTS
  MaxResults = 5
INVARIANTS
  IncludedAreAccepted
CHECK_DEADLOCK FALSE
