SPECIFICATION Spec
CONSTANTS
  Script = {1, 2}
  Version = {v1}
  Roles = 2
  None = None
  Bare = Bare
INVARIANTS SuccessLeavesOwner
CHECK_DEADLOCK FALSE
