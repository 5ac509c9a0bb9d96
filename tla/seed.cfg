SPECIFICATION FairSpec
CONSTANTS
  Script = {1, 2, 3}
  Version = {v1, v2}
  Roles = 2
  None = None
  Bare = Bare
INVARIANTS IInv RolesAreWhole RolesAreSynced OwnerIsReady OneGetsThrough NoScriptStuck
PROPERTIES EveryRunEnds
CHECK_DEADLOCK FALSE
