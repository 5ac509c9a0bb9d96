SPECIFICATION Spec
CONSTANTS
  Reader = {w1}
  Row = {1, 2, 3}
  Table = {"sessions", "audit_logs"}
  Tenant = {g1, g2}
  Tag = {success, failure}
  Limit = {1, None}
  DefaultLimit = 2
  MaxLimit = 3
  Top = 1
  SessionTtl = 1
  MaxTime = 1
  None = None
  Broken = Broken
SYMMETRY Symmetry
INVARIANTS IInv WalkIsScan CountsAreCurrent RecentAreNewest
PROPERTIES WalkAdvances
