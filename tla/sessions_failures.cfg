SPECIFICATION Spec
CONSTANTS
  Request = {r1, r2}
  Session = {s1}
  Token = {t1, t2}
  NoSession = NoSession
  NoToken = NoToken
  RefreshTtl = 1
  AccessTtl = 1
  MaxTime = 1
  MayFail = TRUE
SYMMETRY Symmetry
INVARIANTS IInv AuditIsTruthful OrphansAreUnheld
PROPERTIES ImplementsAuthority
