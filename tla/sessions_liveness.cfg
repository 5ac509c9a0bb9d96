SPECIFICATION FairSpec
CONSTANTS
  Request = {r1, r2}
  Session = {s1}
  Token = {t1, t2}
  NoSession = NoSession
  NoToken = NoToken
  RefreshTtl = 2
  AccessTtl = 1
  MaxTime = 1
  MayFail = FALSE
INVARIANTS NoHandlerStuck
PROPERTIES RevocationCompletes SessionRowsSettle
