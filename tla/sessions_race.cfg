SPECIFICATION Spec
CONSTANTS
  Request = {r1, r2}
  Session = {s1, s2}
  Token = {t1, t2, t3}
  NoSession = NoSession
  NoToken = NoToken
  RefreshTtl = 2
  AccessTtl = 1
  MaxTime = 1
  MayFail = FALSE
SYMMETRY Symmetry
CONSTRAINT OneSessionInTime
INVARIANTS NoLateExchange NoSecondExchange NoFalseAlarm Lineage ForksNeedReplay
PROPERTIES TokenRowsSettle
