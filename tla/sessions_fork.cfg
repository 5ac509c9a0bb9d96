SPECIFICATION Spec
CONSTANTS
  Request = {r1, r2}
  Session = {s1}
  Token = {t1, t2, t3}
  NoSession = NoSession
  NoToken = NoToken
  RefreshTtl = 1
  AccessTtl = 1
  MaxTime = 0
  MayFail = FALSE
PROPERTIES RotationInvalidates
