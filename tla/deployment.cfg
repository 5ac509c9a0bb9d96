SPECIFICATION Spec
CONSTANTS
  Process = {p1, p2}
  k1 = k1  k2 = k2  n1 = n1  n2 = n2  a1 = a1  a2 = a2
  i1 = i1  i2 = i2  s1 = s1  w1 = w1
  Config <- Configs
  Pair = {k1, k2}
  Drawn = {d1, d2, d3}
  Issuer = {n1, n2}
  Audience = {a1, a2}
  Kid = {i1, i2}
  Pepper = {s1, w1}
  Strong = {s1}
  Token = {t1}
  Row = {h1}
  AccessTtl = 1
  PerSecond = 2
  MaxTime = 4
  None = None
SYMMETRY Symmetry
INVARIANTS IInv ReplicasAgree LifetimeIsKept NoDrawnKeyInProduction SecretsSurvive
