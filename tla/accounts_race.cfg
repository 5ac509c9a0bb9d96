SPECIFICATION Spec
CONSTANTS
  Request = {r1, r2}
  Tenant = {g1}
  User = {u1, u2}
  Spelling = {jane, JANE}
  Password = {p1, p2}
  a1 = a1
  Address = {a1}
  Normalized <- OneAddress
  None = None
  MayFail = TRUE
  MayLose = FALSE
SYMMETRY Symmetry
INVARIANTS IInv RegisteredCanLogin RefusalsAreAudited NoBarredLogin
PROPERTIES ImplementsMembership
