SPECIFICATION Spec
CONSTANTS
  Request = {r1}
  Tenant = {g1}
  User = {u1}
  Spelling = {jane}
  Password = {p1}
  a1 = a1
  Address = {a1}
  Normalized <- OneAddress
  None = None
  MayFail = TRUE
  MayLose = TRUE

INVARIANTS RegistrationIsAtomic
