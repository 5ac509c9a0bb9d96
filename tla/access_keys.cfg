SPECIFICATION Spec
CONSTANTS
  g1 = g1  g2 = g2  u1 = u1  v1 = v1  o1 = o1  o2 = o2  n1 = n1
  Request = {r1, r2}
  Tenant = {g1, g2}
  User = {u1, v1}
  Home <- Homes
  Role = {o1, o2}
  Name = {n1}
  Key = {k1}
  Bundle <- Writers
  SeedRole <- Owners
  SeedGrant <- Assignments
  Route = {"create_key", "revoke_key", "get_key"}
  MaxTime = 2
  None = None
  MayFail = TRUE
SYMMETRY Symmetry
PROPERTIES KeysSettle ImplementsTenantAuthority
