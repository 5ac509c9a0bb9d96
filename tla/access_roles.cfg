SPECIFICATION Spec
CONSTANTS
  g1 = g1  g2 = g2  u1 = u1  v1 = v1  o1 = o1  o2 = o2  n1 = n1
  Request = {r1, r2}
  Tenant = {g1, g2}
  User = {u1, v1}
  Home <- Homes
  Role = {o1, o2, x1, x2}
  Name = {n1, n2}
  Key = {}
  Bundle <- Assigner
  SeedRole <- Owners
  SeedGrant <- Assignments
  Route = {"create_role", "assign_role", "unassign_role", "list_roles"}
  MaxTime = 0
  None = None
  MayFail = FALSE
SYMMETRY Symmetry
INVARIANTS ActsWithPermission GrantsStayInTenant
PROPERTIES ImplementsTenantAuthority
