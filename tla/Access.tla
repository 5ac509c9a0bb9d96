-------------------------------- MODULE Access --------------------------------
(***************************************************************************)
(* Who may do what: roles and their assignment to users, API keys, the     *)
(* guards every tenant route runs (authenticate, requirePermission,        *)
(* assertTenantAccess) and the routes that change roles, assignments and   *)
(* keys.  A user's bearer token is Sessions' business: here a user is      *)
(* simply authenticated, an API key is looked up.                          *)
(*                                                                         *)
(* A step is one statement and the code up to the next await.  The guards  *)
(* have run when a handler starts, and nothing holds what they saw.  Of    *)
(* the audit trail, which only grows and which no statement here reads,    *)
(* the model keeps the row that the last step wrote.                       *)
(***************************************************************************)
EXTENDS Naturals, FiniteSets

CONSTANTS
  Request,
  Tenant, User,
  Home,          \* the tenant each user belongs to
  Role, Name,    \* ids of rows of "roles", and role names
  Key,           \* rows of "api_keys", one per minted secret
  Bundle,        \* sets of permissions that callers ask for
  SeedRole,      \* rows of "roles" that the seed has stored
  SeedGrant,     \* rows of "user_roles" that the seed has stored
  Route,         \* bound: the routes that callers use
  MaxTime,       \* bound on the clock
  None,
  MayFail        \* may database calls, replies and the process fail?

Catalog == {"roles.read", "roles.write", "roles.assign", "api-keys.read", "api-keys.write"}

Op == {"create_role", "assign_role", "unassign_role", "create_key", "revoke_key", "get_key",
       "list_roles"}

Moment  == (0..MaxTime) \cup {None}   \* None: never
RoleRow == [tenant : Tenant, name : Name, permissions : SUBSET Catalog]
NoRole  == [tenant |-> None, name |-> None, permissions |-> {}]
NoClaim == [action |-> "none", tenant |-> None, user |-> None, row |-> None, actor |-> None]
NoKey   == [tenant |-> None, scopes |-> {}, expiresAt |-> None, revoked |-> FALSE,
            lastUsedAt |-> None]

ASSUME NullAssumption == None \notin Tenant \cup User \cup Role \cup Name \cup Key \cup Nat
ASSUME ApartAssumption == User \cap Key = {} /\ Role \cap Key = {}
ASSUME HomeAssumption == Home \in [User -> Tenant]
ASSUME TimeAssumption == MaxTime \in Nat
ASSUME SeedAssumption ==
  /\ SeedRole \in [Role -> RoleRow \cup {NoRole}]
  /\ SeedGrant \subseteq User \X Role
  /\ \A ro, so \in Role : SeedRole[ro] # NoRole /\ SeedRole[so] # NoRole
       /\ SeedRole[ro].tenant = SeedRole[so].tenant /\ SeedRole[ro].name = SeedRole[so].name => ro = so
  /\ \A x \in SeedGrant : SeedRole[x[2]] # NoRole /\ SeedRole[x[2]].tenant = Home[x[1]]
ASSUME RouteAssumption == Route \subseteq Op
ASSUME FailAssumption == MayFail \in BOOLEAN

VARIABLES
  now,
  role,       \* the tables "roles" and "role_permissions"
  grant,      \* the table "user_roles"
  key,        \* the table "api_keys"
  touching,   \* updates of last_used_at that no one awaits
  issued,     \* keys whose plaintext some client holds
  wrote,      \* the row that the last step wrote to "audit_logs", if it wrote one
  req,        \* the local state of the request in each slot
  permitted   \* history: requests that were permitted at some instant so far

vars == <<now, role, grant, key, touching, issued, wrote, req, permitted>>

(* A free slot.  by: the user or key that calls; tenant, user, row: the    *)
(* route's parameters, row also the row inserted; name, bundle, expiry:    *)
(* the body.                                                               *)
Idle == [op |-> "none", pc |-> "idle", by |-> None, tenant |-> None, user |-> None,
         row |-> None, name |-> None, bundle |-> {}, expiry |-> None]

Init ==
  /\ now = 0
  /\ role = SeedRole
  /\ grant = SeedGrant
  /\ key = [k \in Key |-> NoKey]
  /\ touching = {} /\ issued = {} /\ wrote = NoClaim
  /\ req = [r \in Request |-> Idle]
  /\ permitted = {}

-------------------------------------------------------------------------------
(* The guards.                                                             *)

Needed(op) ==
  CASE op = "create_role"                   -> "roles.write"
    [] op \in {"assign_role", "unassign_role"} -> "roles.assign"
    [] op \in {"create_key", "revoke_key"}  -> "api-keys.write"
    [] op = "get_key"                       -> "api-keys.read"
    [] op = "list_roles"                    -> "roles.read"

(* permissionsForUser: the roles assigned to the user, in any tenant.      *)
PermissionsFor(u) == UNION {role[ro].permissions : ro \in {x \in Role : <<u, x>> \in grant}}

Valid(k) ==
  /\ key[k].tenant # None
  /\ ~key[k].revoked
  /\ key[k].expiresAt # None => key[k].expiresAt > now

TenantOf(p) == IF p \in User THEN Home[p] ELSE key[p].tenant

(* assertTenantAccess.                                                     *)
InScope(p, g) == TenantOf(p) = g

(* What the guards are for: the principal belongs to the tenant and holds  *)
(* the permission there, through a role of that tenant or as a scope of a  *)
(* key that is neither revoked nor past its deadline.                      *)
Permits(p, op, g) ==
  \/ /\ p \in User /\ Home[p] = g
     /\ \E ro \in Role : /\ <<p, ro>> \in grant /\ role[ro].tenant = g
                         /\ Needed(op) \in role[ro].permissions
  \/ /\ p \in Key /\ key[p].tenant = g
     /\ ~key[p].revoked /\ (key[p].expiresAt = None \/ now < key[p].expiresAt)
     /\ Needed(op) \in key[p].scopes

At(r, pc)   == req[r].pc = pc
Goto(r, pc) == req' = [req EXCEPT ![r].pc = pc]
End(r)      == req' = [req EXCEPT ![r] = Idle]

(* The first statement of each handler.                                    *)
FirstStep(op) ==
  CASE op = "create_role"   -> "find_name"
    [] op = "assign_role"   -> "find_user"
    [] op = "unassign_role" -> "find_role"
    [] op = "create_key"    -> "insert_key"
    [] op = "revoke_key"    -> "find_key"
    [] op \in {"get_key", "list_roles"} -> "serve"

(* After the last guard, up to the handler's first statement: the tenant   *)
(* is compared, permissions outside the catalog are refused.               *)
Proceed(r, allowed) ==
  IF allowed /\ InScope(req[r].by, req[r].tenant) /\ req[r].bundle \subseteq Catalog
  THEN Goto(r, FirstStep(req[r].op)) ELSE End(r)

(* A user: the roles are read, the tenant compared.                        *)
GuardUser(r) ==
  /\ At(r, "guard") /\ req[r].by \in User
  /\ Proceed(r, Needed(req[r].op) \in PermissionsFor(req[r].by))
  /\ UNCHANGED <<now, role, grant, key, touching, issued>>

(* A key: its row is read, an update of lastUsedAt sent off, the scopes    *)
(* and the tenant compared.                                                *)
GuardKey(r) ==
  LET k == req[r].by IN
  /\ At(r, "guard") /\ k \in Key
  /\ \/ /\ Valid(k)
        /\ touching' = touching \cup {<<k, now>>}
        /\ Proceed(r, Needed(req[r].op) \in key[k].scopes)
     \/ ~Valid(k) /\ End(r) /\ UNCHANGED touching
  /\ UNCHANGED <<now, role, grant, key, issued>>

(* Slip: the row as it was when it was read is written back.               *)
TouchRow(k, at) ==
  /\ <<k, at>> \in touching
  /\ key' = [key EXCEPT ![k].lastUsedAt = at, ![k].revoked = FALSE]
  /\ touching' = touching \ {<<k, at>>}
  /\ UNCHANGED <<now, role, grant, issued, req>>

(* An update of lastUsedAt lands: in any order, whatever became of the key.*)
Touch(k, at) ==
  /\ <<k, at>> \in touching
  /\ \/ key' = [key EXCEPT ![k].lastUsedAt = at]
     \/ MayFail /\ UNCHANGED key
  /\ touching' = touching \ {<<k, at>>}
  /\ UNCHANGED <<now, role, grant, issued, req>>

-------------------------------------------------------------------------------
(* Roles.                                                                  *)

Named(g, n) == {ro \in Role : role[ro].tenant = g /\ role[ro].name = n}

CreateRoleFind(r) ==
  /\ At(r, "find_name")
  /\ IF Named(req[r].tenant, req[r].name) = {} THEN Goto(r, "insert_role") ELSE End(r)
  /\ UNCHANGED <<now, role, grant, key, touching, issued>>

(* The row and its permissions are one statement.                          *)
StoreRole(r) ==
  \E ro \in Role :
    /\ role[ro] = NoRole
    /\ role' = [role EXCEPT ![ro] = [tenant |-> req[r].tenant, name |-> req[r].name,
                                    permissions |-> req[r].bundle]]
    /\ req' = [req EXCEPT ![r].row = ro, ![r].pc = "answer"]

(* Slip: the unique key is missing from the schema.                        *)
InsertRoleUnchecked(r) ==
  /\ At(r, "insert_role")
  /\ StoreRole(r)
  /\ UNCHANGED <<now, grant, key, touching, issued>>

(* A name that another request took meanwhile fails the insert.            *)
CreateRoleInsert(r) ==
  /\ At(r, "insert_role")
  /\ \/ Named(req[r].tenant, req[r].name) # {} /\ End(r) /\ UNCHANGED role
     \/ Named(req[r].tenant, req[r].name) = {} /\ StoreRole(r)
  /\ UNCHANGED <<now, grant, key, touching, issued>>

(* Slip: the user is looked up by id alone.                                *)
AssignAnyUser(r) ==
  /\ At(r, "find_user")
  /\ Goto(r, "find_role")
  /\ UNCHANGED <<now, role, grant, key, touching, issued>>

AssignFindUser(r) ==
  /\ At(r, "find_user")
  /\ IF Home[req[r].user] = req[r].tenant THEN Goto(r, "find_role") ELSE End(r)
  /\ UNCHANGED <<now, role, grant, key, touching, issued>>

(* Slip: the role is looked up by id alone.                                *)
FindAnyRole(r) ==
  /\ At(r, "find_role")
  /\ IF role[req[r].row] # NoRole THEN Goto(r, "write_grant") ELSE End(r)
  /\ UNCHANGED <<now, role, grant, key, touching, issued>>

FindRole(r) ==
  /\ At(r, "find_role")
  /\ IF role[req[r].row].tenant = req[r].tenant THEN Goto(r, "write_grant") ELSE End(r)
  /\ UNCHANGED <<now, role, grant, key, touching, issued>>

(* Both are idempotent: an upsert that updates nothing, a deleteMany.      *)
WriteGrant(r) ==
  /\ At(r, "write_grant")
  /\ grant' = IF req[r].op = "assign_role" THEN grant \cup {<<req[r].user, req[r].row>>}
                                          ELSE grant \ {<<req[r].user, req[r].row>>}
  /\ Goto(r, "answer")
  /\ UNCHANGED <<now, role, key, touching, issued>>

-------------------------------------------------------------------------------
(* API keys.                                                               *)

CreateKey(r) ==
  /\ At(r, "insert_key")
  /\ \E k \in Key :
       /\ key[k] = NoKey
       /\ key' = [key EXCEPT ![k] = [NoKey EXCEPT !.tenant = req[r].tenant, !.scopes = req[r].bundle,
                                                 !.expiresAt = req[r].expiry]]
       /\ req' = [req EXCEPT ![r].row = k, ![r].pc = "answer"]
  /\ UNCHANGED <<now, role, grant, touching, issued>>

(* Slip: the key is looked up by id alone.                                 *)
FindAnyKey(r) ==
  /\ At(r, "find_key")
  /\ Goto(r, "revoke_key")
  /\ UNCHANGED <<now, role, grant, key, touching, issued>>

RevokeKeyFind(r) ==
  /\ At(r, "find_key")
  /\ IF key[req[r].row].tenant = req[r].tenant THEN Goto(r, "revoke_key") ELSE End(r)
  /\ UNCHANGED <<now, role, grant, key, touching, issued>>

RevokeKey(r) ==
  /\ At(r, "revoke_key")
  /\ key' = [key EXCEPT ![req[r].row].revoked = TRUE]
  /\ Goto(r, "answer")
  /\ UNCHANGED <<now, role, grant, touching, issued>>

-------------------------------------------------------------------------------
(* A read: getting a key, listing the roles.                               *)
Serve(r) ==
  /\ At(r, "serve")
  /\ End(r)
  /\ UNCHANGED <<now, role, grant, key, touching, issued>>

(* What the audit row says: what was done and, if a user did it, who; the  *)
(* routes leave a key unnamed, and the row says "system".                  *)
ClaimOf(x) ==
  [action |-> x.op, tenant |-> x.tenant, user |-> x.user, row |-> x.row,
   actor |-> IF x.by \in User THEN x.by ELSE None]

(* The audit row is written, or the failure of the sink swallowed, and the *)
(* reply sent; the one that carries the plaintext of a new key may be      *)
(* lost, and it is never sent again.                                       *)
Answer(r) ==
  /\ At(r, "answer")
  /\ End(r)
  /\ wrote' = ClaimOf(req[r]) \/ (MayFail /\ wrote' = NoClaim)
  /\ \/ issued' = issued \cup (IF req[r].op = "create_key" THEN {req[r].row} ELSE {})
     \/ MayFail /\ UNCHANGED issued
  /\ UNCHANGED <<now, role, grant, key, touching>>

OutOfRows(r) ==
  \/ At(r, "insert_role") /\ \A ro \in Role : role[ro] # NoRole
  \/ At(r, "insert_key") /\ \A k \in Key : key[k] # NoKey

Fail(r) ==
  /\ ~At(r, "idle")
  /\ MayFail \/ OutOfRows(r)
  /\ End(r)
  /\ UNCHANGED <<now, role, grant, key, touching, issued>>

Tick ==
  /\ now < MaxTime
  /\ now' = now + 1
  /\ UNCHANGED <<role, grant, key, touching, issued, req>>

(* Any user, or the holder of a key, calls the routes of any tenant.       *)
Call(r, body) ==
  /\ At(r, "idle") /\ body.op \in Route
  /\ \E p \in User \cup issued, g \in Tenant :
       req' = [req EXCEPT ![r] = [body EXCEPT !.pc = "guard", !.by = p, !.tenant = g]]
  /\ UNCHANGED <<now, role, grant, key, touching, issued>>

Arrive(r) ==
  \/ \E n \in Name, b \in Bundle :
       Call(r, [Idle EXCEPT !.op = "create_role", !.name = n, !.bundle = b])
  \/ \E op \in {"assign_role", "unassign_role"}, u \in User, ro \in Role :
       Call(r, [Idle EXCEPT !.op = op, !.user = u, !.row = ro])
  \/ \E b \in Bundle, x \in Moment :
       Call(r, [Idle EXCEPT !.op = "create_key", !.bundle = b, !.expiry = x])
  \/ \E op \in {"revoke_key", "get_key"}, k \in Key : Call(r, [Idle EXCEPT !.op = op, !.row = k])
  \/ Call(r, [Idle EXCEPT !.op = "list_roles"])

Step(r) ==
  \/ GuardUser(r) \/ GuardKey(r)
  \/ CreateRoleFind(r) \/ CreateRoleInsert(r)
  \/ AssignFindUser(r) \/ FindRole(r) \/ WriteGrant(r)
  \/ CreateKey(r) \/ RevokeKeyFind(r) \/ RevokeKey(r)
  \/ Serve(r)

(* Was the request permitted, now or at an earlier instant of its life?    *)
Permitted(r) == Permits(req[r].by, req[r].op, req[r].tenant)
Remember ==
  permitted' = {r \in Request : /\ req'[r].pc # "idle"
                                /\ r \in permitted \/ Permitted(r)'}

Next ==
  /\ \/ \E r \in Request : Answer(r)
     \/ /\ wrote' = NoClaim
        /\ \/ Tick
           \/ \E x \in touching : Touch(x[1], x[2])
           \/ \E r \in Request : Step(r) \/ Fail(r) \/ Arrive(r)
  /\ Remember

Spec == Init /\ [][Next]_vars

-------------------------------------------------------------------------------
(* The tables, the request slots and the histories have their types.       *)
KeyRow == [tenant : Tenant \cup {None}, scopes : SUBSET Catalog, expiresAt : Moment,
           revoked : BOOLEAN, lastUsedAt : Moment]
Pc == {"idle", "guard", "find_name", "insert_role", "find_user", "find_role", "write_grant",
       "insert_key", "find_key", "revoke_key", "serve", "answer"}
Claim ==
  [action : Op, tenant : Tenant, user : User \cup {None}, row : Role \cup Key \cup {None},
   actor : User \cup {None}] \cup {NoClaim}
RequestState ==
  [op : Op \cup {"none"}, pc : Pc, by : User \cup Key \cup {None}, tenant : Tenant \cup {None},
   user : User \cup {None}, row : Role \cup Key \cup {None}, name : Name \cup {None},
   bundle : Bundle \cup {{}}, expiry : Moment]

TypeOK ==
  /\ now \in 0..MaxTime
  /\ role \in [Role -> RoleRow \cup {NoRole}]
  /\ grant \in SUBSET (User \X Role)
  /\ key \in [Key -> KeyRow]
  /\ touching \in SUBSET (Key \X (0..MaxTime))
  /\ issued \in SUBSET Key
  /\ wrote \in Claim
  /\ req \in [Request -> RequestState]
  /\ permitted \in SUBSET Request

(* Every request past the guards was permitted at some instant while it    *)
(* was under way: its principal belonged to the tenant of the route and    *)
(* held the permission there.  A request that arrives after a key was      *)
(* revoked, or after its user lost the role, gets nothing done.            *)
ActsWithPermission ==
  \A r \in Request : req[r].pc \notin {"idle", "guard"} => r \in permitted

(* No chain of assignments gives a user a role of another tenant.          *)
GrantsStayInTenant ==
  \A x \in grant : role[x[2]].tenant = Home[x[1]]

(* Role creations that race leave a tenant one role of a name.             *)
OneRolePerName ==
  \A ro, so \in Role :
    role[ro] # NoRole /\ role[ro].tenant = role[so].tenant /\ role[ro].name = role[so].name
      => ro = so

(* A key that is revoked stays revoked, whatever updates of lastUsedAt are *)
(* still on their way, and no key changes its tenant, scopes or deadline.  *)
KeySettles(k) ==
  key[k] # NoKey =>
    /\ key[k].revoked => key'[k].revoked
    /\ key'[k].tenant = key[k].tenant /\ key'[k].scopes = key[k].scopes
    /\ key'[k].expiresAt = key[k].expiresAt
KeysSettle == [][\A k \in Key : KeySettles(k)]_vars

(* The abstract view.  A key is what its row says, but for when it was     *)
(* last used; a request is allowed once it is past the guards and done     *)
(* when only its answer is left.                                           *)
KeyView(k) == [tenant |-> k.tenant, scopes |-> k.scopes, expiresAt |-> k.expiresAt,
               revoked |-> k.revoked]
AskView(x) == [op |-> x.op, by |-> x.by, tenant |-> x.tenant, user |-> x.user, row |-> x.row,
               name |-> x.name, bundle |-> x.bundle, expiry |-> x.expiry]
StageView(pc) == CASE pc = "idle"   -> "idle"
                   [] pc = "guard"  -> "asking"
                   [] pc = "answer" -> "done"
                   [] OTHER         -> "allowed"

AuthorityKey   == [k \in Key |-> KeyView(key[k])]
AuthorityAsk   == [r \in Request |-> AskView(req[r])]
AuthorityStage == [r \in Request |-> StageView(req[r].pc)]

Authority == INSTANCE TenantAuthority
  WITH NoKey   <- KeyView(NoKey),
       Nothing <- AskView(Idle),
       key     <- AuthorityKey,
       ask     <- AuthorityAsk,
       stage   <- AuthorityStage

(* The handlers implement TenantAuthority: what a handler of several       *)
(* statements with nothing around them does, whatever comes between them   *)
(* and wherever it fails, is done at one instant by a request that its     *)
(* principal was permitted to make, in the tenant of the route alone, and  *)
(* the audit trail claims what was done and nothing else.                  *)
ImplementsTenantAuthority == Authority!Spec

-------------------------------------------------------------------------------
(* The inductive invariant.  Which statement a request is at says what it  *)
(* came with, and what its look-ups found still stands: no row of "roles"  *)
(* or "api_keys" ever changes its tenant.                                  *)

BodyOf(r) ==
  /\ req[r].pc = "idle" => req[r] = Idle
  /\ req[r].pc # "idle" =>
       req[r].op \in Op /\ req[r].by \in User \cup Key /\ req[r].tenant \in Tenant
  /\ req[r].op = "create_role" => req[r].name \in Name
  /\ req[r].op \in {"assign_role", "unassign_role"} => req[r].user \in User /\ req[r].row \in Role
  /\ req[r].op \in {"revoke_key", "get_key"} => req[r].row \in Key

StepOf(r) ==
  /\ req[r].pc \in {"find_name", "insert_role"} =>
       req[r].op = "create_role" /\ req[r].bundle \subseteq Catalog
  /\ req[r].pc = "find_user" => req[r].op = "assign_role"
  /\ req[r].pc \in {"find_role", "write_grant"} => req[r].op \in {"assign_role", "unassign_role"}
  /\ req[r].pc = "insert_key" => req[r].op = "create_key" /\ req[r].bundle \subseteq Catalog
  /\ req[r].pc \in {"find_key", "revoke_key"} => req[r].op = "revoke_key"
  /\ req[r].pc = "answer" /\ req[r].op = "create_key" => req[r].row \in Key

LocalsOf(r) ==
  /\ req[r].op = "assign_role" /\ req[r].pc \in {"find_role", "write_grant"} =>
       Home[req[r].user] = req[r].tenant
  /\ req[r].pc = "write_grant" => role[req[r].row].tenant = req[r].tenant
  /\ req[r].pc = "revoke_key" => key[req[r].row].tenant = req[r].tenant

SlotOK(r) == BodyOf(r) /\ StepOf(r) /\ LocalsOf(r)

IInv ==
  /\ TypeOK
  /\ GrantsStayInTenant /\ OneRolePerName /\ ActsWithPermission
  /\ \A r \in Request : SlotOK(r)
===============================================================================
