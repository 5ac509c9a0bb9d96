----------------------------- MODULE AccessProofs -----------------------------
(***************************************************************************)
(* For every value of the constants of Access: IInv is inductive, nothing  *)
(* is done by who was not permitted, no user gets a role of another        *)
(* tenant, role names stay unique, keys settle, and Access implements      *)
(* TenantAuthority under the mapping given in Access.                      *)
(***************************************************************************)
EXTENDS Access, TLAPS

(* What every step does beside its own business.                           *)
Aside == Remember /\ wrote' \in Claim

(* A step of request r that leaves it in state x: what is left to show is  *)
(* about the tables and about r.                                           *)
LEMMA MoveOn ==
  ASSUME IInv, Aside, NEW r \in Request, NEW x \in RequestState,
         req' = [req EXCEPT ![r] = x],
         now' \in 0..MaxTime,
         role' \in [Role -> RoleRow \cup {NoRole}], grant' \in SUBSET (User \X Role),
         key' \in [Key -> KeyRow], touching' \in SUBSET (Key \X (0..MaxTime)),
         issued' \in SUBSET Key,
         GrantsStayInTenant', OneRolePerName',
         \A ro \in Role : role[ro].tenant \in Tenant => role'[ro].tenant = role[ro].tenant,
         \A k \in Key : key[k].tenant \in Tenant => key'[k].tenant = key[k].tenant,
         SlotOK(r)',
         x.pc \notin {"idle", "guard"} => r \in permitted \/ Permitted(r)'
  PROVE  IInv'
<1>1. /\ req \in [Request -> RequestState] /\ req' \in [Request -> RequestState] /\ req'[r] = x
      /\ \A q \in Request : q # r => req'[q] = req[q]
  BY DEF IInv, TypeOK
<1>2. TypeOK'
  BY <1>1 DEF TypeOK, Aside, Remember
<1>3. ActsWithPermission'
  <2> SUFFICES ASSUME NEW q \in Request, req'[q].pc \notin {"idle", "guard"}
               PROVE  q \in permitted \/ Permitted(q)'
    BY DEF ActsWithPermission, Aside, Remember
  <2> QED
    BY <1>1 DEF IInv, ActsWithPermission
<1>4. \A q \in Request : SlotOK(q)'
  <2> SUFFICES ASSUME NEW q \in Request, q # r PROVE SlotOK(q)'
    OBVIOUS
  <2>1. SlotOK(q) /\ req'[q] = req[q] /\ req[q] \in RequestState
    BY <1>1 DEF IInv
  <2>2. BodyOf(q)' /\ StepOf(q)'
    BY <2>1 DEF SlotOK, BodyOf, StepOf
  <2>3. req[q].pc \in {"write_grant", "revoke_key"} => req[q].tenant \in Tenant
    BY <2>1 DEF SlotOK, BodyOf
  <2>4. req[q].pc = "write_grant" => req[q].row \in Role
    BY <2>1 DEF SlotOK, BodyOf, StepOf
  <2>5. req[q].pc = "revoke_key" => req[q].row \in Key
    BY <2>1 DEF SlotOK, BodyOf, StepOf
  <2>6. LocalsOf(q)'
    BY <2>1, <2>3, <2>4, <2>5 DEF SlotOK, LocalsOf
  <2> QED
    BY <2>2, <2>6 DEF SlotOK
<1> QED
  BY <1>2, <1>3, <1>4 DEF IInv

(* A free slot has nothing to say.                                         *)
LEMMA IdleOK ==
  /\ Idle \in RequestState /\ Idle.pc = "idle"
  /\ \A r \in Request : req[r] = Idle => SlotOK(r)
  /\ \A r \in Request : req'[r] = Idle => SlotOK(r)'
BY DEF Idle, RequestState, Pc, Moment, SlotOK, BodyOf, StepOf, LocalsOf

(* A request ends: whatever it did to the rows, which it keeps or leaves   *)
(* alone, is done.                                                         *)
LEMMA EndIInv ==
  ASSUME IInv, Aside, NEW r \in Request, End(r), UNCHANGED <<now, role, grant, key>>,
         touching' \in SUBSET (Key \X (0..MaxTime)), issued' \in SUBSET Key
  PROVE  IInv'
<1>1. Idle \in RequestState /\ Idle.pc = "idle" /\ req' = [req EXCEPT ![r] = Idle]
  BY IdleOK DEF End
<1>2. SlotOK(r)'
  BY <1>1, IdleOK DEF IInv, TypeOK
<1>3. TypeOK /\ GrantsStayInTenant' /\ OneRolePerName'
  BY DEF IInv, GrantsStayInTenant, OneRolePerName
<1> QED
  BY <1>1, <1>2, <1>3, MoveOn DEF TypeOK

(* A request goes on to statement pc.                                      *)
LEMMA GotoIInv ==
  ASSUME IInv, Aside, NEW r \in Request, NEW pc \in Pc, Goto(r, pc),
         UNCHANGED <<now, role, grant, key>>,
         touching' \in SUBSET (Key \X (0..MaxTime)), issued' \in SUBSET Key,
         req[r].pc # "idle", pc # "idle",
         pc # "guard" => r \in permitted \/ Permitted(r)',
         StepOf(r)', LocalsOf(r)'
  PROVE  IInv'
<1> DEFINE x == [req[r] EXCEPT !.pc = pc]
<1>1. TypeOK /\ SlotOK(r) /\ req[r] \in RequestState
  BY DEF IInv, TypeOK
<1>2. x \in RequestState /\ x.pc = pc /\ req' = [req EXCEPT ![r] = x] /\ req'[r] = x
  BY <1>1 DEF RequestState, Goto, TypeOK
<1>3. BodyOf(r)'
  BY <1>1, <1>2 DEF SlotOK, BodyOf, RequestState
<1>4. GrantsStayInTenant' /\ OneRolePerName' /\ SlotOK(r)'
  BY <1>3 DEF IInv, GrantsStayInTenant, OneRolePerName, SlotOK
<1> HIDE DEF x
<1> QED
  BY <1>1, <1>2, <1>4, MoveOn DEF TypeOK

(* The guards let a request go on to the first statement of its handler.   *)
LEMMA FirstStepOK ==
  ASSUME TypeOK, NEW r \in Request, SlotOK(r), req[r].pc = "guard", req[r].bundle \subseteq Catalog,
         Goto(r, FirstStep(req[r].op))
  PROVE  FirstStep(req[r].op) \in Pc \ {"idle", "guard"} /\ StepOf(r)' /\ LocalsOf(r)'
<1> DEFINE pc == FirstStep(req[r].op)
<1>1. req[r].op \in Op /\ req[r] \in RequestState
  BY DEF SlotOK, BodyOf, TypeOK
<1>2. /\ pc \in Pc \ {"idle", "guard", "write_grant", "revoke_key", "answer", "insert_role"}
      /\ pc = "find_name" => req[r].op = "create_role"
      /\ pc = "find_user" => req[r].op = "assign_role"
      /\ pc = "find_role" => req[r].op = "unassign_role"
      /\ pc = "insert_key" => req[r].op = "create_key"
      /\ pc = "find_key" => req[r].op = "revoke_key"
  BY <1>1 DEF FirstStep, Op, Pc
<1>3. /\ req'[r].pc = pc /\ req'[r].op = req[r].op /\ req'[r].bundle = req[r].bundle
      /\ req'[r].row = req[r].row
  BY <1>1 DEF Goto, TypeOK, RequestState
<1> HIDE DEF pc
<1> QED
  BY <1>2, <1>3 DEF StepOf, LocalsOf, pc

(* What a user was found to be permitted it is permitted by a role of its  *)
(* own tenant, since no other was ever assigned to it.                     *)
LEMMA GuardUserIInv ==
  ASSUME IInv, Aside, NEW r \in Request, GuardUser(r)
  PROVE  IInv'
<1>1. /\ req[r].pc = "guard" /\ req[r].by \in User
      /\ UNCHANGED <<now, role, grant, key, touching, issued>>
      /\ Proceed(r, Needed(req[r].op) \in PermissionsFor(req[r].by))
  BY DEF GuardUser, At
<1>2. TypeOK /\ SlotOK(r) /\ req[r] \in RequestState
  BY DEF IInv, TypeOK
<1>3. CASE End(r)
  BY <1>1, <1>2, <1>3, EndIInv DEF TypeOK
<1>4. CASE ~End(r)
  <2>1. /\ Needed(req[r].op) \in PermissionsFor(req[r].by) /\ InScope(req[r].by, req[r].tenant)
        /\ req[r].bundle \subseteq Catalog /\ Goto(r, FirstStep(req[r].op))
    BY <1>1, <1>4 DEF Proceed
  <2>2. Home[req[r].by] = req[r].tenant
    BY <1>1, <2>1 DEF InScope, TenantOf
  <2>3. PICK ro \in Role : <<req[r].by, ro>> \in grant /\ Needed(req[r].op) \in role[ro].permissions
    BY <2>1 DEF PermissionsFor
  <2>4. role[ro].tenant = req[r].tenant
    <3>1. role[<<req[r].by, ro>>[2]].tenant = Home[<<req[r].by, ro>>[1]]
      BY <2>3 DEF IInv, GrantsStayInTenant
    <3> QED
      BY <2>2, <3>1
  <2>5. /\ req'[r].by = req[r].by /\ req'[r].op = req[r].op /\ req'[r].tenant = req[r].tenant
    BY <1>2, <2>1 DEF Goto, TypeOK, RequestState
  <2>6. Permitted(r)'
    BY <1>1, <2>2, <2>3, <2>4, <2>5 DEF Permitted, Permits, Needed
  <2>7. FirstStep(req[r].op) \in Pc \ {"idle", "guard"} /\ StepOf(r)' /\ LocalsOf(r)'
    BY <1>1, <1>2, <2>1, FirstStepOK
  <2> QED
    BY <1>1, <1>2, <2>1, <2>6, <2>7, GotoIInv DEF TypeOK
<1> QED
  BY <1>3, <1>4

(* A key is looked up, its deadline and scopes compared, in one step.      *)
LEMMA GuardKeyIInv ==
  ASSUME IInv, Aside, NEW r \in Request, GuardKey(r)
  PROVE  IInv'
<1> DEFINE k == req[r].by
<1>1. TypeOK /\ SlotOK(r) /\ req[r] \in RequestState
  BY DEF IInv, TypeOK
<1>2. /\ req[r].pc = "guard" /\ k \in Key /\ UNCHANGED <<now, role, grant, key, issued>>
      /\ touching' \in SUBSET (Key \X (0..MaxTime))
  BY <1>1 DEF GuardKey, At, TypeOK
<1>3. CASE End(r)
  BY <1>1, <1>2, <1>3, EndIInv DEF TypeOK
<1>4. CASE ~End(r)
  <2>1. Valid(k) /\ Proceed(r, Needed(req[r].op) \in key[k].scopes)
    BY <1>4 DEF GuardKey
  <2>2. /\ Needed(req[r].op) \in key[k].scopes /\ InScope(k, req[r].tenant)
        /\ req[r].bundle \subseteq Catalog /\ Goto(r, FirstStep(req[r].op))
    BY <1>4, <2>1 DEF Proceed
  <2>3. key[k].tenant = req[r].tenant
    BY <1>2, <2>2, ApartAssumption DEF InScope, TenantOf
  <2>4. /\ req'[r].by = k /\ req'[r].op = req[r].op /\ req'[r].tenant = req[r].tenant
    BY <1>1, <2>2 DEF Goto, TypeOK, RequestState
  <2>5. key[k].expiresAt = None \/ now < key[k].expiresAt
    <3>1. key[k].expiresAt \in Nat \cup {None} /\ now \in Nat
      BY <1>1, <1>2, TimeAssumption DEF TypeOK, KeyRow, Moment
    <3> QED
      BY <2>1, <3>1 DEF Valid
  <2>6. Permitted(r)'
    BY <1>2, <2>1, <2>2, <2>3, <2>4, <2>5 DEF Permitted, Permits, Needed, Valid
  <2>7. FirstStep(req[r].op) \in Pc \ {"idle", "guard"} /\ StepOf(r)' /\ LocalsOf(r)'
    BY <1>1, <1>2, <2>2, FirstStepOK
  <2> QED
    BY <1>1, <1>2, <2>2, <2>6, <2>7, GotoIInv DEF TypeOK
<1> QED
  BY <1>3, <1>4

(* The clock and the late updates of lastUsedAt disturb no request.        *)
LEMMA QuietIInv ==
  ASSUME IInv, Aside, UNCHANGED <<role, grant, issued, req>>, now' \in 0..MaxTime,
         touching' \in SUBSET (Key \X (0..MaxTime)), key' \in [Key -> KeyRow],
         \A k \in Key : key'[k].tenant = key[k].tenant
  PROVE  IInv'
<1>1. TypeOK'
  BY DEF IInv, TypeOK, Aside, Remember
<1>2. GrantsStayInTenant' /\ OneRolePerName' /\ ActsWithPermission'
  BY DEF IInv, GrantsStayInTenant, OneRolePerName, ActsWithPermission, Aside, Remember
<1>3. \A r \in Request : SlotOK(r)'
  <2> SUFFICES ASSUME NEW r \in Request PROVE SlotOK(r)'
    OBVIOUS
  <2>1. SlotOK(r)
    BY DEF IInv
  <2>2. BodyOf(r)' /\ StepOf(r)'
    BY <2>1 DEF SlotOK, BodyOf, StepOf
  <2>3. req[r].pc = "revoke_key" => req[r].row \in Key
    BY <2>1 DEF SlotOK, BodyOf, StepOf
  <2>4. LocalsOf(r)'
    BY <2>1, <2>3 DEF SlotOK, LocalsOf
  <2> QED
    BY <2>2, <2>4 DEF SlotOK
<1> QED
  BY <1>1, <1>2, <1>3 DEF IInv

LEMMA TickIInv ==
  ASSUME IInv, Aside, Tick
  PROVE  IInv'
<1>1. TypeOK
  BY DEF IInv
<1>2. now' \in 0..MaxTime
  BY <1>1, TimeAssumption DEF Tick, TypeOK
<1> QED
  BY <1>1, <1>2, QuietIInv DEF Tick, TypeOK

LEMMA TouchIInv ==
  ASSUME IInv, Aside, NEW k, NEW at, Touch(k, at)
  PROVE  IInv'
<1>1. TypeOK
  BY DEF IInv
<1>2. k \in Key /\ at \in Moment
  BY <1>1 DEF Touch, TypeOK, Moment
<1>3. key' \in [Key -> KeyRow] /\ \A j \in Key : key'[j].tenant = key[j].tenant
  <2>1. CASE UNCHANGED key
    BY <1>1, <2>1 DEF TypeOK
  <2>2. CASE key' = [key EXCEPT ![k].lastUsedAt = at]
    BY <1>1, <1>2, <2>2 DEF TypeOK, KeyRow
  <2> QED
    BY <2>1, <2>2 DEF Touch
<1> QED
  BY <1>1, <1>3, QuietIInv DEF Touch, TypeOK

(* A request past its guards was permitted, and stays so.                  *)
LEMMA PastGuards ==
  ASSUME IInv, NEW r \in Request, req[r].pc \notin {"idle", "guard"}
  PROVE  TypeOK /\ SlotOK(r) /\ req[r] \in RequestState /\ r \in permitted
BY DEF IInv, TypeOK, ActsWithPermission

LEMMA CreateRoleFindIInv ==
  ASSUME IInv, Aside, NEW r \in Request, CreateRoleFind(r)
  PROVE  IInv'
<1>1. req[r].pc = "find_name" /\ UNCHANGED <<now, role, grant, key, touching, issued>>
  BY DEF CreateRoleFind, At
<1>2. TypeOK /\ SlotOK(r) /\ req[r] \in RequestState /\ r \in permitted
  BY <1>1, PastGuards
<1>3. CASE End(r)
  BY <1>1, <1>2, <1>3, EndIInv DEF TypeOK
<1>4. CASE Goto(r, "insert_role")
  <2>1. /\ req'[r].pc = "insert_role" /\ req'[r].op = req[r].op
        /\ req'[r].bundle = req[r].bundle
    BY <1>2, <1>4 DEF Goto, TypeOK, RequestState
  <2>2. StepOf(r)' /\ LocalsOf(r)'
    BY <1>1, <1>2, <2>1 DEF SlotOK, StepOf, LocalsOf
  <2>3. "insert_role" \in Pc
    BY DEF Pc
  <2> QED
    BY <1>1, <1>2, <1>4, <2>2, <2>3, GotoIInv DEF TypeOK
<1> QED
  BY <1>3, <1>4 DEF CreateRoleFind

(* The insert meets the unique key on (tenant, name) or takes a free id,   *)
(* which no assignment refers to.                                          *)
LEMMA CreateRoleInsertIInv ==
  ASSUME IInv, Aside, NEW r \in Request, CreateRoleInsert(r)
  PROVE  IInv'
<1>1. req[r].pc = "insert_role" /\ UNCHANGED <<now, grant, key, touching, issued>>
  BY DEF CreateRoleInsert, At
<1>2. TypeOK /\ SlotOK(r) /\ req[r] \in RequestState /\ r \in permitted
  BY <1>1, PastGuards
<1>3. CASE End(r) /\ UNCHANGED role
  BY <1>1, <1>2, <1>3, EndIInv DEF TypeOK
<1>4. ASSUME NEW ro \in Role, role[ro] = NoRole, Named(req[r].tenant, req[r].name) = {},
             role' = [role EXCEPT ![ro] = [tenant |-> req[r].tenant, name |-> req[r].name,
                                           permissions |-> req[r].bundle]],
             req' = [req EXCEPT ![r].row = ro, ![r].pc = "answer"]
      PROVE  IInv'
  <2> DEFINE row == [tenant |-> req[r].tenant, name |-> req[r].name, permissions |-> req[r].bundle]
             x == [req[r] EXCEPT !.row = ro, !.pc = "answer"]
  <2>1. /\ req[r].op = "create_role" /\ req[r].bundle \subseteq Catalog
        /\ req[r].tenant \in Tenant /\ req[r].name \in Name
    BY <1>1, <1>2 DEF SlotOK, BodyOf, StepOf
  <2>2. row \in RoleRow /\ row.tenant = req[r].tenant /\ row.name = req[r].name
    BY <2>1 DEF RoleRow
  <2>3. /\ role' \in [Role -> RoleRow \cup {NoRole}] /\ role'[ro] = row
        /\ \A so \in Role : so # ro => role'[so] = role[so]
    BY <1>2, <1>4, <2>2 DEF TypeOK
  <2>4. x \in RequestState /\ req' = [req EXCEPT ![r] = x] /\ x.pc = "answer" /\ req'[r] = x
    BY <1>2, <1>4 DEF RequestState, Pc, TypeOK
  <2>5. SlotOK(r)'
    BY <1>1, <1>2, <2>1, <2>4 DEF SlotOK, BodyOf, StepOf, LocalsOf, RequestState
  <2> HIDE DEF row, x
  <2>6. role[ro].tenant = None
    BY <1>4 DEF NoRole
  <2>7. GrantsStayInTenant'
    <3> SUFFICES ASSUME NEW y \in grant PROVE role'[y[2]].tenant = Home[y[1]]
      BY <1>1 DEF GrantsStayInTenant
    <3>1. y[1] \in User /\ y[2] \in Role /\ role[y[2]].tenant = Home[y[1]]
      BY <1>2 DEF TypeOK, IInv, GrantsStayInTenant
    <3>2. Home[y[1]] # None
      BY <3>1, HomeAssumption, NullAssumption
    <3> QED
      BY <2>3, <2>6, <3>1, <3>2
  <2>8. OneRolePerName'
    <3>1. \A so \in Role : ~(role[so].tenant = row.tenant /\ role[so].name = row.name)
      BY <1>4, <2>2 DEF Named
    <3>2. row # NoRole
      BY <2>1, <2>2, NullAssumption DEF NoRole
    <3> QED
      BY <2>3, <3>1 DEF IInv, OneRolePerName
  <2>9. \A so \in Role : role[so].tenant \in Tenant => role'[so].tenant = role[so].tenant
    BY <2>3, <2>6, NullAssumption
  <2> QED
    BY <1>1, <1>2, <2>3, <2>4, <2>5, <2>7, <2>8, <2>9, MoveOn DEF TypeOK
<1> QED
  BY <1>3, <1>4 DEF CreateRoleInsert, StoreRole

LEMMA AssignFindUserIInv ==
  ASSUME IInv, Aside, NEW r \in Request, AssignFindUser(r)
  PROVE  IInv'
<1>1. req[r].pc = "find_user" /\ UNCHANGED <<now, role, grant, key, touching, issued>>
  BY DEF AssignFindUser, At
<1>2. TypeOK /\ SlotOK(r) /\ req[r] \in RequestState /\ r \in permitted
  BY <1>1, PastGuards
<1>3. CASE End(r)
  BY <1>1, <1>2, <1>3, EndIInv DEF TypeOK
<1>4. CASE Home[req[r].user] = req[r].tenant /\ Goto(r, "find_role")
  <2>1. /\ req'[r].pc = "find_role" /\ req'[r].op = req[r].op
        /\ req'[r].user = req[r].user /\ req'[r].tenant = req[r].tenant
    BY <1>2, <1>4 DEF Goto, TypeOK, RequestState
  <2>2. StepOf(r)' /\ LocalsOf(r)'
    BY <1>1, <1>2, <1>4, <2>1 DEF SlotOK, StepOf, LocalsOf
  <2>3. "find_role" \in Pc
    BY DEF Pc
  <2> QED
    BY <1>1, <1>2, <1>4, <2>2, <2>3, GotoIInv DEF TypeOK
<1> QED
  BY <1>3, <1>4 DEF AssignFindUser

LEMMA FindRoleIInv ==
  ASSUME IInv, Aside, NEW r \in Request, FindRole(r)
  PROVE  IInv'
<1>1. req[r].pc = "find_role" /\ UNCHANGED <<now, role, grant, key, touching, issued>>
  BY DEF FindRole, At
<1>2. TypeOK /\ SlotOK(r) /\ req[r] \in RequestState /\ r \in permitted
  BY <1>1, PastGuards
<1>3. CASE End(r)
  BY <1>1, <1>2, <1>3, EndIInv DEF TypeOK
<1>4. CASE role[req[r].row].tenant = req[r].tenant /\ Goto(r, "write_grant")
  <2>1. /\ req'[r].pc = "write_grant" /\ req'[r].op = req[r].op /\ req'[r].row = req[r].row
        /\ req'[r].user = req[r].user /\ req'[r].tenant = req[r].tenant
    BY <1>2, <1>4 DEF Goto, TypeOK, RequestState
  <2>2. StepOf(r)' /\ LocalsOf(r)'
    BY <1>1, <1>2, <1>4, <2>1 DEF SlotOK, StepOf, LocalsOf
  <2>3. "write_grant" \in Pc
    BY DEF Pc
  <2> QED
    BY <1>1, <1>2, <1>4, <2>2, <2>3, GotoIInv DEF TypeOK
<1> QED
  BY <1>3, <1>4 DEF FindRole

(* An assignment is written for a user and a role that were each found in  *)
(* the tenant of the route; neither has moved since.                       *)
LEMMA WriteGrantIInv ==
  ASSUME IInv, Aside, NEW r \in Request, WriteGrant(r)
  PROVE  IInv'
<1> DEFINE x == [req[r] EXCEPT !.pc = "answer"]
           new == <<req[r].user, req[r].row>>
<1>1. req[r].pc = "write_grant" /\ UNCHANGED <<now, role, key, touching, issued>>
  BY DEF WriteGrant, At
<1>2. TypeOK /\ SlotOK(r) /\ req[r] \in RequestState /\ r \in permitted
  BY <1>1, PastGuards
<1>3. /\ req[r].op \in {"assign_role", "unassign_role"} /\ req[r].user \in User
      /\ req[r].row \in Role /\ role[req[r].row].tenant = req[r].tenant
      /\ req[r].op = "assign_role" => Home[req[r].user] = req[r].tenant
  BY <1>1, <1>2 DEF SlotOK, BodyOf, StepOf, LocalsOf
<1>4. x \in RequestState /\ req' = [req EXCEPT ![r] = x] /\ x.pc = "answer" /\ req'[r] = x
  BY <1>2 DEF WriteGrant, Goto, RequestState, Pc, TypeOK
<1>5. SlotOK(r)'
  BY <1>1, <1>2, <1>3, <1>4 DEF SlotOK, BodyOf, StepOf, LocalsOf, RequestState
<1>6. /\ grant' \subseteq grant \cup {new}
      /\ req[r].op # "assign_role" => grant' \subseteq grant
  BY DEF WriteGrant
<1>7. grant' \in SUBSET (User \X Role)
  BY <1>2, <1>3, <1>6 DEF TypeOK
<1>8. GrantsStayInTenant'
  <2> SUFFICES ASSUME NEW y \in grant' PROVE role[y[2]].tenant = Home[y[1]]
    BY <1>1 DEF GrantsStayInTenant
  <2>1. CASE y \in grant
    BY <2>1 DEF IInv, GrantsStayInTenant
  <2>2. CASE y = new /\ req[r].op = "assign_role"
    BY <1>3, <2>2
  <2> QED
    BY <1>6, <2>1, <2>2
<1>9. OneRolePerName'
  BY <1>1 DEF IInv, OneRolePerName
<1> HIDE DEF x, new
<1> QED
  BY <1>1, <1>2, <1>4, <1>5, <1>7, <1>8, <1>9, MoveOn DEF TypeOK

(* A key is minted under a free id, for the tenant of the route.           *)
LEMMA CreateKeyIInv ==
  ASSUME IInv, Aside, NEW r \in Request, CreateKey(r)
  PROVE  IInv'
<1>1. req[r].pc = "insert_key" /\ UNCHANGED <<now, role, grant, touching, issued>>
  BY DEF CreateKey, At
<1>2. TypeOK /\ SlotOK(r) /\ req[r] \in RequestState /\ r \in permitted
  BY <1>1, PastGuards
<1>3. PICK k \in Key :
        /\ key[k] = NoKey
        /\ key' = [key EXCEPT ![k] = [NoKey EXCEPT !.tenant = req[r].tenant, !.scopes = req[r].bundle,
                                                   !.expiresAt = req[r].expiry]]
        /\ req' = [req EXCEPT ![r].row = k, ![r].pc = "answer"]
  BY DEF CreateKey
<1> DEFINE row == [NoKey EXCEPT !.tenant = req[r].tenant, !.scopes = req[r].bundle,
                                !.expiresAt = req[r].expiry]
           x == [req[r] EXCEPT !.row = k, !.pc = "answer"]
<1>4. req[r].op = "create_key" /\ req[r].bundle \subseteq Catalog /\ req[r].tenant \in Tenant
  BY <1>1, <1>2 DEF SlotOK, BodyOf, StepOf
<1>5. row \in KeyRow
  BY <1>2, <1>4 DEF KeyRow, NoKey, Moment, RequestState
<1>6. key' \in [Key -> KeyRow] /\ \A j \in Key : j # k => key'[j] = key[j]
  BY <1>2, <1>3, <1>5 DEF TypeOK
<1>7. x \in RequestState /\ req' = [req EXCEPT ![r] = x] /\ x.pc = "answer" /\ req'[r] = x
  BY <1>2, <1>3 DEF RequestState, Pc, TypeOK
<1>8. SlotOK(r)'
  BY <1>1, <1>2, <1>4, <1>7 DEF SlotOK, BodyOf, StepOf, LocalsOf, RequestState
<1>9. GrantsStayInTenant' /\ OneRolePerName'
  BY <1>1 DEF IInv, GrantsStayInTenant, OneRolePerName
<1>10. \A j \in Key : key[j].tenant \in Tenant => key'[j].tenant = key[j].tenant
  BY <1>3, <1>6, NullAssumption DEF NoKey
<1> HIDE DEF row, x
<1> QED
  BY <1>1, <1>2, <1>6, <1>7, <1>8, <1>9, <1>10, MoveOn DEF TypeOK

LEMMA RevokeKeyFindIInv ==
  ASSUME IInv, Aside, NEW r \in Request, RevokeKeyFind(r)
  PROVE  IInv'
<1>1. req[r].pc = "find_key" /\ UNCHANGED <<now, role, grant, key, touching, issued>>
  BY DEF RevokeKeyFind, At
<1>2. TypeOK /\ SlotOK(r) /\ req[r] \in RequestState /\ r \in permitted
  BY <1>1, PastGuards
<1>3. CASE End(r)
  BY <1>1, <1>2, <1>3, EndIInv DEF TypeOK
<1>4. CASE key[req[r].row].tenant = req[r].tenant /\ Goto(r, "revoke_key")
  <2>1. /\ req'[r].pc = "revoke_key" /\ req'[r].op = req[r].op /\ req'[r].row = req[r].row
        /\ req'[r].tenant = req[r].tenant
    BY <1>2, <1>4 DEF Goto, TypeOK, RequestState
  <2>2. StepOf(r)' /\ LocalsOf(r)'
    BY <1>1, <1>2, <1>4, <2>1 DEF SlotOK, StepOf, LocalsOf
  <2>3. "revoke_key" \in Pc
    BY DEF Pc
  <2> QED
    BY <1>1, <1>2, <1>4, <2>2, <2>3, GotoIInv DEF TypeOK
<1> QED
  BY <1>3, <1>4 DEF RevokeKeyFind

LEMMA RevokeKeyIInv ==
  ASSUME IInv, Aside, NEW r \in Request, RevokeKey(r)
  PROVE  IInv'
<1> DEFINE x == [req[r] EXCEPT !.pc = "answer"]
<1>1. req[r].pc = "revoke_key" /\ UNCHANGED <<now, role, grant, touching, issued>>
  BY DEF RevokeKey, At
<1>2. TypeOK /\ SlotOK(r) /\ req[r] \in RequestState /\ r \in permitted
  BY <1>1, PastGuards
<1>3. key' \in [Key -> KeyRow] /\ \A k \in Key : key'[k].tenant = key[k].tenant
  BY <1>2 DEF RevokeKey, TypeOK, KeyRow
<1>4. x \in RequestState /\ req' = [req EXCEPT ![r] = x] /\ x.pc = "answer" /\ req'[r] = x
  BY <1>2 DEF RevokeKey, Goto, RequestState, Pc, TypeOK
<1>5. SlotOK(r)'
  BY <1>1, <1>2, <1>4 DEF SlotOK, BodyOf, StepOf, LocalsOf, RequestState
<1>6. GrantsStayInTenant' /\ OneRolePerName'
  BY <1>1 DEF IInv, GrantsStayInTenant, OneRolePerName
<1> HIDE DEF x
<1> QED
  BY <1>1, <1>2, <1>3, <1>4, <1>5, <1>6, MoveOn DEF TypeOK

LEMMA AnswerIInv ==
  ASSUME IInv, Aside, NEW r \in Request, Answer(r)
  PROVE  IInv'
<1>1. req[r].pc = "answer" /\ UNCHANGED <<now, role, grant, key, touching>> /\ End(r)
  BY DEF Answer, At
<1>2. TypeOK /\ SlotOK(r)
  BY <1>1, PastGuards
<1>3. issued' \in SUBSET Key
  BY <1>1, <1>2 DEF Answer, TypeOK, SlotOK, StepOf
<1> QED
  BY <1>1, <1>2, <1>3, EndIInv DEF TypeOK

LEMMA EndsIInv ==
  ASSUME IInv, Aside, NEW r \in Request, Serve(r) \/ Fail(r)
  PROVE  IInv'
BY EndIInv DEF Serve, Fail, IInv, TypeOK

(* What the route schemas let through.                                     *)
Sound(b) ==
  /\ b \in RequestState /\ b.op \in Op
  /\ b.op = "create_role" => b.name \in Name
  /\ b.op \in {"assign_role", "unassign_role"} => b.user \in User /\ b.row \in Role
  /\ b.op \in {"revoke_key", "get_key"} => b.row \in Key

LEMMA CallIInv ==
  ASSUME IInv, Aside, NEW r \in Request, NEW b, Sound(b), Call(r, b)
  PROVE  IInv'
<1>1. TypeOK
  BY DEF IInv
<1>2. PICK p \in User \cup issued, g \in Tenant :
        req' = [req EXCEPT ![r] = [b EXCEPT !.pc = "guard", !.by = p, !.tenant = g]]
  BY DEF Call
<1> DEFINE x == [b EXCEPT !.pc = "guard", !.by = p, !.tenant = g]
<1>3. p \in User \cup Key
  BY <1>1, <1>2 DEF TypeOK
<1>4. /\ x \in RequestState /\ x.pc = "guard" /\ x.op = b.op /\ x.by = p /\ x.tenant = g
      /\ x.name = b.name /\ x.user = b.user /\ x.row = b.row
  <2>1. b \in RequestState /\ "guard" \in Pc
    BY DEF Pc, Sound
  <2> QED
    BY <1>3, <2>1 DEF RequestState
<1> HIDE DEF x
<1>5. req' = [req EXCEPT ![r] = x] /\ req'[r] = x
  BY <1>1, <1>2 DEF TypeOK, x
<1>6. SlotOK(r)'
  BY <1>1, <1>3, <1>4, <1>5 DEF SlotOK, BodyOf, StepOf, LocalsOf, Sound
<1>7. UNCHANGED <<now, role, grant, key, touching, issued>>
  BY DEF Call
<1>8. GrantsStayInTenant' /\ OneRolePerName'
  BY <1>7 DEF IInv, GrantsStayInTenant, OneRolePerName
<1> QED
  BY <1>1, <1>4, <1>5, <1>6, <1>7, <1>8, MoveOn DEF TypeOK

LEMMA ArriveIInv ==
  ASSUME IInv, Aside, NEW r \in Request, Arrive(r)
  PROVE  IInv'
<1>1. ASSUME NEW n \in Name, NEW c \in Bundle,
            Call(r, [Idle EXCEPT !.op = "create_role", !.name = n, !.bundle = c])
     PROVE  IInv'
  <2>1. Sound([Idle EXCEPT !.op = "create_role", !.name = n, !.bundle = c])
    BY <1>1 DEF Idle, RequestState, Pc, Moment, Op, Sound
  <2> QED
    BY <1>1, <2>1, CallIInv
<1>2. ASSUME NEW op \in {"assign_role", "unassign_role"}, NEW u \in User, NEW ro \in Role,
            Call(r, [Idle EXCEPT !.op = op, !.user = u, !.row = ro])
     PROVE  IInv'
  <2>1. Sound([Idle EXCEPT !.op = op, !.user = u, !.row = ro])
    BY <1>2 DEF Idle, RequestState, Pc, Moment, Op, Sound
  <2> QED
    BY <1>2, <2>1, CallIInv
<1>3. ASSUME NEW c \in Bundle, NEW d \in Moment,
            Call(r, [Idle EXCEPT !.op = "create_key", !.bundle = c, !.expiry = d])
     PROVE  IInv'
  <2>1. Sound([Idle EXCEPT !.op = "create_key", !.bundle = c, !.expiry = d])
    BY <1>3 DEF Idle, RequestState, Pc, Moment, Op, Sound
  <2> QED
    BY <1>3, <2>1, CallIInv
<1>4. ASSUME NEW op \in {"revoke_key", "get_key"}, NEW k \in Key,
            Call(r, [Idle EXCEPT !.op = op, !.row = k])
     PROVE  IInv'
  <2>1. Sound([Idle EXCEPT !.op = op, !.row = k])
    BY <1>4 DEF Idle, RequestState, Pc, Moment, Op, Sound
  <2> QED
    BY <1>4, <2>1, CallIInv
<1>5. ASSUME Call(r, [Idle EXCEPT !.op = "list_roles"])
     PROVE  IInv'
  <2>1. Sound([Idle EXCEPT !.op = "list_roles"])
    BY <1>5 DEF Idle, RequestState, Pc, Moment, Op, Sound
  <2> QED
    BY <1>5, <2>1, CallIInv
<1> QED
  BY <1>1, <1>2, <1>3, <1>4, <1>5 DEF Arrive

(* The audit row of a request that is done.                                *)
LEMMA ClaimTyped ==
  ASSUME IInv, NEW r \in Request, req[r].pc # "idle"
  PROVE  ClaimOf(req[r]) \in Claim
<1>1. SlotOK(r) /\ req[r] \in RequestState
  BY DEF IInv, TypeOK
<1> QED
  BY <1>1 DEF SlotOK, BodyOf, RequestState, ClaimOf, Claim

LEMMA StepIInv ==
  ASSUME IInv, Next
  PROVE  IInv'
<1>1. NoClaim \in Claim /\ Remember
  BY DEF Claim, Next
<1>2. ASSUME NEW r \in Request, Answer(r) PROVE IInv'
  <2>1. wrote' \in Claim
    BY <1>1, <1>2, ClaimTyped DEF Answer, At
  <2> QED
    BY <1>1, <1>2, <2>1, AnswerIInv DEF Aside
<1>3. CASE wrote' = NoClaim
  <2>1. Aside
    BY <1>1, <1>3 DEF Aside
  <2>2. CASE Tick
    BY <2>1, <2>2, TickIInv
  <2>3. ASSUME NEW x \in touching, Touch(x[1], x[2]) PROVE IInv'
    BY <2>1, <2>3, TouchIInv
  <2>4. ASSUME NEW r \in Request, Step(r) \/ Fail(r) \/ Arrive(r) PROVE IInv'
    BY <2>1, <2>4, GuardUserIInv, GuardKeyIInv, CreateRoleFindIInv, CreateRoleInsertIInv,
       AssignFindUserIInv, FindRoleIInv, WriteGrantIInv, CreateKeyIInv, RevokeKeyFindIInv,
       RevokeKeyIInv, EndsIInv, ArriveIInv DEF Step
  <2> QED
    BY <1>2, <2>2, <2>3, <2>4 DEF Next
<1> QED
  BY <1>2, <1>3 DEF Next

LEMMA InitIInv == Init => IInv
<1> SUFFICES ASSUME Init PROVE IInv
  OBVIOUS
<1>1. TypeOK
  <2>1. now \in 0..MaxTime /\ key \in [Key -> KeyRow]
    BY TimeAssumption DEF Init, KeyRow, NoKey, Moment
  <2>2. req \in [Request -> RequestState]
    BY IdleOK DEF Init
  <2> QED
    BY <2>1, <2>2, SeedAssumption DEF Init, TypeOK, Claim
<1>2. GrantsStayInTenant /\ OneRolePerName
  <2>1. \A ro \in Role : role[ro].tenant \in Tenant => role[ro] # NoRole
    BY NullAssumption DEF NoRole
  <2>2. \A ro \in Role : role[ro] # NoRole => role[ro].tenant \in Tenant
    BY <1>1 DEF TypeOK, RoleRow
  <2> QED
    BY <2>1, <2>2, SeedAssumption DEF Init, GrantsStayInTenant, OneRolePerName
<1>3. ActsWithPermission /\ \A r \in Request : SlotOK(r)
  BY IdleOK DEF Init, ActsWithPermission
<1> QED
  BY <1>1, <1>2, <1>3 DEF IInv

-------------------------------------------------------------------------------

(* The invariant holds in every reachable state.                           *)
THEOREM Invariance == Spec => []IInv
<1>1. IInv /\ UNCHANGED vars => IInv'
  BY DEF IInv, TypeOK, RequestState, Pc, GrantsStayInTenant, OneRolePerName, ActsWithPermission,
         SlotOK, BodyOf, StepOf, LocalsOf, vars
<1>2. IInv /\ [Next]_vars => IInv'
  BY <1>1, StepIInv
<1> QED
  BY <1>2, InitIInv, PTL DEF Spec

(* Tables, request slots and histories always have their types.            *)
THEOREM TypeCorrect == Spec => []TypeOK
<1>1. IInv => TypeOK
  BY DEF IInv
<1> QED
  BY <1>1, Invariance, PTL

(* Whoever gets past the guards of a route was permitted, in the tenant of *)
(* the route, at some instant of the request.                              *)
THEOREM PermittedOnly == Spec => []ActsWithPermission
<1>1. IInv => ActsWithPermission
  BY DEF IInv
<1> QED
  BY <1>1, Invariance, PTL

(* No sequence of assignments gives a user a role of another tenant.       *)
THEOREM TenantsApart == Spec => []GrantsStayInTenant
<1>1. IInv => GrantsStayInTenant
  BY DEF IInv
<1> QED
  BY <1>1, Invariance, PTL

(* Racing creations leave a tenant one role of a name.                     *)
THEOREM NamesUnique == Spec => []OneRolePerName
<1>1. IInv => OneRolePerName
  BY DEF IInv
<1> QED
  BY <1>1, Invariance, PTL

(* No step revives a revoked key or changes what a key may do and for how  *)
(* long, late updates of lastUsedAt included.                              *)
THEOREM KeysAreSettled == Spec => KeysSettle
<1>1. IInv /\ [Next]_vars => [\A k \in Key : KeySettles(k)]_vars
  <2> SUFFICES ASSUME IInv, Next, NEW k \in Key, key[k] # NoKey, key' # key PROVE KeySettles(k)
    BY DEF vars, KeySettles
  <2>1. TypeOK
    BY DEF IInv
  <2>2. ASSUME NEW r \in Request, CreateKey(r) PROVE KeySettles(k)
    BY <2>1, <2>2 DEF CreateKey, KeySettles, TypeOK
  <2>3. ASSUME NEW r \in Request, RevokeKey(r) PROVE KeySettles(k)
    BY <2>1, <2>3 DEF RevokeKey, KeySettles, TypeOK, KeyRow
  <2>4. ASSUME NEW j, NEW at, Touch(j, at) PROVE KeySettles(k)
    BY <2>1, <2>4 DEF Touch, KeySettles, TypeOK, KeyRow
  <2> QED
    BY <2>2, <2>3, <2>4 DEF Next, Tick, Step, Fail, Arrive, Call, GuardUser, GuardKey, CreateRoleFind,
       CreateRoleInsert, StoreRole, AssignFindUser, FindRole, WriteGrant, RevokeKeyFind, Serve, Answer
<1> QED
  BY <1>1, Invariance, PTL DEF Spec, KeysSettle

-------------------------------------------------------------------------------
(* The refinement.  How the abstract view follows one slot: to any state,  *)
(* to another statement of its handler, to its end.                        *)
LEMMA SlotMoves ==
  ASSUME TypeOK, NEW r \in Request, NEW x \in RequestState, req' = [req EXCEPT ![r] = x]
  PROVE  /\ AuthorityAsk' = [AuthorityAsk EXCEPT ![r] = AskView(x)]
         /\ AuthorityStage' = [AuthorityStage EXCEPT ![r] = StageView(x.pc)]
BY DEF TypeOK, AuthorityAsk, AuthorityStage

LEMMA GotoMoves ==
  ASSUME TypeOK, NEW r \in Request, NEW pc \in Pc, Goto(r, pc)
  PROVE  /\ AuthorityAsk' = AuthorityAsk
         /\ AuthorityStage' = [AuthorityStage EXCEPT ![r] = StageView(pc)]
<1> DEFINE x == [req[r] EXCEPT !.pc = pc]
<1>1. req[r] \in RequestState
  BY DEF TypeOK
<1>2. x \in RequestState /\ x.pc = pc /\ AskView(x) = AskView(req[r]) /\ req' = [req EXCEPT ![r] = x]
  BY <1>1 DEF RequestState, Goto, AskView
<1> HIDE DEF x
<1>3. /\ AuthorityAsk' = [AuthorityAsk EXCEPT ![r] = AskView(x)]
      /\ AuthorityStage' = [AuthorityStage EXCEPT ![r] = StageView(x.pc)]
  BY <1>2, SlotMoves
<1> QED
  BY <1>2, <1>3 DEF AuthorityAsk

LEMMA EndView ==
  ASSUME TypeOK, NEW r \in Request, End(r), UNCHANGED <<now, role, grant, key>>, req[r].pc # "idle"
  PROVE  /\ Authority!Ends(r)
         /\ AuthorityStage[r] = "done" <=> req[r].pc = "answer"
<1>1. Idle \in RequestState /\ Idle.pc = "idle" /\ req' = [req EXCEPT ![r] = Idle]
  BY IdleOK DEF End
<1>2. /\ AuthorityAsk' = [AuthorityAsk EXCEPT ![r] = AskView(Idle)]
      /\ AuthorityStage' = [AuthorityStage EXCEPT ![r] = "idle"]
  BY <1>1, SlotMoves DEF StageView
<1>3. AuthorityStage[r] # "idle" /\ (AuthorityStage[r] = "done" <=> req[r].pc = "answer")
  BY DEF AuthorityStage, StageView
<1> QED
  BY <1>2, <1>3 DEF Authority!Ends, Authority!tables, AuthorityKey

LEMMA EndMoves ==
  ASSUME TypeOK, NEW r \in Request, End(r), UNCHANGED <<now, role, grant, key, issued>>,
         req[r].pc # "idle", req[r].pc = "answer" => MayFail
  PROVE  Authority!Stop(r)
BY EndView DEF Authority!Stop

(* A statement that only reads is not seen.                                *)
LEMMA UnseenStatement ==
  ASSUME TypeOK, NEW r \in Request, NEW pc \in Pc, Goto(r, pc), UNCHANGED <<now, role, grant, key, issued>>,
         StageView(req[r].pc) = StageView(pc)
  PROVE  UNCHANGED Authority!unsaid
<1>1. AuthorityAsk' = AuthorityAsk /\ AuthorityStage' = AuthorityStage
  BY GotoMoves DEF AuthorityStage
<1> QED
  BY <1>1 DEF Authority!unsaid, Authority!tables, AuthorityKey

(* The guards of a request that they let through map to Allow, at the      *)
(* instant when the roles of the user or the row of the key are read.      *)
LEMMA GuardAllows ==
  ASSUME IInv, NEW r \in Request, req[r].pc = "guard", req[r].bundle \subseteq Catalog,
         Goto(r, FirstStep(req[r].op)), UNCHANGED <<now, role, grant, key, issued>>,
         Authority!Holds(req[r].by, req[r].op, req[r].tenant)
  PROVE  Authority!Allow(r)
<1> DEFINE pc == FirstStep(req[r].op)
<1>1. TypeOK /\ SlotOK(r)
  BY DEF IInv
<1>2. pc \in Pc \ {"idle", "guard", "answer"}
  BY <1>1 DEF FirstStep, SlotOK, BodyOf, Op, Pc
<1>3. StageView(pc) = "allowed"
  BY <1>2 DEF StageView
<1>4. AuthorityAsk' = AuthorityAsk /\ AuthorityStage' = [AuthorityStage EXCEPT ![r] = "allowed"]
  BY <1>1, <1>2, <1>3, GotoMoves
<1>5. /\ AuthorityStage[r] = "asking" /\ AuthorityAsk[r].by = req[r].by
      /\ AuthorityAsk[r].op = req[r].op /\ AuthorityAsk[r].tenant = req[r].tenant
  BY DEF AuthorityStage, AuthorityAsk, StageView, AskView
<1> QED
  BY <1>4, <1>5 DEF Authority!Allow, Authority!Moves, Authority!tables, AuthorityKey

LEMMA GuardUserAuthority ==
  ASSUME IInv, NEW r \in Request, GuardUser(r)
  PROVE  Authority!Allow(r) \/ Authority!Stop(r)
<1>1. /\ req[r].pc = "guard" /\ req[r].by \in User /\ UNCHANGED <<now, role, grant, key, issued>>
      /\ Proceed(r, Needed(req[r].op) \in PermissionsFor(req[r].by)) /\ TypeOK
  BY DEF GuardUser, At, IInv
<1>2. CASE End(r)
  BY <1>1, <1>2, EndMoves
<1>3. CASE ~End(r)
  <2>1. /\ Needed(req[r].op) \in PermissionsFor(req[r].by) /\ InScope(req[r].by, req[r].tenant)
        /\ req[r].bundle \subseteq Catalog /\ Goto(r, FirstStep(req[r].op))
    BY <1>1, <1>3 DEF Proceed
  <2>2. Home[req[r].by] = req[r].tenant
    BY <1>1, <2>1 DEF InScope, TenantOf
  <2>3. PICK ro \in Role : <<req[r].by, ro>> \in grant /\ Needed(req[r].op) \in role[ro].permissions
    BY <2>1 DEF PermissionsFor
  <2>4. role[<<req[r].by, ro>>[2]].tenant = Home[<<req[r].by, ro>>[1]]
    BY <2>3 DEF IInv, GrantsStayInTenant
  <2>5. Authority!Holds(req[r].by, req[r].op, req[r].tenant)
    BY <1>1, <2>2, <2>3, <2>4 DEF Authority!Holds
  <2> QED
    BY <1>1, <2>1, <2>5, GuardAllows
<1> QED
  BY <1>2, <1>3

LEMMA GuardKeyAuthority ==
  ASSUME IInv, NEW r \in Request, GuardKey(r)
  PROVE  Authority!Allow(r) \/ Authority!Stop(r)
<1> DEFINE k == req[r].by
<1>1. /\ req[r].pc = "guard" /\ k \in Key /\ UNCHANGED <<now, role, grant, key, issued>> /\ TypeOK
  BY DEF GuardKey, At, IInv
<1>2. CASE End(r)
  BY <1>1, <1>2, EndMoves
<1>3. CASE ~End(r)
  <2>1. Valid(k) /\ Proceed(r, Needed(req[r].op) \in key[k].scopes)
    BY <1>3 DEF GuardKey
  <2>2. /\ Needed(req[r].op) \in key[k].scopes /\ InScope(k, req[r].tenant)
        /\ req[r].bundle \subseteq Catalog /\ Goto(r, FirstStep(req[r].op))
    BY <1>3, <2>1 DEF Proceed
  <2>3. key[k].tenant = req[r].tenant
    BY <1>1, <2>2, ApartAssumption DEF InScope, TenantOf
  <2>4. key[k].expiresAt # None => now < key[k].expiresAt
    <3>1. key[k].expiresAt \in Nat \cup {None} /\ now \in Nat
      BY <1>1, TimeAssumption DEF TypeOK, KeyRow, Moment
    <3> QED
      BY <2>1, <3>1 DEF Valid
  <2>5. AuthorityKey[k] = KeyView(key[k])
    BY <1>1 DEF AuthorityKey
  <2>6. Authority!Holds(k, req[r].op, req[r].tenant)
    BY <1>1, <2>1, <2>2, <2>3, <2>4, <2>5 DEF Authority!Holds, KeyView, Valid
  <2> QED
    BY <1>1, <2>2, <2>6, GuardAllows
<1> QED
  BY <1>2, <1>3

(* Each write maps to the effect of its request, which is done: what the   *)
(* look-ups found on the way still stands.                                 *)
LEMMA CreateRoleInsertAuthority ==
  ASSUME IInv, NEW r \in Request, CreateRoleInsert(r)
  PROVE  Authority!Act(r) \/ Authority!Stop(r)
<1>1. /\ TypeOK /\ SlotOK(r) /\ req[r] \in RequestState /\ req[r].pc = "insert_role"
      /\ UNCHANGED <<now, grant, key, issued>>
  BY DEF CreateRoleInsert, At, IInv, TypeOK
<1>2. CASE End(r) /\ UNCHANGED role
  BY <1>1, <1>2, EndMoves
<1>3. CASE ~(End(r) /\ UNCHANGED role)
  <2>1. PICK ro \in Role :
          /\ role[ro] = NoRole
          /\ role' = [role EXCEPT ![ro] = [tenant |-> req[r].tenant, name |-> req[r].name,
                                          permissions |-> req[r].bundle]]
          /\ req' = [req EXCEPT ![r].row = ro, ![r].pc = "answer"]
    BY <1>3 DEF CreateRoleInsert, StoreRole
  <2>2. Named(req[r].tenant, req[r].name) = {}
    BY <1>3 DEF CreateRoleInsert
  <2> DEFINE x == [req[r] EXCEPT !.row = ro, !.pc = "answer"]
  <2>3. /\ x \in RequestState /\ x.pc = "answer" /\ AskView(x) = [AskView(req[r]) EXCEPT !.row = ro]
        /\ req' = [req EXCEPT ![r] = x]
    BY <1>1, <2>1 DEF RequestState, Pc, TypeOK, AskView
  <2>4. /\ AuthorityAsk' = [AuthorityAsk EXCEPT ![r] = AskView(x)]
        /\ AuthorityStage' = [AuthorityStage EXCEPT ![r] = "done"]
    BY <1>1, <2>3, SlotMoves DEF StageView
  <2>5. AuthorityStage[r] = "allowed" /\ AuthorityAsk[r] = AskView(req[r])
    BY <1>1 DEF StageView, AuthorityStage, AuthorityAsk
  <2>6. AuthorityAsk' = [AuthorityAsk EXCEPT ![r].row = ro]
    BY <2>3, <2>4, <2>5 DEF AuthorityAsk
  <2>7. req[r].op = "create_role" /\ req[r].bundle \subseteq Catalog
    BY <1>1 DEF SlotOK, StepOf
  <2>8. /\ AuthorityAsk[r].op = "create_role" /\ AuthorityAsk[r].tenant = req[r].tenant
        /\ AuthorityAsk[r].name = req[r].name /\ AuthorityAsk[r].bundle = req[r].bundle
    BY <2>5, <2>7 DEF AskView
  <2>9. \A so \in Role : role[so].tenant = req[r].tenant => role[so].name # req[r].name
    BY <2>2 DEF Named
  <2>10. Authority!MakeRole(r)
    BY <1>1, <2>1, <2>6, <2>7, <2>8, <2>9 DEF Authority!MakeRole, AuthorityKey
  <2> QED
    BY <1>1, <2>4, <2>5, <2>10 DEF Authority!Act, Authority!Moves
<1> QED
  BY <1>2, <1>3

LEMMA WriteGrantAuthority ==
  ASSUME IInv, NEW r \in Request, WriteGrant(r)
  PROVE  Authority!Act(r)
<1>1. /\ TypeOK /\ SlotOK(r) /\ req[r].pc = "write_grant" /\ UNCHANGED <<now, role, key, issued>>
      /\ Goto(r, "answer") /\ "answer" \in Pc
  BY DEF WriteGrant, At, IInv, Pc
<1>2. /\ AuthorityAsk' = AuthorityAsk /\ AuthorityStage' = [AuthorityStage EXCEPT ![r] = "done"]
      /\ AuthorityStage[r] = "allowed" /\ AuthorityAsk[r] = AskView(req[r])
  BY <1>1, GotoMoves DEF StageView, AuthorityStage, AuthorityAsk
<1>3. role[req[r].row].tenant = req[r].tenant
  BY <1>1 DEF SlotOK, LocalsOf
<1>4. CASE req[r].op = "assign_role"
  <2>1. Home[req[r].user] = req[r].tenant /\ grant' = grant \cup {<<req[r].user, req[r].row>>}
    BY <1>1, <1>4 DEF SlotOK, LocalsOf, WriteGrant
  <2>2. Authority!Assign(r)
    BY <1>1, <1>2, <1>3, <1>4, <2>1 DEF Authority!Assign, AskView, AuthorityKey
  <2> QED
    BY <1>1, <1>2, <2>2 DEF Authority!Act, Authority!Moves
<1>5. CASE req[r].op = "unassign_role"
  <2>1. grant' = grant \ {<<req[r].user, req[r].row>>}
    BY <1>5 DEF WriteGrant
  <2>2. Authority!Unassign(r)
    BY <1>1, <1>2, <1>3, <1>5, <2>1 DEF Authority!Unassign, AskView, AuthorityKey
  <2> QED
    BY <1>1, <1>2, <2>2 DEF Authority!Act, Authority!Moves
<1> QED
  BY <1>1, <1>4, <1>5 DEF SlotOK, StepOf

LEMMA CreateKeyAuthority ==
  ASSUME IInv, NEW r \in Request, CreateKey(r)
  PROVE  Authority!Act(r)
<1>1. /\ TypeOK /\ SlotOK(r) /\ req[r] \in RequestState /\ req[r].pc = "insert_key"
      /\ UNCHANGED <<now, role, grant, issued>>
  BY DEF CreateKey, At, IInv, TypeOK
<1>2. PICK k \in Key :
        /\ key[k] = NoKey
        /\ key' = [key EXCEPT ![k] = [NoKey EXCEPT !.tenant = req[r].tenant, !.scopes = req[r].bundle,
                                                  !.expiresAt = req[r].expiry]]
        /\ req' = [req EXCEPT ![r].row = k, ![r].pc = "answer"]
  BY DEF CreateKey
<1> DEFINE x == [req[r] EXCEPT !.row = k, !.pc = "answer"]
<1>3. /\ x \in RequestState /\ x.pc = "answer" /\ AskView(x) = [AskView(req[r]) EXCEPT !.row = k]
      /\ req' = [req EXCEPT ![r] = x]
  BY <1>1, <1>2 DEF RequestState, Pc, TypeOK, AskView
<1>4. /\ AuthorityAsk' = [AuthorityAsk EXCEPT ![r] = AskView(x)]
      /\ AuthorityStage' = [AuthorityStage EXCEPT ![r] = "done"]
  BY <1>1, <1>3, SlotMoves DEF StageView
<1>5. AuthorityStage[r] = "allowed" /\ AuthorityAsk[r] = AskView(req[r])
  BY <1>1 DEF StageView, AuthorityStage, AuthorityAsk
<1>6. AuthorityAsk' = [AuthorityAsk EXCEPT ![r].row = k]
  BY <1>3, <1>4, <1>5 DEF AuthorityAsk
<1>7. /\ AuthorityKey[k] = KeyView(NoKey)
      /\ AuthorityKey' = [AuthorityKey EXCEPT ![k] =
           [tenant |-> req[r].tenant, scopes |-> req[r].bundle, expiresAt |-> req[r].expiry,
            revoked |-> FALSE]]
  BY <1>1, <1>2 DEF AuthorityKey, KeyView, NoKey, TypeOK
<1>8. req[r].op = "create_key" /\ req[r].bundle \subseteq Catalog
  BY <1>1 DEF SlotOK, StepOf
<1>9. /\ AuthorityAsk[r].op = "create_key" /\ AuthorityAsk[r].tenant = req[r].tenant
      /\ AuthorityAsk[r].bundle = req[r].bundle /\ AuthorityAsk[r].expiry = req[r].expiry
  BY <1>5, <1>8 DEF AskView
<1>10. Authority!MakeKey(r)
  BY <1>1, <1>6, <1>7, <1>8, <1>9 DEF Authority!MakeKey
<1> QED
  BY <1>1, <1>4, <1>5, <1>10 DEF Authority!Act, Authority!Moves

LEMMA RevokeKeyAuthority ==
  ASSUME IInv, NEW r \in Request, RevokeKey(r)
  PROVE  Authority!Act(r)
<1>1. /\ TypeOK /\ SlotOK(r) /\ req[r].pc = "revoke_key" /\ UNCHANGED <<now, role, grant, issued>>
      /\ Goto(r, "answer") /\ "answer" \in Pc
      /\ key' = [key EXCEPT ![req[r].row].revoked = TRUE]
  BY DEF RevokeKey, At, IInv, Pc
<1>2. /\ AuthorityAsk' = AuthorityAsk /\ AuthorityStage' = [AuthorityStage EXCEPT ![r] = "done"]
      /\ AuthorityStage[r] = "allowed" /\ AuthorityAsk[r] = AskView(req[r])
  BY <1>1, GotoMoves DEF StageView, AuthorityStage, AuthorityAsk
<1>3. /\ req[r].op = "revoke_key" /\ req[r].row \in Key
      /\ key[req[r].row].tenant = req[r].tenant
  BY <1>1 DEF SlotOK, BodyOf, StepOf, LocalsOf
<1>4. /\ AuthorityKey[req[r].row].tenant = req[r].tenant
      /\ AuthorityKey' = [AuthorityKey EXCEPT ![req[r].row].revoked = TRUE]
  BY <1>1, <1>3 DEF AuthorityKey, KeyView, TypeOK, KeyRow
<1>5. Authority!RevokeKey(r)
  BY <1>1, <1>2, <1>3, <1>4 DEF Authority!RevokeKey, AskView
<1> QED
  BY <1>1, <1>2, <1>5 DEF Authority!Act, Authority!Moves

(* The audit row claims what the request has done.                         *)
LEMMA AnswerAuthority ==
  ASSUME IInv, NEW r \in Request, Answer(r)
  PROVE  Authority!Answer(r)
<1>1. /\ TypeOK /\ req[r].pc = "answer" /\ End(r) /\ UNCHANGED <<now, role, grant, key>>
  BY DEF Answer, At, IInv
<1>2. Authority!Ends(r) /\ AuthorityStage[r] = "done"
  BY <1>1, EndView
<1>3. AuthorityAsk[r] = AskView(req[r])
  BY DEF AuthorityAsk
<1>4. AuthorityAsk[r].op = req[r].op /\ AuthorityAsk[r].row = req[r].row
  BY <1>3 DEF AskView
<1>5. Authority!Claimed(r) = ClaimOf(req[r])
  BY <1>3 DEF AskView, ClaimOf, Authority!Claimed
<1> QED
  BY <1>2, <1>4, <1>5 DEF Answer, Authority!Answer

(* Every other step of a handler maps to an abstract step or is not seen.  *)
LEMMA StepAuthority ==
  ASSUME IInv, NEW r \in Request, Step(r)
  PROVE  Authority!Allow(r) \/ Authority!Act(r) \/ Authority!Stop(r) \/ UNCHANGED Authority!unsaid
<1>1. TypeOK /\ SlotOK(r)
  BY DEF IInv
<1>2. ASSUME CreateRoleFind(r) \/ AssignFindUser(r) \/ FindRole(r) \/ RevokeKeyFind(r)
      PROVE  Authority!Stop(r) \/ UNCHANGED Authority!unsaid
  <2>1. /\ UNCHANGED <<now, role, grant, key, issued>> /\ req[r].pc \notin {"idle", "answer"}
        /\ StageView(req[r].pc) = "allowed"
    BY <1>2 DEF CreateRoleFind, AssignFindUser, FindRole, RevokeKeyFind, At, StageView
  <2>2. CASE End(r)
    BY <1>1, <2>1, <2>2, EndMoves
  <2>3. ASSUME NEW pc \in {"insert_role", "find_role", "write_grant", "revoke_key"}, Goto(r, pc)
        PROVE  UNCHANGED Authority!unsaid
    <3>1. pc \in Pc /\ StageView(pc) = "allowed"
      BY DEF Pc, StageView
    <3> QED
      BY <1>1, <2>1, <2>3, <3>1, UnseenStatement
  <2> QED
    BY <1>2, <2>2, <2>3 DEF CreateRoleFind, AssignFindUser, FindRole, RevokeKeyFind
<1>3. CASE Serve(r)
  BY <1>1, <1>3, EndMoves DEF Serve, At
<1> QED
  BY <1>2, <1>3, GuardUserAuthority, GuardKeyAuthority, CreateRoleInsertAuthority,
     WriteGrantAuthority, CreateKeyAuthority, RevokeKeyAuthority DEF Step

(* An arrival maps to Ask.                                                 *)
LEMMA CallAuthority ==
  ASSUME IInv, NEW r \in Request, NEW b, Sound(b), Call(r, b)
  PROVE  Authority!Ask(r)
<1>1. TypeOK /\ req[r].pc = "idle" /\ UNCHANGED <<now, role, grant, key, issued>>
  BY DEF IInv, Call, At
<1>2. PICK p \in User \cup issued, g \in Tenant :
        req' = [req EXCEPT ![r] = [b EXCEPT !.pc = "guard", !.by = p, !.tenant = g]]
  BY DEF Call
<1> DEFINE x == [b EXCEPT !.pc = "guard", !.by = p, !.tenant = g]
<1>3. x \in RequestState /\ x.pc = "guard" /\ x.by = p /\ req' = [req EXCEPT ![r] = x]
  <2>1. b \in RequestState /\ "guard" \in Pc /\ p \in User \cup Key
    BY <1>1 DEF Pc, Sound, TypeOK
  <2> QED
    BY <1>2, <2>1 DEF RequestState
<1> HIDE DEF x
<1>4. /\ AuthorityAsk' = [AuthorityAsk EXCEPT ![r] = AskView(x)]
      /\ AuthorityStage' = [AuthorityStage EXCEPT ![r] = "asking"]
      /\ AuthorityStage[r] = "idle"
  BY <1>1, <1>3, SlotMoves DEF StageView, AuthorityStage
<1>5. AuthorityAsk'[r] = AskView(x) /\ AskView(x).by = p
  BY <1>3, <1>4 DEF AuthorityAsk, AskView
<1> QED
  BY <1>1, <1>2, <1>4, <1>5 DEF Authority!Ask, Authority!Moves, Authority!tables, AuthorityKey

LEMMA ArriveAuthority ==
  ASSUME IInv, NEW r \in Request, Arrive(r)
  PROVE  Authority!Ask(r)
<1>1. \A n \in Name, c \in Bundle : Sound([Idle EXCEPT !.op = "create_role", !.name = n, !.bundle = c])
  BY DEF Idle, RequestState, Pc, Moment, Op, Sound
<1>2. ASSUME NEW op \in {"assign_role", "unassign_role"}, NEW u \in User, NEW ro \in Role
      PROVE  Sound([Idle EXCEPT !.op = op, !.user = u, !.row = ro])
  BY DEF Idle, RequestState, Pc, Moment, Op, Sound
<1>3. \A c \in Bundle, d \in Moment :
        Sound([Idle EXCEPT !.op = "create_key", !.bundle = c, !.expiry = d])
  BY DEF Idle, RequestState, Pc, Moment, Op, Sound
<1>4. \A op \in {"revoke_key", "get_key"}, k \in Key : Sound([Idle EXCEPT !.op = op, !.row = k])
  BY DEF Idle, RequestState, Pc, Moment, Op, Sound
<1>5. Sound([Idle EXCEPT !.op = "list_roles"])
  BY DEF Idle, RequestState, Pc, Moment, Op, Sound
<1> QED
  BY <1>1, <1>2, <1>3, <1>4, <1>5, CallAuthority DEF Arrive

(* Every step maps to an abstract step or a stutter: a late update of      *)
(* lastUsedAt is not seen.                                                 *)
LEMMA NextAuthority == IInv /\ [Next]_vars => [Authority!Next]_(Authority!vars)
<1> SUFFICES ASSUME IInv, [Next]_vars PROVE [Authority!Next]_(Authority!vars)
  OBVIOUS
<1>1. TypeOK
  BY DEF IInv
<1>2. CASE UNCHANGED vars
  BY <1>2 DEF vars, Authority!vars, Authority!unsaid, Authority!tables, AuthorityKey, AuthorityAsk,
     AuthorityStage
<1>3. ASSUME NEW r \in Request, Answer(r) PROVE Authority!Next
  BY <1>3, AnswerAuthority DEF Authority!Next
<1>4. ASSUME Tick PROVE Authority!Tick
  BY <1>4 DEF Tick, Authority!Tick, Authority!tables, AuthorityKey, AuthorityAsk, AuthorityStage
<1>5. ASSUME NEW x \in touching, Touch(x[1], x[2]) PROVE UNCHANGED Authority!unsaid
  <2>1. \A k \in Key : KeyView(key'[k]) = KeyView(key[k])
    BY <1>1, <1>5 DEF Touch, KeyView, TypeOK, KeyRow
  <2>2. UNCHANGED <<now, role, grant, issued, req>>
    BY <1>5 DEF Touch
  <2> QED
    BY <2>1, <2>2 DEF Authority!unsaid, Authority!tables, AuthorityKey, AuthorityAsk, AuthorityStage
<1>6. ASSUME NEW r \in Request, Fail(r) PROVE Authority!Stop(r)
  BY <1>1, <1>6, EndMoves DEF Fail, At, OutOfRows
<1>7. ASSUME NEW r \in Request, wrote' = NoClaim, Step(r) \/ Fail(r) \/ Arrive(r)
      PROVE  Authority!Next
  <2>1. \/ Authority!Ask(r) \/ Authority!Allow(r) \/ Authority!Act(r) \/ Authority!Stop(r)
        \/ UNCHANGED Authority!unsaid
    BY <1>6, <1>7, StepAuthority, ArriveAuthority
  <2> QED
    BY <1>7, <2>1 DEF Authority!Next
<1> QED
  BY <1>2, <1>3, <1>4, <1>5, <1>7 DEF Next, Authority!Next

(* The guards and handlers, interleaved in any way and failing at any      *)
(* await, implement the abstract authority of tenants.                     *)
THEOREM Implements == Spec => ImplementsTenantAuthority
<1>1. Init => Authority!Init
  <2>1. StageView(Idle.pc) = "idle"
    BY DEF StageView, Idle
  <2> QED
    BY <2>1 DEF Init, Authority!Init, AuthorityKey, AuthorityAsk, AuthorityStage
<1> QED
  BY <1>1, NextAuthority, Invariance, PTL DEF Spec, Authority!Spec, ImplementsTenantAuthority
===============================================================================
