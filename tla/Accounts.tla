------------------------------- MODULE Accounts -------------------------------
(***************************************************************************)
(* Tenants, users and password credentials: registration, and the first    *)
(* half of login, up to the moment the password has been verified (the     *)
(* second half, which opens a session, is in Sessions).                    *)
(*                                                                         *)
(* Registration and login read the tenant, the user and the credential in  *)
(* separate statements, so requests interleave between them.  A step is    *)
(* one statement and the code up to the next await; hashing and verifying  *)
(* a password touch no shared state and belong to the step before them.    *)
(***************************************************************************)
EXTENDS Naturals, FiniteSets

CONSTANTS
  Request,     \* request slots
  Tenant,      \* tenant slugs that callers name, existing or not
  User,        \* ids of rows of "users"
  Spelling,    \* e-mail addresses as callers type them; the schema of the
               \* route lets only well-formed ones through to Email.create
  Address,     \* normalised addresses
  Normalized,  \* Email.create on a well-formed address: trimmed, lowercased
  Password,
  None,
  MayFail,     \* may database calls and the process fail?
  MayLose      \* may the audit sink fail, and swallow its error?

ASSUME NullAssumption == None \notin Tenant \cup User \cup Spelling \cup Address \cup Password
ASSUME EmailAssumption == Normalized \in [Spelling -> Address]
ASSUME FailAssumption == MayFail \in BOOLEAN /\ MayLose \in BOOLEAN

VARIABLES
  tenant,     \* tenants.status by slug
  user,       \* the table "users"
  secret,     \* the table "credentials": the password whose hash is stored
  audit,      \* what "audit_logs" claims
  req,        \* the local state of the request in each slot
  confirmed,  \* history: the registrations answered 201
  refused     \* history: the logins refused, with the code of the reply

vars == <<tenant, user, secret, audit, req, confirmed, refused>>
tables  == <<tenant, user, secret>>
history == <<confirmed, refused>>

Inactive == {"DISABLED", "LOCKED"}
NoRow == [status |-> "absent", tenant |-> None, address |-> None]

(* A free slot.  found: the row found or created; reason: why a login is   *)
(* refused.  barred, entitled: history, on arrival, was the tenant or the  *)
(* user inactive, had this very registration been confirmed?               *)
Idle == [op |-> "none", pc |-> "idle", tenant |-> None, email |-> None,
         password |-> None, found |-> None, reason |-> "none",
         barred |-> FALSE, entitled |-> FALSE]

(* Tenants are created by the operator's seed, in either state.            *)
Init ==
  /\ tenant \in [Tenant -> {"absent", "ACTIVE", "SUSPENDED"}]
  /\ user = [u \in User |-> NoRow]
  /\ secret = [u \in User |-> None]
  /\ audit = {}
  /\ req = [r \in Request |-> Idle]
  /\ confirmed = {} /\ refused = {}

-------------------------------------------------------------------------------
At(r, op, pc) == req[r].op = op /\ req[r].pc = pc
Goto(r, pc)   == req' = [req EXCEPT ![r].pc = pc]

Reply(r, code) ==
  /\ req' = [req EXCEPT ![r] = Idle]
  /\ refused' = IF req[r].op = "login" /\ code # "ACCEPTED"
                THEN refused \cup {<<req[r].tenant, req[r].email, code>>} ELSE refused

Record(row) ==
  \/ audit' = audit \cup {row}
  \/ MayLose /\ UNCHANGED audit

(* findUnique on the key (tenantId, emailNormalized): at most one row.     *)
Found(g, a) ==
  {u \in User : user[u].status # "absent" /\ user[u].tenant = g /\ user[u].address = a}

(* What both operations find wrong with the tenant before they look for    *)
(* the user.                                                               *)
Objection(g) ==
  CASE tenant[g] = "absent"    -> "TENANT_NOT_FOUND"
    [] tenant[g] = "SUSPENDED" -> "TENANT_SUSPENDED"
    [] OTHER                   -> "none"

(* Slip: of the inactive states one is forgotten.                          *)
BarredIfDisabled(u) == user[u].status = "DISABLED"

Barred(u) == user[u].status \in Inactive

-------------------------------------------------------------------------------
(* Registration.                                                           *)

RegisterBegin(r, g, e, p) ==
  /\ req[r].pc = "idle"
  /\ req' = [req EXCEPT ![r] = [Idle EXCEPT !.op = "register", !.pc = "find_tenant",
                                            !.tenant = g, !.email = e, !.password = p]]
  /\ UNCHANGED <<tables, audit, history>>

RegisterTenant(r) ==
  LET objection == Objection(req[r].tenant) IN
  /\ At(r, "register", "find_tenant")
  /\ \/ objection # "none" /\ Reply(r, objection)
     \/ objection = "none" /\ Goto(r, "find_user") /\ UNCHANGED refused
  /\ UNCHANGED <<tables, audit, confirmed>>

RegisterFind(r) ==
  LET taken == Found(req[r].tenant, Normalized[req[r].email]) # {} IN
  /\ At(r, "register", "find_user")
  /\ \/ taken /\ Reply(r, "USER_ALREADY_EXISTS")
     \/ ~taken /\ Goto(r, "create_user") /\ UNCHANGED refused
  /\ UNCHANGED <<tables, audit, confirmed>>

(* Slips: the unique key is missing from the schema; or the row of whoever *)
(* came first is taken for the new one.                                    *)
CreateUnchecked(r) ==
  /\ At(r, "register", "create_user")
  /\ \E u \in User :
       /\ user[u].status = "absent"
       /\ user' = [user EXCEPT ![u] = [status |-> "ACTIVE", tenant |-> req[r].tenant,
                                       address |-> Normalized[req[r].email]]]
       /\ req' = [req EXCEPT ![r].found = u, ![r].pc = "upsert"]
  /\ UNCHANGED <<tenant, secret, audit, history>>
CreateOrAdopt(r) ==
  LET taken == Found(req[r].tenant, Normalized[req[r].email]) IN
  \/ taken = {} /\ CreateUnchecked(r)
  \/ /\ At(r, "register", "create_user")
     /\ \E u \in taken : req' = [req EXCEPT ![r].found = u, ![r].pc = "upsert"]
     /\ UNCHANGED <<tables, audit, history>>

(* The insert fails on the unique key when another registration came       *)
(* first, and the error handler answers what it does not know with a 500.  *)
RegisterCreate(r) ==
  /\ At(r, "register", "create_user")
  /\ IF Found(req[r].tenant, Normalized[req[r].email]) # {}
     THEN Reply(r, "INTERNAL_SERVER_ERROR") /\ UNCHANGED user
     ELSE \E u \in User :
            /\ user[u].status = "absent"
            /\ user' = [user EXCEPT ![u] = [status |-> "ACTIVE", tenant |-> req[r].tenant,
                                            address |-> Normalized[req[r].email]]]
            /\ req' = [req EXCEPT ![r].found = u, ![r].pc = "upsert"]
            /\ UNCHANGED refused
  /\ UNCHANGED <<tenant, secret, audit, confirmed>>

RegisterCredential(r) ==
  /\ At(r, "register", "upsert")
  /\ secret' = [secret EXCEPT ![req[r].found] = req[r].password]
  /\ Goto(r, "answer")
  /\ UNCHANGED <<tenant, user, audit, history>>

RegisterAnswer(r) ==
  /\ At(r, "register", "answer")
  /\ Record([action |-> "USER_REGISTERED", tenant |-> req[r].tenant, user |-> req[r].found,
             email |-> req[r].email])
  /\ confirmed' = confirmed \cup
       {<<req[r].tenant, Normalized[req[r].email], req[r].password>>}
  /\ Reply(r, "CREATED")
  /\ UNCHANGED tables

-------------------------------------------------------------------------------
(* Login, up to the decision.                                              *)

LoginBegin(r, g, e, p) ==
  LET barred == \/ tenant[g] = "SUSPENDED"
                \/ \E u \in Found(g, Normalized[e]) : user[u].status \in Inactive IN
  /\ req[r].pc = "idle"
  /\ req' = [req EXCEPT ![r] =
       [Idle EXCEPT !.op = "login", !.pc = "find_tenant", !.tenant = g, !.email = e,
                    !.password = p, !.barred = barred,
                    !.entitled = <<g, Normalized[e], p>> \in confirmed]]
  /\ UNCHANGED <<tables, audit, history>>

LoginTenant(r) ==
  LET objection == Objection(req[r].tenant) IN
  /\ At(r, "login", "find_tenant")
  /\ \/ objection # "none" /\ Reply(r, objection)
     \/ objection = "none" /\ Goto(r, "find_user") /\ UNCHANGED refused
  /\ UNCHANGED <<tables, audit, confirmed>>

Doubt(r, u, reason) == req' = [req EXCEPT ![r].found = u, ![r].pc = "refuse", ![r].reason = reason]

LoginFind(r) ==
  LET found == Found(req[r].tenant, Normalized[req[r].email]) IN
  /\ At(r, "login", "find_user")
  /\ \/ found = {} /\ Doubt(r, None, "user_not_found")
     \/ \E u \in found : Barred(u) /\ Doubt(r, u, "user_disabled")
     \/ \E u \in found : /\ ~Barred(u)
                        /\ req' = [req EXCEPT ![r].found = u, ![r].pc = "find_credential"]
  /\ UNCHANGED <<tables, audit, history>>

(* Slip: a user without a credential is not told from one with it.         *)
LoginUnchecked(r) ==
  /\ At(r, "login", "find_credential")
  /\ \/ secret[req[r].found] \notin {None, req[r].password} /\ Doubt(r, req[r].found, "bad_password")
     \/ secret[req[r].found] \in {None, req[r].password} /\ Goto(r, "accepted")
  /\ UNCHANGED <<tables, audit, history>>

LoginCredential(r) ==
  LET stored == secret[req[r].found] IN
  /\ At(r, "login", "find_credential")
  /\ \/ stored = None /\ Doubt(r, req[r].found, "no_password_credential")
     \/ stored \notin {None, req[r].password} /\ Doubt(r, req[r].found, "bad_password")
     \/ stored = req[r].password /\ Goto(r, "accepted")
  /\ UNCHANGED <<tables, audit, history>>

(* Slip: the refusal is not recorded.                                      *)
RefuseSilently(r) ==
  /\ At(r, "login", "refuse")
  /\ Reply(r, "INVALID_CREDENTIALS")
  /\ UNCHANGED <<tables, audit, confirmed>>

LoginRefuse(r) ==
  /\ At(r, "login", "refuse")
  /\ Record([action |-> "USER_LOGIN_FAILED", tenant |-> req[r].tenant,
             user |-> req[r].found, email |-> req[r].email])
  /\ Reply(r, IF req[r].reason = "user_disabled" THEN "USER_DISABLED" ELSE "INVALID_CREDENTIALS")
  /\ UNCHANGED <<tables, confirmed>>

(* The password is right: the login goes on in Sessions, under the user    *)
(* and the tenant found here.                                              *)
LoginAccept(r) ==
  /\ At(r, "login", "accepted")
  /\ Reply(r, "ACCEPTED")
  /\ UNCHANGED <<tables, audit, confirmed>>

-------------------------------------------------------------------------------
(* An operator suspends a tenant, disables or locks a user.  No code of    *)
(* the repository does; the code only reads these states.                  *)
Suspend(g) ==
  /\ tenant[g] = "ACTIVE"
  /\ tenant' = [tenant EXCEPT ![g] = "SUSPENDED"]
  /\ UNCHANGED <<user, secret, audit, req, history>>

Disable(u, status) ==
  /\ user[u].status = "ACTIVE"
  /\ user' = [user EXCEPT ![u].status = status]
  /\ UNCHANGED <<tenant, secret, audit, req, history>>

(* A database call rejects or the process dies; without MayFail, only the  *)
(* bound on the table "users" stops a request.                             *)
Fail(r) ==
  /\ req[r].pc # "idle"
  /\ MayFail \/ (req[r].pc = "create_user" /\ \A u \in User : user[u].status # "absent")
  /\ req' = [req EXCEPT ![r] = Idle]
  /\ UNCHANGED <<tables, audit, history>>

Arrive(r) ==
  \E g \in Tenant, e \in Spelling, p \in Password : RegisterBegin(r, g, e, p) \/ LoginBegin(r, g, e, p)

Step(r) ==
  \/ RegisterTenant(r) \/ RegisterFind(r) \/ RegisterCreate(r)
  \/ RegisterCredential(r) \/ RegisterAnswer(r)
  \/ LoginTenant(r) \/ LoginFind(r) \/ LoginCredential(r)
  \/ LoginRefuse(r) \/ LoginAccept(r)

Operator ==
  \/ \E g \in Tenant : Suspend(g)
  \/ \E u \in User, status \in Inactive : Disable(u, status)

Next == Operator \/ \E r \in Request : Arrive(r) \/ Step(r) \/ Fail(r)

Spec == Init /\ [][Next]_vars

-------------------------------------------------------------------------------
(* The tables, the request slots and the histories have their types.       *)
UserRow == [status : {"ACTIVE"} \cup Inactive, tenant : Tenant, address : Address] \cup {NoRow}
AuditRow == [action : {"USER_REGISTERED", "USER_LOGIN_FAILED"}, tenant : Tenant,
             user : User \cup {None}, email : Spelling]
Pc == {"idle", "find_tenant", "find_user", "create_user", "upsert", "answer",
       "find_credential", "refuse", "accepted"}
Doubts == {"user_not_found", "user_disabled", "no_password_credential", "bad_password"}
RequestState ==
  [op : {"none", "register", "login"}, pc : Pc, tenant : Tenant \cup {None},
   email : Spelling \cup {None}, password : Password \cup {None}, found : User \cup {None},
   reason : Doubts \cup {"none"}, barred : BOOLEAN, entitled : BOOLEAN]
Refusal == {"TENANT_NOT_FOUND", "TENANT_SUSPENDED", "USER_DISABLED", "INVALID_CREDENTIALS"}

TypeOK ==
  /\ tenant \in [Tenant -> {"absent", "ACTIVE", "SUSPENDED"}]
  /\ user \in [User -> UserRow]
  /\ secret \in [User -> Password \cup {None}]
  /\ audit \in SUBSET AuditRow
  /\ req \in [Request -> RequestState]
  /\ confirmed \in SUBSET (Tenant \X Address \X Password)
  /\ refused \in SUBSET (Tenant \X Spelling \X Refusal)

(* Registrations that race, however they spell the address, leave a tenant *)
(* one user per address.                                                   *)
OneUserPerAddress ==
  \A u, v \in User :
    /\ user[u].status # "absent" /\ user[v].status # "absent"
    /\ user[u].tenant = user[v].tenant /\ user[u].address = user[v].address
    => u = v

(* Who was told 201 can log in: a login that arrives after a registration  *)
(* with the same address and password was confirmed is never taken for a   *)
(* failed one, whatever registrations race it.                             *)
RegisteredCanLogin ==
  \A r \in Request : req[r].entitled =>
    req[r].reason \notin {"user_not_found", "no_password_credential", "bad_password"}

(* A login is accepted only as a user of the tenant it names, with the     *)
(* address it gives and the password that this user registered with.       *)
LoginIsAuthentic ==
  \A r \in Request : req[r].pc = "accepted" =>
    LET u == req[r].found IN
    /\ user[u].tenant = req[r].tenant
    /\ user[u].address = Normalized[req[r].email]
    /\ secret[u] = req[r].password

(* A login that arrives after its tenant was suspended or its user         *)
(* disabled or locked is not accepted.                                     *)
NoBarredLogin == \A r \in Request : req[r].barred => req[r].pc # "accepted"

(* A login refused for the user or the password is in the audit trail      *)
(* before the reply is sent, whatever else fails or dies, unless the sink  *)
(* itself loses the row.                                                   *)
Audited(x) ==
  \E a \in audit : a.action = "USER_LOGIN_FAILED" /\ a.tenant = x[1] /\ a.email = x[2]
RefusalsAreAudited ==
  \A x \in refused : x[3] \in {"INVALID_CREDENTIALS", "USER_DISABLED"} => Audited(x)

(* "Either all side effects commit or none do": once no request is under   *)
(* way, a user has the credential that was registered with it.             *)
RegistrationIsAtomic ==
  (\A r \in Request : req[r].pc = "idle") =>
    \A u \in User : user[u].status # "absent" => secret[u] # None

(* The abstract view.  An account is the row of its address, with the      *)
(* password of the row; of the audit rows, what they say but for ids.      *)
NoAccount == [status |-> "absent", password |-> None]
AskView(x) == [op |-> x.op, tenant |-> x.tenant, email |-> x.email, password |-> x.password]
StageView(x) ==
  CASE x.pc \in {"find_user", "create_user"} -> "admitted"
    [] x.pc = "find_tenant"     -> "asked"
    [] x.pc = "upsert"          -> "claimed"
    [] x.pc = "answer"          -> "registered"
    [] x.pc = "find_credential" -> "met"
    [] x.pc = "accepted"        -> "matched"
    [] x.pc = "refuse"          -> IF x.reason = "user_disabled" THEN "barred" ELSE "unknown"
    [] x.pc = "idle"            -> "idle"
RowView(a) == [action |-> a.action, tenant |-> a.tenant, email |-> a.email]

MemberAccount ==
  [x \in Tenant \X Address |->
     IF Found(x[1], x[2]) = {} THEN NoAccount
     ELSE LET u == CHOOSE u \in Found(x[1], x[2]) : TRUE
          IN  [status |-> user[u].status, password |-> secret[u]]]
MemberAsk   == [r \in Request |-> AskView(req[r])]
MemberStage == [r \in Request |-> StageView(req[r])]
MemberTrail == {RowView(a) : a \in audit}

Members == INSTANCE Membership
  WITH Nothing <- AskView(Idle),
       account <- MemberAccount,
       ask     <- MemberAsk,
       stage   <- MemberStage,
       trail   <- MemberTrail

(* The handlers implement Membership: look-ups and inserts that interleave *)
(* in any way and fail anywhere give an address to one registration, with  *)
(* the password that it gave, and tell no login or registration anything   *)
(* but what was so while it was under way.                                 *)
ImplementsMembership == Members!Spec

(* The inductive invariant behind OneUserPerAddress, RegisteredCanLogin,   *)
(* LoginIsAuthentic, NoBarredLogin and ImplementsMembership: what the      *)
(* tables, the histories and each request say of one another.              *)
Matches(u, g, a) == user[u].status # "absent" /\ user[u].tenant = g /\ user[u].address = a
Owns(r) == Matches(req[r].found, req[r].tenant, Normalized[req[r].email])
Registering(r) == req[r].pc \in {"upsert", "answer"}

RowsOK ==
  /\ \A u \in User : user[u].status = "absent" => secret[u] = None
  /\ \A c \in confirmed : \E u \in User : Matches(u, c[1], c[2]) /\ secret[u] = c[3]

StepOf(r) ==
  /\ req[r].pc = "idle" => req[r] = Idle
  /\ req[r].pc # "idle" =>
       /\ req[r].op # "none"
       /\ req[r].tenant \in Tenant /\ req[r].email \in Spelling /\ req[r].password \in Password
       /\ req[r].pc # "find_tenant" => Normalized[req[r].email] \in Address
  /\ req[r].op = "register" =>
       /\ req[r].pc \in {"find_tenant", "find_user", "create_user", "upsert", "answer"}
       /\ ~req[r].entitled /\ ~req[r].barred
  /\ req[r].op = "login" =>
       req[r].pc \in {"find_tenant", "find_user", "find_credential", "refuse", "accepted"}
  /\ req[r].reason # "none" <=> req[r].pc = "refuse"

LocalsOf(r) ==
  /\ Registering(r) \/ req[r].pc \in {"find_credential", "accepted"} =>
       req[r].found \in User /\ Owns(r)
  /\ req[r].pc = "upsert" => secret[req[r].found] = None
  /\ req[r].pc \in {"answer", "accepted"} => secret[req[r].found] = req[r].password

HistoryOf(r) ==
  /\ req[r].entitled =>
       /\ <<req[r].tenant, Normalized[req[r].email], req[r].password>> \in confirmed
       /\ req[r].reason \in {"none", "user_disabled"}
  /\ req[r].barred =>
       /\ req[r].pc \notin {"find_credential", "accepted"}
       /\ \/ req[r].pc = "find_tenant" /\ tenant[req[r].tenant] = "SUSPENDED"
          \/ \E u \in User : /\ Matches(u, req[r].tenant, Normalized[req[r].email])
                            /\ Barred(u)

SlotOK(r) == StepOf(r) /\ LocalsOf(r) /\ HistoryOf(r)

IInv ==
  /\ TypeOK
  /\ RowsOK
  /\ OneUserPerAddress
  /\ \A r \in Request : SlotOK(r)
  /\ \A r, q \in Request : r # q /\ Registering(r) /\ Registering(q) => req[r].found # req[q].found
===============================================================================
