------------------------------ MODULE Membership -------------------------------
(***************************************************************************)
(* What the gateway promises about accounts, with no look-ups, rows or     *)
(* statements.  An address of a tenant is claimed by one registration, for *)
(* ever, and has no password but the one that this registration gives it.  *)
(* A login is let in after the tenant was active, then the account, then   *)
(* the password right, each at an instant of its own; it is turned away    *)
(* only for what was so at an instant of its own.  The trail says what was *)
(* told, and nothing else.                                                 *)
(* Accounts.tla is shown to implement this module.                         *)
(***************************************************************************)
CONSTANTS
  Request, Tenant, Address, Normalized, None,
  NoAccount,   \* nobody has the address
  Nothing,     \* what nobody asks for
  MayFail,     \* may a request come to nothing half way?
  MayLose      \* may the trail lose a row?

VARIABLES
  tenant,      \* "absent", "ACTIVE" or "SUSPENDED"
  account,     \* status and password, by tenant and address
  ask, stage,  \* what each request asks for, and how far it has come
  trail,       \* what the audit trail says
  confirmed,   \* registrations that were told so
  refused      \* logins that were told why not

vars == <<tenant, account, ask, stage, trail, confirmed, refused>>
told == <<trail, confirmed, refused>>

Init ==
  /\ tenant \in [Tenant -> {"absent", "ACTIVE", "SUSPENDED"}]
  /\ account = [x \in Tenant \X Address |-> NoAccount]
  /\ ask = [r \in Request |-> Nothing]
  /\ stage = [r \in Request |-> "idle"]
  /\ trail = {} /\ confirmed = {} /\ refused = {}

(* The account that a request is about.                                    *)
Subject(r) == <<ask[r].tenant, Normalized[ask[r].email]>>

Moves(r, op, from, to) ==
  /\ ask[r].op = op /\ stage[r] = from
  /\ stage' = [stage EXCEPT ![r] = to]
  /\ UNCHANGED <<tenant, ask, told>>

(* A request arrives; anything may be asked for.                           *)
Ask(r) ==
  /\ stage[r] = "idle"
  /\ stage' = [stage EXCEPT ![r] = "asked"]
  /\ ask' = [ask EXCEPT ![r] = ask'[r]]
  /\ UNCHANGED <<tenant, account, told>>

Admit(r) ==
  /\ \E op \in {"register", "login"} : Moves(r, op, "asked", "admitted")
  /\ tenant[ask[r].tenant] = "ACTIVE"
  /\ UNCHANGED account

-------------------------------------------------------------------------------
(* The one registration that finds the address free claims it, and gives   *)
(* it its password.                                                        *)
Claim(r) ==
  /\ Moves(r, "register", "admitted", "claimed")
  /\ account[Subject(r)] = NoAccount
  /\ account' = [account EXCEPT ![Subject(r)] = [status |-> "ACTIVE", password |-> None]]

SetPassword(r) ==
  /\ Moves(r, "register", "claimed", "registered")
  /\ account[Subject(r)].password = None
  /\ account' = [account EXCEPT ![Subject(r)].password = ask[r].password]

-------------------------------------------------------------------------------
(* A login meets the account and gives its password, or not.               *)
Meet(r) ==
  /\ Moves(r, "login", "admitted", "met")
  /\ account[Subject(r)].status = "ACTIVE"
  /\ UNCHANGED account

Match(r) ==
  /\ Moves(r, "login", "met", "matched")
  /\ account[Subject(r)].password = ask[r].password
  /\ UNCHANGED account

Miss(r) ==
  /\ \/ /\ Moves(r, "login", "admitted", "barred")
        /\ account[Subject(r)].status \in {"DISABLED", "LOCKED"}
     \/ Moves(r, "login", "admitted", "unknown") /\ account[Subject(r)] = NoAccount
     \/ /\ Moves(r, "login", "met", "unknown")
        /\ account[Subject(r)].password # ask[r].password
  /\ UNCHANGED account

-------------------------------------------------------------------------------
(* A request ends.                                                         *)
Ends(r) ==
  /\ stage[r] # "idle"
  /\ stage' = [stage EXCEPT ![r] = "idle"]
  /\ ask' = [ask EXCEPT ![r] = Nothing]
  /\ UNCHANGED <<tenant, account>>

Says(r, action) ==
  \/ trail' = trail \cup {[action |-> action, tenant |-> ask[r].tenant, email |-> ask[r].email]}
  \/ MayLose /\ UNCHANGED trail

(* It comes to nothing: a registration may before it has claimed anything, *)
(* a login that was let in goes on as a session, all else only fails.      *)
Stop(r) ==
  /\ Ends(r)
  /\ \/ MayFail
     \/ ask[r].op = "register" /\ stage[r] \in {"asked", "admitted"}
     \/ stage[r] = "matched"
  /\ UNCHANGED told

Confirm(r) ==
  /\ stage[r] = "registered"
  /\ Ends(r)
  /\ Says(r, "USER_REGISTERED")
  /\ confirmed' = confirmed \cup {<<ask[r].tenant, Normalized[ask[r].email], ask[r].password>>}
  /\ UNCHANGED refused

Refuses(r, code) ==
  /\ Ends(r)
  /\ refused' = refused \cup {<<ask[r].tenant, ask[r].email, code>>}
  /\ UNCHANGED confirmed

(* A login is told why it is refused; no row says that of its tenant.      *)
Refuse(r) ==
  \/ /\ stage[r] = "asked" /\ UNCHANGED trail
     /\ \/ tenant[ask[r].tenant] = "absent" /\ Refuses(r, "TENANT_NOT_FOUND")
        \/ tenant[ask[r].tenant] = "SUSPENDED" /\ Refuses(r, "TENANT_SUSPENDED")
  \/ stage[r] = "barred" /\ Refuses(r, "USER_DISABLED") /\ Says(r, "USER_LOGIN_FAILED")
  \/ stage[r] = "unknown" /\ Refuses(r, "INVALID_CREDENTIALS") /\ Says(r, "USER_LOGIN_FAILED")

-------------------------------------------------------------------------------
(* The operator.                                                           *)
Suspend(g) ==
  /\ tenant[g] = "ACTIVE"
  /\ tenant' = [tenant EXCEPT ![g] = "SUSPENDED"]
  /\ UNCHANGED <<account, ask, stage, told>>

Disable(x, status) ==
  /\ account[x].status = "ACTIVE"
  /\ account' = [account EXCEPT ![x].status = status]
  /\ UNCHANGED <<tenant, ask, stage, told>>

Next ==
  \/ \E g \in Tenant : Suspend(g)
  \/ \E x \in Tenant \X Address, status \in {"DISABLED", "LOCKED"} : Disable(x, status)
  \/ \E r \in Request :
       \/ Ask(r) \/ Admit(r) \/ Claim(r) \/ SetPassword(r) \/ Meet(r) \/ Match(r) \/ Miss(r)
       \/ Stop(r) \/ Confirm(r) \/ Refuse(r)

Spec == Init /\ [][Next]_vars
===============================================================================
