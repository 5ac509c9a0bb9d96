--------------------------- MODULE TenantAuthority ----------------------------
(***************************************************************************)
(* What the gateway promises about a tenant's roles, assignments and keys, *)
(* with no guards, look-ups or statements.  A request is allowed at some   *)
(* instant at which its principal holds the permission in the tenant; the  *)
(* tables change only by the effect of a request that was allowed, whole,  *)
(* at one later instant, once, and within its tenant; the trail claims     *)
(* nothing but such effects, each at most once, and each of them unless    *)
(* something fails; and a key acts only when its secret was handed to the  *)
(* client that created it.                                                 *)
(* Access.tla is shown to implement this module.                           *)
(***************************************************************************)
EXTENDS Naturals

CONSTANTS
  Request, User, Role, Key,
  Home,            \* the tenant each user belongs to
  Catalog,         \* the permissions there are
  Needed(_),       \* the one that an operation takes
  Nothing,         \* what nobody asks for
  NoRole, NoKey, NoClaim,  \* no row
  SeedRole, SeedGrant,
  MayFail,         \* may answers and claims get lost?
  MaxTime, None

VARIABLES
  now,
  role, grant, key,  \* what there is, and who holds it
  issued,            \* the keys whose secret has been handed out
  ask,               \* what each request asks for
  stage,             \* "idle", "asking", "allowed" or "done"
  wrote              \* what the last step added to the audit trail

tables == <<role, grant, key>>
unsaid == <<now, tables, issued, ask, stage>>
vars   == <<unsaid, wrote>>

Init ==
  /\ now = 0
  /\ role = SeedRole
  /\ grant = SeedGrant
  /\ key = [k \in Key |-> NoKey]
  /\ issued = {}
  /\ ask = [r \in Request |-> Nothing]
  /\ stage = [r \in Request |-> "idle"]
  /\ wrote = NoClaim

(* p holds in tenant g the permission that op takes.                       *)
Holds(p, op, g) ==
  \/ /\ p \in User /\ Home[p] = g
     /\ \E ro \in Role : /\ <<p, ro>> \in grant /\ role[ro].tenant = g
                         /\ Needed(op) \in role[ro].permissions
  \/ /\ p \in Key /\ key[p].tenant = g /\ ~key[p].revoked
     /\ key[p].expiresAt # None => now < key[p].expiresAt
     /\ Needed(op) \in key[p].scopes

Moves(r, from, to) == stage[r] = from /\ stage' = [stage EXCEPT ![r] = to]

(* A request arrives; anything may be asked for, in any tenant.            *)
Ask(r) ==
  /\ Moves(r, "idle", "asking")
  /\ ask' = [ask EXCEPT ![r] = ask'[r]]
  /\ ask'[r].by \in User \cup issued
  /\ UNCHANGED <<now, tables, issued>>

(* The instant at which it is allowed.                                     *)
Allow(r) ==
  /\ Moves(r, "asking", "allowed")
  /\ Holds(ask[r].by, ask[r].op, ask[r].tenant)
  /\ UNCHANGED <<now, tables, issued, ask>>

-------------------------------------------------------------------------------
(* Its effect.                                                             *)
MakeRole(r) ==
  /\ ask[r].op = "create_role" /\ ask[r].bundle \subseteq Catalog
  /\ \A ro \in Role : role[ro].tenant = ask[r].tenant => role[ro].name # ask[r].name
  /\ \E ro \in Role :
       /\ role[ro] = NoRole
       /\ role' = [role EXCEPT ![ro] = [tenant |-> ask[r].tenant, name |-> ask[r].name,
                                       permissions |-> ask[r].bundle]]
       /\ ask' = [ask EXCEPT ![r].row = ro]
  /\ UNCHANGED <<grant, key>>

Assign(r) ==
  /\ ask[r].op = "assign_role"
  /\ Home[ask[r].user] = ask[r].tenant /\ role[ask[r].row].tenant = ask[r].tenant
  /\ grant' = grant \cup {<<ask[r].user, ask[r].row>>}
  /\ UNCHANGED <<role, key, ask>>

Unassign(r) ==
  /\ ask[r].op = "unassign_role"
  /\ role[ask[r].row].tenant = ask[r].tenant
  /\ grant' = grant \ {<<ask[r].user, ask[r].row>>}
  /\ UNCHANGED <<role, key, ask>>

MakeKey(r) ==
  /\ ask[r].op = "create_key" /\ ask[r].bundle \subseteq Catalog
  /\ \E k \in Key :
       /\ key[k] = NoKey
       /\ key' = [key EXCEPT ![k] = [tenant |-> ask[r].tenant, scopes |-> ask[r].bundle,
                                    expiresAt |-> ask[r].expiry, revoked |-> FALSE]]
       /\ ask' = [ask EXCEPT ![r].row = k]
  /\ UNCHANGED <<role, grant>>

RevokeKey(r) ==
  /\ ask[r].op = "revoke_key"
  /\ key[ask[r].row].tenant = ask[r].tenant
  /\ key' = [key EXCEPT ![ask[r].row].revoked = TRUE]
  /\ UNCHANGED <<role, grant, ask>>

Act(r) ==
  /\ Moves(r, "allowed", "done")
  /\ MakeRole(r) \/ Assign(r) \/ Unassign(r) \/ MakeKey(r) \/ RevokeKey(r)
  /\ UNCHANGED <<now, issued>>

-------------------------------------------------------------------------------
(* A request ends.                                                         *)
Ends(r) ==
  /\ stage[r] # "idle"
  /\ stage' = [stage EXCEPT ![r] = "idle"]
  /\ ask' = [ask EXCEPT ![r] = Nothing]
  /\ UNCHANGED <<now, tables>>

(* It is refused or fails; what was done goes without an answer only then. *)
Stop(r) ==
  /\ Ends(r)
  /\ stage[r] = "done" => MayFail
  /\ UNCHANGED issued

(* What was done is claimed, in the name of the user who did it, and       *)
(* answered: the secret of a new key is handed out.                        *)
Claimed(r) ==
  [action |-> ask[r].op, tenant |-> ask[r].tenant, user |-> ask[r].user, row |-> ask[r].row,
   actor |-> IF ask[r].by \in User THEN ask[r].by ELSE None]

Answer(r) ==
  /\ stage[r] = "done"
  /\ Ends(r)
  /\ wrote' = Claimed(r) \/ (MayFail /\ wrote' = NoClaim)
  /\ \/ issued' = issued \cup (IF ask[r].op = "create_key" THEN {ask[r].row} ELSE {})
     \/ MayFail /\ UNCHANGED issued

Tick ==
  /\ now < MaxTime
  /\ now' = now + 1
  /\ UNCHANGED <<tables, issued, ask, stage>>

Next ==
  \/ \E r \in Request : Answer(r)
  \/ /\ wrote' = NoClaim
     /\ UNCHANGED unsaid \/ Tick \/ \E r \in Request : Ask(r) \/ Allow(r) \/ Act(r) \/ Stop(r)

Spec == Init /\ [][Next]_vars
===============================================================================
