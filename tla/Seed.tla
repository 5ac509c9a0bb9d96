--------------------------------- MODULE Seed ---------------------------------
(***************************************************************************)
(* The seed script: it makes the tenant, its system roles and its admin,   *)
(* and is run again after an upgrade to bring the roles up to date.  Each  *)
(* run is a process of its own that writes one statement after another,    *)
(* with no transaction around them; runs may overlap and may die anywhere. *)
(***************************************************************************)
EXTENDS Naturals

CONSTANTS
  Script,     \* runs of the script, numbered in the order they begin
  Version,    \* of SYSTEM_ROLE_PERMISSIONS; two of them share a permission
  Roles,      \* how many system roles there are; role 1 is the owner's
  None, Bare  \* no row; a row without permissions

ASSUME RolesAssumption == Roles \in Nat \ {0}
ASSUME ScriptAssumption == Script \subseteq Nat
ASSUME NullAssumption == None \notin Version /\ Bare \notin Version /\ None # Bare

VARIABLES
  tenant,  \* is there a row of the tenant?
  perms,   \* the version of the permissions that each system role has
  admin,   \* what has been written of the admin
  run      \* the scripts

vars == <<tenant, perms, admin, run>>

Role == 1..Roles
Owner == 1

(* The rows that belong to the admin, in the order they are written.       *)
Facts == {"user", "credential", "owner"}

AtRoles == {"role", "create_role", "clear", "wait", "fill", "clash"}
Writing == {"credential", "audit", "owner_role", "assign"}
PastRoles == {"admin", "register", "create_user"} \cup Writing \cup {"ok"}

Pc == {"idle", "tenant", "create_tenant", "failed", "died"} \cup AtRoles \cup PastRoles

(* "failed": on a row that another script wrote first; "died": killed, or  *)
(* the database failed it.  Either way the exit code is not 0.             *)
Ended == {"ok", "failed", "died"}
Running(s) == run[s].pc \notin Ended \cup {"idle"}

(* role: the one it is at; made: has it created the admin?  before:        *)
(* history, the scripts that had ended when it began.                      *)
Fresh == [pc |-> "idle", role |-> 1, version |-> None, made |-> FALSE, before |-> {}]

Init ==
  /\ tenant = FALSE
  /\ perms = [n \in Role |-> None]
  /\ admin = {}
  /\ run = [s \in Script |-> Fresh]

Goto(s, pc) == run' = [run EXCEPT ![s].pc = pc]

(* The next role, or the admin when there is none left.                    *)
NextRole(r) ==
  IF r.role < Roles THEN [r EXCEPT !.role = @ + 1, !.pc = "role"] ELSE [r EXCEPT !.pc = "admin"]

(* The transaction of another script has deleted the permissions of s's    *)
(* role and has not committed.                                             *)
Locked(s) == \E t \in Script \ {s} : run[t].pc = "fill" /\ run[t].role = run[s].role

-------------------------------------------------------------------------------
Start(s, v) ==
  /\ run[s].pc = "idle" /\ \A t \in Script : t < s => run[t].pc # "idle"
  /\ run' = [run EXCEPT ![s].pc = "tenant", ![s].version = v,
                        ![s].before = {t \in Script : run[t].pc \in Ended}]
  /\ UNCHANGED <<tenant, perms, admin>>

FindTenant(s) ==
  /\ run[s].pc = "tenant"
  /\ Goto(s, IF tenant THEN "role" ELSE "create_tenant")
  /\ UNCHANGED <<tenant, perms, admin>>

(* The slug is unique.                                                     *)
CreateTenant(s) ==
  /\ run[s].pc = "create_tenant"
  /\ Goto(s, IF tenant THEN "failed" ELSE "role")
  /\ tenant' = TRUE
  /\ UNCHANGED <<perms, admin>>

(* Slip: a role that is there is taken to be up to date.                   *)
FindRoleOnly(s) ==
  /\ run[s].pc = "role"
  /\ run' = [run EXCEPT ![s] = IF perms[@.role] = None THEN [@ EXCEPT !.pc = "create_role"]
                               ELSE NextRole(@)]
  /\ UNCHANGED <<tenant, perms, admin>>

FindRole(s) ==
  /\ run[s].pc = "role"
  /\ Goto(s, IF perms[run[s].role] = None THEN "create_role" ELSE "clear")
  /\ UNCHANGED <<tenant, perms, admin>>

(* The role and its permissions are one nested write.  (tenant, name) is   *)
(* unique.                                                                 *)
CreateRole(s) ==
  LET n == run[s].role IN
  /\ run[s].pc = "create_role"
  /\ \/ /\ perms[n] = None
        /\ perms' = [perms EXCEPT ![n] = run[s].version]
        /\ run' = [run EXCEPT ![s] = NextRole(@)]
     \/ /\ perms[n] # None
        /\ Goto(s, "failed")
        /\ UNCHANGED perms
  /\ UNCHANGED <<tenant, admin>>

(* Slip: the delete commits on its own.                                    *)
ClearAtOnce(s) ==
  /\ run[s].pc = "clear"
  /\ Goto(s, "fill")
  /\ perms' = [perms EXCEPT ![run[s].role] = Bare]
  /\ UNCHANGED <<tenant, admin>>

(* replacePermissions: the transaction deletes the rows, and waits for     *)
(* another that is deleting them.                                          *)
Clear(s) ==
  /\ run[s].pc = "clear"
  /\ Goto(s, IF Locked(s) THEN "wait" ELSE "fill")
  /\ UNCHANGED <<tenant, perms, admin>>

(* Slip: the insert is sent outside of the transaction (this.prisma for tx) *)
(* and waits for its delete.                                               *)
FillOutside(s) ==
  /\ run[s].pc = "fill"
  /\ Goto(s, "wait")
  /\ UNCHANGED <<tenant, perms, admin>>

(* It writes the new ones and commits.  The delete of a script that waited *)
(* now finds its rows gone and does not see the new ones: what it inserts  *)
(* will clash with them.                                                   *)
Fill(s) ==
  LET n == run[s].role IN
  /\ run[s].pc = "fill"
  /\ perms' = [perms EXCEPT ![n] = run[s].version]
  /\ run' = [t \in Script |->
               IF t = s THEN NextRole(run[s])
               ELSE IF run[t].pc = "wait" /\ run[t].role = n THEN [run[t] EXCEPT !.pc = "clash"]
               ELSE run[t]]
  /\ UNCHANGED <<tenant, admin>>

Clash(s) ==
  /\ run[s].pc = "clash"
  /\ Goto(s, "failed")
  /\ UNCHANGED <<tenant, perms, admin>>

FindAdmin(s) ==
  /\ run[s].pc = "admin"
  /\ Goto(s, IF "user" \in admin THEN "ok" ELSE "register")
  /\ UNCHANGED <<tenant, perms, admin>>

(* registerUser looks again; it ends the script when the user is there.    *)
Register(s) ==
  /\ run[s].pc = "register"
  /\ Goto(s, IF "user" \in admin THEN "failed" ELSE "create_user")
  /\ UNCHANGED <<tenant, perms, admin>>

(* (tenant, emailNormalized) is unique.                                    *)
CreateUser(s) ==
  /\ run[s].pc = "create_user"
  /\ \/ /\ "user" \notin admin
        /\ run' = [run EXCEPT ![s].pc = "credential", ![s].made = TRUE]
     \/ /\ "user" \in admin
        /\ Goto(s, "failed")
  /\ admin' = admin \cup {"user"}
  /\ UNCHANGED <<tenant, perms>>

(* Slip: a credential that cannot be written is passed over.               *)
StoreCredentialOrNot(s) ==
  /\ run[s].pc = "credential"
  /\ Goto(s, "audit")
  /\ admin' \in {admin, admin \cup {"credential"}}
  /\ UNCHANGED <<tenant, perms>>

StoreCredential(s) ==
  /\ run[s].pc = "credential"
  /\ Goto(s, "audit")
  /\ admin' = admin \cup {"credential"}
  /\ UNCHANGED <<tenant, perms>>

(* The sink swallows what fails, and nothing here reads the event.         *)
RecordAudit(s) ==
  /\ run[s].pc = "audit"
  /\ Goto(s, "owner_role")
  /\ UNCHANGED <<tenant, perms, admin>>

(* Slip: a role whose permissions are being replaced is not found.         *)
FindOwnerRoleAtRest(s) ==
  /\ run[s].pc = "owner_role"
  /\ Goto(s, IF perms[Owner] = None \/ \E t \in Script : run[t].pc = "fill" /\ run[t].role = Owner
             THEN "ok" ELSE "assign")
  /\ UNCHANGED <<tenant, perms, admin>>

FindOwnerRole(s) ==
  /\ run[s].pc = "owner_role"
  /\ Goto(s, IF perms[Owner] = None THEN "ok" ELSE "assign")
  /\ UNCHANGED <<tenant, perms, admin>>

Assign(s) ==
  /\ run[s].pc = "assign"
  /\ Goto(s, "ok")
  /\ admin' = admin \cup {"owner"}
  /\ UNCHANGED <<tenant, perms>>

(* The process is killed or a statement of it fails: its transaction is    *)
(* rolled back, and scripts that waited for it try in turn.                *)
Die(s) ==
  /\ Running(s)
  /\ run' = [t \in Script |->
               IF t = s THEN [run[s] EXCEPT !.pc = "died"]
               ELSE IF run[s].pc = "fill" /\ run[t].pc = "wait" /\ run[t].role = run[s].role
               THEN [run[t] EXCEPT !.pc = "clear"]
               ELSE run[t]]
  /\ UNCHANGED <<tenant, perms, admin>>

Step(s) ==
  \/ FindTenant(s) \/ CreateTenant(s)
  \/ FindRole(s) \/ CreateRole(s) \/ Clear(s) \/ Fill(s) \/ Clash(s)
  \/ FindAdmin(s) \/ Register(s) \/ CreateUser(s) \/ StoreCredential(s)
  \/ RecordAudit(s) \/ FindOwnerRole(s) \/ Assign(s)

Next == \E s \in Script : Step(s) \/ Die(s) \/ \E v \in Version : Start(s, v)

(* A script that runs goes on; nobody has to start one.                    *)
Fairness == \A s \in Script : WF_vars(Step(s))

Spec == Init /\ [][Next]_vars
FairSpec == Spec /\ Fairness

(* When there is a step to take, and the fairness of s in terms of it: by  *)
(* NoScriptStuck, below, Served(s) is WF_vars(Step(s)).                    *)
Ready(s)  == Running(s) /\ run[s].pc # "wait"
Served(s) == []<>~Ready(s) \/ []<><<Step(s)>>_vars

(* From some time on no script dies while others may wait for it; so it is *)
(* wherever the scripts are finitely many, for each of them dies once.     *)
HolderLives == \A s \in Script : run[s].pc = "fill" => ~Die(s)
DeathsEnd   == <>[][HolderLives]_vars

-------------------------------------------------------------------------------
(* The rows and the scripts have their types.                              *)
RunRecord == [pc : Pc, role : Role, version : Version \cup {None}, made : BOOLEAN,
              before : SUBSET Script]

TypeOK ==
  /\ tenant \in BOOLEAN
  /\ perms \in [Role -> Version \cup {None, Bare}]
  /\ admin \in SUBSET Facts
  /\ run \in [Script -> RunRecord]

(* A system role that is there has all the permissions of one version at   *)
(* any moment, whatever is being replaced and wherever a script dies: its  *)
(* users lose no access during an upgrade.                                 *)
RolesAreWhole == \A n \in Role : perms[n] # Bare

(* Past the roles, each of them has the permissions of this script or of   *)
(* one that ran beside it or later, never of one that had ended before it  *)
(* began: a run brings the roles up to date.                               *)
RolesAreSynced ==
  \A s \in Script : run[s].pc \in PastRoles =>
    \A n \in Role : \E t \in Script \ run[s].before : perms[n] = run[t].version

(* The admin is given the owner role only when it can log in, and the role *)
(* is there.                                                               *)
OwnerIsReady == "owner" \in admin => {"user", "credential"} \subseteq admin /\ perms[Owner] # None

(* Scripts that overlap may fail on each other's rows, but as long as none *)
(* dies one of them gets through, and leaves the admin complete.           *)
OneGetsThrough ==
  /\ \A s \in Script : run[s].pc \in Ended \cup {"idle"} /\ run[s].pc # "died"
  /\ \E s \in Script : run[s].pc # "idle"
  => admin = Facts /\ \E s \in Script : run[s].pc = "ok"

(* A script that waits does so for another, which can go on.               *)
NobodyWaitsInVain ==
  \A s \in Script : run[s].pc = "wait" => \E t \in Script : run[t].role = run[s].role /\ Ready(t)

(* A script that runs can go on, unless it waits for another, which can.   *)
NoScriptStuck ==
  /\ \A s \in Script : Ready(s) <=> ENABLED <<Step(s)>>_vars
  /\ NobodyWaitsInVain

(* A script never waits for a transaction for ever: each run ends.         *)
EveryRunEnds == \A s \in Script : run[s].pc = "tenant" ~> run[s].pc \in Ended

(* "The seed is idempotent" (ARCHITECTURE.md:430), and the README runs it  *)
(* to get "a tenant + owner + system roles" (README.md:63): when nothing   *)
(* runs any more and one run has exited with 0, there is an owner.         *)
SuccessLeavesOwner ==
  (\A s \in Script : ~Running(s)) /\ (\E s \in Script : run[s].pc = "ok") => admin = Facts

(* The inductive invariant.  Done: s is past role n.                       *)
Done(s, n) == run[s].pc \in PastRoles \/ (run[s].pc \in AtRoles /\ n < run[s].role)

ScriptOK(s) ==
  /\ run[s].pc = "idle" <=> run[s].version = None
  /\ run[s].pc \in {"idle", "tenant", "create_tenant"} => run[s].role = 1
  /\ s \notin run[s].before /\ \A t \in run[s].before : run[t].pc \in Ended
  /\ \A n \in Role : Done(s, n) =>
       perms[n] # None /\ \E t \in Script \ run[s].before : perms[n] = run[t].version
  /\ run[s].pc \in Writing \cup {"ok"} => "user" \in admin
  /\ run[s].pc \in Writing \ {"credential"} => "credential" \in admin

(* Whoever failed did so behind another that had gone further.             *)
SomePast(n) == \E t \in Script : Done(t, n)
LeadOK ==
  /\ tenant => \E t \in Script : run[t].pc \in AtRoles \cup PastRoles
  /\ \A n \in Role : perms[n] # None => SomePast(n)
  /\ \A s \in Script : run[s].pc = "clash" => SomePast(run[s].role)
  /\ (\E s \in Script : run[s].pc # "idle") => \E t \in Script : Running(t) \/ run[t].pc = "ok"
  /\ "user" \in admin =>
       \E t \in Script : run[t].pc \in Writing \/ (run[t].pc = "ok" /\ admin = Facts)

(* The rows of a role are locked by one script at most, and who waits for  *)
(* them waits for somebody.                                                *)
LockOK ==
  /\ \A s, t \in Script :
       run[s].pc = "fill" /\ run[t].pc = "fill" /\ run[s].role = run[t].role => s = t
  /\ \A s \in Script : run[s].pc = "wait" => Locked(s)

SyncInv ==
  /\ TypeOK /\ RolesAreWhole /\ OwnerIsReady
  /\ \A s \in Script : ScriptOK(s)
  /\ (\A s \in Script : run[s].pc # "died") => LeadOK

IInv == SyncInv /\ LockOK
===============================================================================
