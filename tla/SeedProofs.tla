------------------------------ MODULE SeedProofs ------------------------------
(***************************************************************************)
(* For every number of scripts, roles and versions: no role is ever seen   *)
(* without its permissions, a run brings them up to date, and while none   *)
(* dies one of the scripts gets through.  If scripts that can go on do,    *)
(* none waits for ever; and with up to three roles each run ends.          *)
(***************************************************************************)
EXTENDS Seed, TLAPS

LEMMA RoleFacts == Owner \in Role /\ Role \subseteq Nat /\ Roles \in Role
BY RolesAssumption DEF Owner, Role

(* A step of s: the other scripts stand where they stood, or find out what *)
(* they waited for; a role that changes gets the permissions of s.         *)
LEMMA Keeps ==
  ASSUME SyncInv, TypeOK', NEW s \in Script, run[s].pc \notin Ended,
         \A t \in Script \ {s} :
           \/ run'[t] = run[t]
           \/ /\ run[t].pc = "wait" /\ run'[t].pc \in {"clear", "clash"}
              /\ run'[t].role = run[t].role /\ run'[t].version = run[t].version
              /\ run'[t].before = run[t].before,
         \A n \in Role :
           perms'[n] = perms[n] \/ (perms'[n] = run[s].version /\ run[s].pc # "idle"),
         admin \subseteq admin',
         run'[s].version = run[s].version \/ run[s].pc = "idle",
         ScriptOK(s)', OwnerIsReady', (\A t \in Script : run'[t].pc # "died") => LeadOK'
  PROVE  SyncInv'
<1>1. TypeOK /\ RolesAreWhole /\ \A t \in Script : ScriptOK(t)
  BY DEF SyncInv
<1>2. \A t \in Script : run[t] \in RunRecord
  BY <1>1 DEF TypeOK
<1>3. RolesAreWhole'
  <2> SUFFICES ASSUME NEW n \in Role PROVE perms'[n] # Bare
    BY DEF RolesAreWhole
  <2>1. run[s].pc # "idle" => run[s].version \in Version
    BY <1>1, <1>2 DEF ScriptOK, RunRecord
  <2> QED
    BY <1>1, <2>1, NullAssumption DEF RolesAreWhole
<1>4. ASSUME NEW t \in Script, t # s PROVE ScriptOK(t)'
  <2>1. /\ run'[t].role = run[t].role /\ run'[t].version = run[t].version
        /\ run'[t].before = run[t].before
    BY <1>4
  <2>2. run'[t].pc = run[t].pc \/ (run[t].pc = "wait" /\ run'[t].pc \in {"clear", "clash"})
    BY <1>4
  <2>3. ScriptOK(t)
    BY <1>1
  <2>4. /\ run'[t].pc = "idle" <=> run'[t].version = None
        /\ run'[t].pc \in {"idle", "tenant", "create_tenant"} => run'[t].role = 1
        /\ run'[t].pc \in Writing \cup {"ok"} => "user" \in admin'
        /\ run'[t].pc \in Writing \ {"credential"} => "credential" \in admin'
    BY <2>1, <2>2, <2>3 DEF ScriptOK, Writing
  <2>5. t \notin run'[t].before /\ \A u \in run'[t].before : run'[u].pc \in Ended
    <3>1. run[t].before \subseteq Script
      BY <1>2 DEF RunRecord
    <3>2. \A u \in run[t].before : u # s /\ run[u].pc \in Ended /\ run[u].pc # "wait"
      BY <2>3 DEF ScriptOK, Ended
    <3> QED
      BY <2>1, <2>3, <3>1, <3>2 DEF ScriptOK
  <2>6. ASSUME NEW n \in Role, Done(t, n)'
        PROVE  perms'[n] # None /\ \E u \in Script \ run'[t].before : perms'[n] = run'[u].version
    <3>1. Done(t, n)
      BY <2>1, <2>2, <2>6 DEF Done, AtRoles, PastRoles, Writing
    <3>2. perms[n] # None /\ \E u \in Script \ run[t].before : perms[n] = run[u].version
      BY <2>3, <3>1 DEF ScriptOK
    <3>3. CASE perms'[n] = perms[n]
      <4>1. PICK u \in Script \ run[t].before : perms[n] = run[u].version
        BY <3>2
      <4>2. run[u].version # None
        BY <3>2, <4>1
      <4>3. run'[u].version = run[u].version
        BY <1>1, <4>2 DEF ScriptOK
      <4> QED
        BY <2>1, <3>2, <3>3, <4>1, <4>3
    <3>4. CASE perms'[n] = run[s].version /\ run[s].pc # "idle"
      <4>1. s \notin run[t].before /\ run[s].version # None
        BY <1>1, <2>3, <3>4 DEF ScriptOK
      <4> QED
        BY <2>1, <3>4, <4>1
    <3> QED
      BY <3>3, <3>4
  <2> QED
    BY <2>4, <2>5, <2>6 DEF ScriptOK
<1> QED
  BY <1>3, <1>4 DEF SyncInv

(* A script moves on to x, with or without a row of the tenant or the      *)
(* admin, and is past the same roles as before.                            *)
LEMMA Forward ==
  ASSUME SyncInv, NEW s \in Script, NEW x \in RunRecord, run' = [run EXCEPT ![s] = x],
         Running(s), perms' = perms, tenant' \in BOOLEAN, admin' \in SUBSET Facts,
         admin \subseteq admin',
         x.version = run[s].version, x.before = run[s].before,
         x.pc \in ({"create_tenant", "ok"} \cup AtRoles \cup PastRoles) \ {"clash"},
         x.pc = "create_tenant" => x.role = 1,
         \A n \in Role : Done(s, n)' => Done(s, n),
         \A n \in Role : Done(s, n) => Done(s, n)',
         run[s].pc \in AtRoles \cup PastRoles => x.pc \in AtRoles \cup PastRoles,
         tenant' => tenant \/ x.pc \in AtRoles \cup PastRoles,
         x.pc \in Writing \cup {"ok"} => "user" \in admin',
         x.pc \in Writing \ {"credential"} => "credential" \in admin',
         run[s].pc \in Writing => x.pc \in Writing \/ (x.pc = "ok" /\ admin' = Facts),
         "user" \in admin' => "user" \in admin \/ x.pc \in Writing,
         "owner" \in admin' =>
           {"user", "credential"} \subseteq admin' /\ perms[Owner] # None
  PROVE  SyncInv'
<1>1. TypeOK /\ ScriptOK(s) /\ run[s] \in RunRecord /\ run[s].pc \notin Ended /\ run[s].pc # "idle"
  BY DEF SyncInv, TypeOK, Running
<1>2. run'[s] = x /\ \A t \in Script \ {s} : run'[t] = run[t]
  BY <1>1 DEF TypeOK
<1>3. TypeOK'
  BY <1>1 DEF TypeOK
<1>4. ScriptOK(s)'
  <2>1. \A n \in Role : Done(s, n)' =>
          perms[n] # None /\ \E t \in Script \ run[s].before : perms[n] = run[t].version
    BY <1>1 DEF ScriptOK
  <2>2. \A t \in Script : run'[t].version = run[t].version
    BY <1>2
  <2>3. s \notin x.before /\ \A t \in x.before : run'[t].pc \in Ended
    BY <1>1, <1>2 DEF ScriptOK, RunRecord
  <2>4. x.pc \notin {"idle", "tenant"} /\ x.version # None
    BY <1>1 DEF ScriptOK, AtRoles, PastRoles, Writing
  <2> QED
    BY <1>2, <2>1, <2>2, <2>3, <2>4 DEF ScriptOK
<1>5. OwnerIsReady'
  BY DEF OwnerIsReady
<1>6. ASSUME \A t \in Script : run'[t].pc # "died" PROVE LeadOK'
  <2>1. LeadOK
    BY <1>1, <1>2, <1>6 DEF SyncInv, Ended
  <2>2. \A t \in Script, n \in Role : Done(t, n) => Done(t, n)'
    BY <1>2 DEF Done
  <2>3. tenant' => \E t \in Script : run'[t].pc \in AtRoles \cup PastRoles
    BY <1>2, <2>1 DEF LeadOK
  <2>4. \A n \in Role : perms'[n] # None => SomePast(n)'
    BY <2>1, <2>2 DEF LeadOK, SomePast
  <2>5. \A t \in Script : run'[t].pc = "clash" => SomePast(run[t].role)' /\ run'[t].role = run[t].role
    <3> SUFFICES ASSUME NEW t \in Script, run'[t].pc = "clash"
                 PROVE  SomePast(run[t].role)' /\ run'[t].role = run[t].role
      OBVIOUS
    <3>1. t # s /\ run'[t] = run[t] /\ run[t].role \in Role
      BY <1>1, <1>2 DEF TypeOK, RunRecord
    <3>2. PICK u \in Script : Done(u, run[t].role)
      BY <2>1, <3>1 DEF LeadOK, SomePast
    <3>3. Done(u, run[t].role)'
      BY <1>2, <3>1, <3>2 DEF Done
    <3> QED
      BY <3>1, <3>3 DEF SomePast
  <2>6. Running(s)' \/ run'[s].pc = "ok"
    BY <1>2 DEF Running, Ended, AtRoles, PastRoles, Writing
  <2>7. "user" \in admin' =>
          \E t \in Script : run'[t].pc \in Writing \/ (run'[t].pc = "ok" /\ admin' = Facts)
    BY <1>2, <2>1 DEF LeadOK
  <2> QED
    BY <2>3, <2>4, <2>5, <2>6, <2>7 DEF LeadOK, SomePast
<1> QED
  BY <1>1, <1>2, <1>3, <1>4, <1>5, <1>6, Keeps

(* A script fails, and another is at least as far as it was.               *)
LEMMA Behind ==
  ASSUME SyncInv, NEW s \in Script, Running(s), run[s].pc \notin Writing,
         run' = [run EXCEPT ![s].pc = "failed"], UNCHANGED <<tenant, perms, admin>>,
         (\A t \in Script : run[t].pc # "died") =>
           \E t \in Script \ {s} :
             /\ run[t].pc \in AtRoles \cup PastRoles
             /\ \A n \in Role : Done(s, n) => Done(t, n)
  PROVE  SyncInv'
<1> DEFINE x == [run[s] EXCEPT !.pc = "failed"]
<1>1. /\ TypeOK /\ OwnerIsReady /\ ScriptOK(s) /\ run[s] \in RunRecord
      /\ run[s].pc \notin Ended /\ run[s].pc # "idle"
  BY DEF SyncInv, TypeOK, Running
<1>2. /\ run'[s] = x /\ \A t \in Script \ {s} : run'[t] = run[t]
      /\ x \in RunRecord /\ x.pc = "failed" /\ x.version = run[s].version
      /\ x.before = run[s].before
  BY <1>1 DEF TypeOK, RunRecord, Pc
<1> HIDE DEF x
<1>3. TypeOK'
  BY <1>1, <1>2 DEF TypeOK
<1>4. ScriptOK(s)' /\ OwnerIsReady'
  <2>1. \A n \in Role : ~Done(s, n)'
    BY <1>2 DEF Done, AtRoles, PastRoles, Writing
  <2>2. s \notin x.before /\ \A t \in x.before : run'[t].pc \in Ended
    BY <1>1, <1>2 DEF ScriptOK, RunRecord
  <2>3. x.version # None
    BY <1>1, <1>2 DEF ScriptOK
  <2> QED
    BY <1>1, <1>2, <2>1, <2>2, <2>3 DEF ScriptOK, OwnerIsReady, Writing
<1>5. ASSUME \A t \in Script : run'[t].pc # "died" PROVE LeadOK'
  <2>1. \A t \in Script : run[t].pc # "died"
    BY <1>1, <1>2, <1>5 DEF Ended
  <2>2. LeadOK
    BY <2>1 DEF SyncInv
  <2>3. PICK l \in Script \ {s} : /\ run[l].pc \in AtRoles \cup PastRoles
                                  /\ \A n \in Role : Done(s, n) => Done(l, n)
    BY <2>1
  <2>4. \A t \in Script \ {s}, n \in Role : Done(t, n) => Done(t, n)'
    BY <1>2 DEF Done
  <2>5. \A n \in Role : SomePast(n) => SomePast(n)'
    BY <2>3, <2>4 DEF SomePast
  <2>6. \A n \in Role : perms'[n] # None => SomePast(n)'
    BY <2>2, <2>5 DEF LeadOK
  <2>7. \A t \in Script : run'[t].pc = "clash" => SomePast(run[t].role)' /\ run'[t].role = run[t].role
    <3> SUFFICES ASSUME NEW t \in Script, run'[t].pc = "clash"
                 PROVE  SomePast(run[t].role)' /\ run'[t].role = run[t].role
      OBVIOUS
    <3>1. t # s /\ run'[t] = run[t] /\ run[t].role \in Role
      BY <1>1, <1>2 DEF TypeOK, RunRecord
    <3>2. PICK u \in Script : Done(u, run[t].role)
      BY <2>2, <3>1 DEF LeadOK, SomePast
    <3>3. \E v \in Script \ {s} : Done(v, run[t].role)
      BY <2>3, <3>1, <3>2
    <3>4. \E v \in Script : Done(v, run[t].role)'
      BY <1>2, <3>1, <3>3 DEF Done
    <3> QED
      BY <3>1, <3>4 DEF SomePast
  <2>8. run'[l].pc \in AtRoles \cup PastRoles /\ (Running(l)' \/ run'[l].pc = "ok")
    BY <1>2, <2>3 DEF Running, Ended, AtRoles, PastRoles, Writing
  <2>9. "user" \in admin' =>
          \E t \in Script : run'[t].pc \in Writing \/ (run'[t].pc = "ok" /\ admin' = Facts)
    BY <1>1, <1>2, <2>2 DEF LeadOK, Ended
  <2> QED
    BY <2>6, <2>7, <2>8, <2>9 DEF LeadOK, SomePast
<1> QED
  BY <1>1, <1>2, <1>3, <1>4, <1>5, Keeps

(* The role that s is at gets its permissions, and s is past it.           *)
LEMMA WriteIInv ==
  ASSUME SyncInv, NEW s \in Script, run[s].pc \in {"create_role", "fill"},
         perms' = [perms EXCEPT ![run[s].role] = run[s].version],
         UNCHANGED <<tenant, admin>>, TypeOK', run'[s] = NextRole(run[s]),
         \A t \in Script \ {s} :
           \/ run'[t] = run[t]
           \/ /\ run[t].pc = "wait" /\ run'[t].pc = "clash" /\ run[t].role = run[s].role
              /\ run'[t].role = run[t].role /\ run'[t].version = run[t].version
              /\ run'[t].before = run[t].before
  PROVE  SyncInv'
<1> DEFINE m == run[s].role
<1>1. /\ TypeOK /\ OwnerIsReady /\ ScriptOK(s) /\ run[s] \in RunRecord /\ m \in Role
      /\ run[s].pc \notin Ended /\ run[s].pc # "idle"
  BY DEF SyncInv, TypeOK, Ended, RunRecord
<1>2. /\ run'[s].version = run[s].version /\ run'[s].before = run[s].before
      /\ \/ m < Roles /\ run'[s].pc = "role" /\ run'[s].role = m + 1
         \/ ~(m < Roles) /\ run'[s].pc = "admin"
  BY <1>1 DEF NextRole, RunRecord
<1>3. /\ perms'[m] = run[s].version /\ perms'[m] \in Version /\ perms'[m] # None
      /\ \A n \in Role : n # m => perms'[n] = perms[n]
  BY <1>1, NullAssumption DEF TypeOK, ScriptOK, RunRecord
<1>4. \A n \in Role : Done(s, n)' => n = m \/ Done(s, n)
  BY <1>1, <1>2, RoleFacts, RolesAssumption DEF Done, AtRoles, PastRoles, Writing, Role
<1>5. \A n \in Role : n = m \/ Done(s, n) => Done(s, n)'
  BY <1>1, <1>2, RoleFacts, RolesAssumption DEF Done, AtRoles, PastRoles, Writing, Role
<1>6. \A t \in Script : run'[t].version = run[t].version
  BY <1>2
<1>7. ScriptOK(s)'
  <2>1. \A n \in Role : Done(s, n) =>
          perms[n] # None /\ \E t \in Script \ run[s].before : perms[n] = run[t].version
    BY <1>1 DEF ScriptOK
  <2>2. s \notin run[s].before /\ \A t \in run[s].before : run[t].pc \in Ended
    BY <1>1 DEF ScriptOK
  <2>3. \A t \in run[s].before : run'[t].pc \in Ended
    <3>1. \A t \in run[s].before : t \in Script \ {s} /\ run[t].pc # "wait"
      BY <1>1, <2>2 DEF Ended, RunRecord
    <3> QED
      BY <2>2, <3>1
  <2>4. \A n \in Role : Done(s, n)' =>
          perms'[n] # None /\ \E t \in Script \ run[s].before : perms'[n] = run'[t].version
    BY <1>1, <1>2, <1>3, <1>4, <1>6, <2>1, <2>2
  <2>5. run'[s].version # None /\ run'[s].pc \in {"role", "admin"}
    BY <1>1, <1>2 DEF ScriptOK
  <2> QED
    BY <1>2, <2>2, <2>3, <2>4, <2>5 DEF ScriptOK, Writing
<1>8. OwnerIsReady'
  BY <1>1, <1>3, RoleFacts DEF OwnerIsReady
<1>9. ASSUME \A t \in Script : run'[t].pc # "died" PROVE LeadOK'
  <2>1. LeadOK
    BY <1>1, <1>9 DEF SyncInv, Ended
  <2>2. \A t \in Script, n \in Role : Done(t, n) => Done(t, n)'
    <3>1. \A t \in Script \ {s}, n \in Role : Done(t, n) => Done(t, n)'
      BY DEF Done, AtRoles, PastRoles, Writing
    <3> QED
      BY <1>5, <3>1
  <2>3. \A n \in Role : perms'[n] # None => SomePast(n)'
    BY <1>3, <1>5, <2>1, <2>2 DEF LeadOK, SomePast
  <2>4. \A t \in Script : run'[t].pc = "clash" => SomePast(run[t].role)' /\ run'[t].role = run[t].role
    <3> SUFFICES ASSUME NEW t \in Script, run'[t].pc = "clash"
                 PROVE  SomePast(run[t].role)' /\ run'[t].role = run[t].role
      OBVIOUS
    <3>1. t # s /\ run'[t].role = run[t].role /\ run[t].role \in Role
      BY <1>1, <1>2 DEF TypeOK, RunRecord
    <3>2. CASE run'[t] = run[t]
      <4>1. PICK u \in Script : Done(u, run[t].role)
        BY <2>1, <3>1, <3>2 DEF LeadOK, SomePast
      <4>2. Done(u, run[t].role)'
        BY <2>2, <3>1, <3>2, <4>1 DEF Done
      <4> QED
        BY <3>1, <4>2 DEF SomePast
    <3>3. CASE run[t].role = m
      <4>1. m \in Nat
        BY <1>1, RoleFacts
      <4>2. run'[s].pc \in PastRoles \/ (run'[s].pc \in AtRoles /\ m < run'[s].role)
        BY <1>2, <4>1 DEF AtRoles, PastRoles
      <4>3. Done(s, run[t].role)'
        BY <3>1, <3>3, <4>2 DEF Done
      <4> QED
        BY <3>1, <4>3 DEF SomePast
    <3> QED
      BY <3>1, <3>2, <3>3
  <2>5. run'[s].pc \in AtRoles \cup PastRoles /\ Running(s)'
    BY <1>2 DEF Running, Ended, AtRoles, PastRoles
  <2>6. "user" \in admin' =>
          \E t \in Script : run'[t].pc \in Writing \/ (run'[t].pc = "ok" /\ admin' = Facts)
    <3> SUFFICES ASSUME "user" \in admin
                 PROVE  \E t \in Script : run'[t].pc \in Writing \/ (run'[t].pc = "ok" /\ admin = Facts)
      OBVIOUS
    <3>1. PICK t \in Script : run[t].pc \in Writing \/ (run[t].pc = "ok" /\ admin = Facts)
      BY <2>1 DEF LeadOK
    <3>2. t # s /\ run'[t] = run[t]
      BY <3>1 DEF Writing
    <3> QED
      BY <3>1, <3>2
  <2> QED
    BY <2>3, <2>4, <2>5, <2>6 DEF LeadOK, SomePast
<1> QED
  BY <1>1, <1>3, <1>2, <1>7, <1>8, <1>9, Keeps

LEMMA StartIInv ==
  ASSUME SyncInv, NEW s \in Script, NEW v \in Version, Start(s, v)
  PROVE  SyncInv'
<1> DEFINE old == {t \in Script : run[t].pc \in Ended}
<1> DEFINE x == [run[s] EXCEPT !.pc = "tenant", !.version = v, !.before = old]
<1>1. /\ TypeOK /\ OwnerIsReady /\ ScriptOK(s) /\ run[s] \in RunRecord /\ run[s].pc = "idle"
      /\ UNCHANGED <<tenant, perms, admin>> /\ run' = [run EXCEPT ![s] = x]
  BY DEF SyncInv, TypeOK, Start
<1>2. /\ run'[s] = x /\ \A t \in Script \ {s} : run'[t] = run[t]
      /\ x \in RunRecord /\ x.pc = "tenant" /\ x.version = v /\ x.before = old
      /\ x.role = run[s].role
  BY <1>1 DEF TypeOK, RunRecord, Pc
<1> HIDE DEF x
<1>3. TypeOK'
  BY <1>1, <1>2 DEF TypeOK
<1>4. ScriptOK(s)' /\ OwnerIsReady'
  <2>1. \A n \in Role : ~Done(s, n)'
    BY <1>2 DEF Done, AtRoles, PastRoles, Writing
  <2>2. s \notin old /\ \A t \in old : run'[t].pc \in Ended
    BY <1>1, <1>2 DEF Ended
  <2>3. x.version # None /\ x.role = 1
    BY <1>1, <1>2, NullAssumption DEF ScriptOK
  <2> QED
    BY <1>1, <1>2, <2>1, <2>2, <2>3 DEF ScriptOK, OwnerIsReady, Writing
<1>5. ASSUME \A t \in Script : run'[t].pc # "died" PROVE LeadOK'
  <2>1. LeadOK
    BY <1>1, <1>2, <1>5 DEF SyncInv
  <2>2. \A t \in Script : \A n : Done(t, n) => t # s /\ Done(t, n)'
    BY <1>1, <1>2 DEF Done, AtRoles, PastRoles, Writing
  <2>3. \A n \in Role : perms'[n] # None => SomePast(n)'
    BY <1>1, <2>1, <2>2 DEF LeadOK, SomePast
  <2>4. \A t \in Script : run'[t].pc = "clash" => SomePast(run[t].role)' /\ run'[t].role = run[t].role
    <3> SUFFICES ASSUME NEW t \in Script, run'[t].pc = "clash"
                 PROVE  SomePast(run[t].role)' /\ run'[t].role = run[t].role
      OBVIOUS
    <3>1. t # s /\ run'[t] = run[t]
      BY <1>2
    <3>2. PICK u \in Script : Done(u, run[t].role)
      BY <2>1, <3>1 DEF LeadOK, SomePast
    <3>3. u # s
      BY <2>2, <3>2
    <3>4. Done(u, run[t].role)'
      BY <1>2, <3>1, <3>2, <3>3 DEF Done
    <3> QED
      BY <3>1, <3>4 DEF SomePast
  <2>5. Running(s)'
    BY <1>2 DEF Running, Ended
  <2>6. tenant' => \E t \in Script : run'[t].pc \in AtRoles \cup PastRoles
    BY <1>1, <1>2, <2>1 DEF LeadOK, AtRoles, PastRoles, Writing
  <2>7. "user" \in admin' =>
          \E t \in Script : run'[t].pc \in Writing \/ (run'[t].pc = "ok" /\ admin' = Facts)
    BY <1>1, <1>2, <2>1 DEF LeadOK, Writing
  <2> QED
    BY <2>3, <2>4, <2>5, <2>6, <2>7 DEF LeadOK, SomePast
<1>6. run[s].pc \notin Ended
  BY <1>1 DEF Ended
<1> QED
  BY <1>1, <1>2, <1>3, <1>4, <1>5, <1>6, Keeps

LEMMA DieIInv ==
  ASSUME SyncInv, NEW s \in Script, Die(s)
  PROVE  SyncInv'
<1>1. /\ TypeOK /\ OwnerIsReady /\ ScriptOK(s) /\ run[s] \in RunRecord
      /\ run[s].pc \notin Ended /\ run[s].pc # "idle" /\ UNCHANGED <<tenant, perms, admin>>
  BY DEF SyncInv, TypeOK, Die, Running
<1>2. /\ \A t \in Script \ {s} :
           run'[t] = run[t] \/ (run[t].pc = "wait" /\ run'[t] = [run[t] EXCEPT !.pc = "clear"])
      /\ run'[s] = [run[s] EXCEPT !.pc = "died"]
      /\ run' = [t \in Script |-> run'[t]]
  BY DEF Die
<1>3. \A t \in Script : run[t] \in RunRecord
  BY <1>1 DEF TypeOK
<1>4. \A t \in Script : run'[t] \in RunRecord
  <2>1. \A t \in Script, pc \in {"clear", "died"} : [run[t] EXCEPT !.pc = pc] \in RunRecord
    BY <1>3 DEF RunRecord, Pc, AtRoles
  <2> QED
    BY <1>2, <1>3, <2>1
<1>5. TypeOK'
  BY <1>1, <1>2, <1>4 DEF TypeOK
<1>6. \A t \in Script \ {s} :
        \/ run'[t] = run[t]
        \/ /\ run[t].pc = "wait" /\ run'[t].pc \in {"clear", "clash"}
           /\ run'[t].role = run[t].role /\ run'[t].version = run[t].version
           /\ run'[t].before = run[t].before
  BY <1>2, <1>3 DEF RunRecord
<1>7. /\ run'[s].pc = "died" /\ run'[s].version = run[s].version
      /\ run'[s].before = run[s].before
  BY <1>1, <1>2 DEF RunRecord
<1>8. ScriptOK(s)' /\ OwnerIsReady'
  <2>1. \A n \in Role : ~Done(s, n)'
    BY <1>7 DEF Done, AtRoles, PastRoles, Writing
  <2>2. \A t \in run[s].before : t \in Script \ {s} /\ run[t].pc \in Ended /\ run[t].pc # "wait"
    BY <1>1 DEF ScriptOK, Ended, RunRecord
  <2>3. s \notin run'[s].before /\ \A t \in run'[s].before : run'[t].pc \in Ended
    BY <1>1, <1>6, <1>7, <2>2 DEF ScriptOK
  <2>4. run'[s].version # None
    BY <1>1, <1>7 DEF ScriptOK
  <2> QED
    BY <1>1, <1>7, <2>1, <2>3, <2>4 DEF ScriptOK, OwnerIsReady, Writing
<1> QED
  BY <1>1, <1>5, <1>6, <1>7, <1>8, Keeps


(* A script goes on where it is: it looks for a row, or writes one of the  *)
(* tenant or the admin.                                                    *)
LEMMA OnIInv ==
  ASSUME SyncInv, NEW s \in Script, NEW pc \in Pc \ {"clash"}, NEW made \in BOOLEAN, Running(s),
         run' = [run EXCEPT ![s] = [run[s] EXCEPT !.pc = pc, !.made = made]],
         perms' = perms, tenant' \in BOOLEAN, admin' \in SUBSET Facts, admin \subseteq admin',
         \/ run[s].pc \in {"tenant", "create_tenant"} /\ pc \in {"create_tenant", "role"}
         \/ run[s].pc \in AtRoles /\ pc \in AtRoles
         \/ run[s].pc \in PastRoles /\ pc \in PastRoles,
         tenant' => tenant \/ pc \in AtRoles \cup PastRoles,
         pc \in Writing \cup {"ok"} => "user" \in admin',
         pc \in Writing \ {"credential"} => "credential" \in admin',
         run[s].pc \in Writing => pc \in Writing \/ (pc = "ok" /\ admin' = Facts),
         "user" \in admin' => "user" \in admin \/ pc \in Writing,
         "owner" \in admin' =>
           {"user", "credential"} \subseteq admin' /\ perms[Owner] # None
  PROVE  SyncInv'
<1> DEFINE x == [run[s] EXCEPT !.pc = pc, !.made = made]
<1>1. TypeOK /\ ScriptOK(s) /\ run[s] \in RunRecord
  BY DEF SyncInv, TypeOK
<1>2. /\ x \in RunRecord /\ x.pc = pc /\ x.role = run[s].role /\ x.version = run[s].version
      /\ x.before = run[s].before /\ run' = [run EXCEPT ![s] = x] /\ run'[s] = x
  BY <1>1 DEF RunRecord, TypeOK
<1> HIDE DEF x
<1>3. pc \in {"create_tenant"} \cup AtRoles \cup PastRoles
  BY DEF AtRoles
<1>4. \A n \in Role : Done(s, n)' <=> Done(s, n)
  <2> SUFFICES ASSUME NEW n \in Role PROVE Done(s, n)' <=> Done(s, n)
    OBVIOUS
  <2>1. n >= 1 /\ n \in Nat
    BY RolesAssumption DEF Role
  <2>2. Done(s, n)' <=> pc \in PastRoles \/ (pc \in AtRoles /\ n < run[s].role)
    BY <1>2 DEF Done
  <2>3. CASE run[s].pc \in {"tenant", "create_tenant"}
    <3>1. run[s].role = 1
      BY <1>1, <2>3 DEF ScriptOK
    <3>2. ~Done(s, n)
      BY <2>3 DEF Done, AtRoles, PastRoles, Writing
    <3>3. pc \notin PastRoles
      BY <2>3 DEF AtRoles, PastRoles, Writing
    <3> QED
      BY <2>1, <2>2, <3>1, <3>2, <3>3
  <2>4. CASE run[s].pc \in AtRoles /\ pc \in AtRoles
    <3>1. run[s].pc \notin PastRoles /\ pc \notin PastRoles
      BY <2>4 DEF AtRoles, PastRoles, Writing
    <3> QED
      BY <2>2, <2>4, <3>1 DEF Done
  <2>5. CASE run[s].pc \in PastRoles /\ pc \in PastRoles
    BY <2>2, <2>5 DEF Done
  <2> QED
    BY <2>3, <2>4, <2>5
<1>5. x.pc = "create_tenant" => x.role = 1
  BY <1>1, <1>2 DEF ScriptOK, AtRoles, PastRoles, Writing
<1>6. run[s].pc \in AtRoles \cup PastRoles => x.pc \in AtRoles \cup PastRoles
  BY <1>2 DEF AtRoles, PastRoles, Writing
<1> QED
  BY <1>2, <1>3, <1>4, <1>5, <1>6, Forward

(* The same for the steps that only choose the next statement.             *)
LEMMA GotoIInv ==
  ASSUME SyncInv, NEW s \in Script, NEW pc \in Pc \ {"clash"}, Running(s), Goto(s, pc),
         UNCHANGED <<tenant, perms, admin>>,
         \/ run[s].pc = "tenant" /\ pc = "role" /\ tenant
         \/ run[s].pc = "tenant" /\ pc = "create_tenant"
         \/ run[s].pc \in AtRoles /\ pc \in AtRoles
         \/ run[s].pc \in PastRoles /\ pc \in PastRoles,
         pc \in Writing \cup {"ok"} => "user" \in admin,
         pc \in Writing \ {"credential"} => "credential" \in admin,
         run[s].pc \in Writing => pc \in Writing
  PROVE  SyncInv'
<1>1. TypeOK /\ OwnerIsReady /\ run[s] \in RunRecord
  BY DEF SyncInv, TypeOK
<1>2. run' = [run EXCEPT ![s] = [run[s] EXCEPT !.pc = pc, !.made = run[s].made]]
  BY <1>1 DEF Goto, TypeOK, RunRecord
<1>3. tenant \in BOOLEAN /\ admin \in SUBSET Facts /\ run[s].made \in BOOLEAN
  BY <1>1 DEF TypeOK, RunRecord
<1>4. "owner" \in admin => {"user", "credential"} \subseteq admin /\ perms[Owner] # None
  BY <1>1 DEF OwnerIsReady
<1> QED
  BY <1>2, <1>3, <1>4, OnIInv

LEMMA NextRoleType ==
  ASSUME NEW r \in RunRecord
  PROVE  NextRole(r) \in RunRecord
<1>1. r.role \in Role /\ r.role \in Nat
  BY RoleFacts DEF RunRecord
<1>2. CASE r.role < Roles
  <2>1. r.role + 1 \in Role
    BY <1>1, <1>2, RolesAssumption DEF Role
  <2>2. "role" \in Pc
    BY DEF Pc, AtRoles
  <2>3. [[r EXCEPT !.role = r.role + 1] EXCEPT !.pc = "role"] \in RunRecord
    BY <2>1, <2>2 DEF RunRecord
  <2> QED
    BY <1>2, <2>1, <2>2 DEF NextRole, RunRecord
<1>3. CASE ~(r.role < Roles)
  BY <1>3 DEF NextRole, RunRecord, Pc, PastRoles
<1> QED
  BY <1>2, <1>3

(* Who is past the role that s is at leads s.                              *)
LEMMA PastLeads ==
  ASSUME TypeOK, NEW s \in Script, run[s].pc \in AtRoles, SomePast(run[s].role)
  PROVE  \E t \in Script \ {s} : /\ run[t].pc \in AtRoles \cup PastRoles
                                 /\ \A n \in Role : Done(s, n) => Done(t, n)
<1>1. PICK t \in Script : Done(t, run[s].role)
  BY DEF SomePast
<1>2. \A u \in Script : run[u].role \in Nat
  BY RoleFacts DEF TypeOK, RunRecord
<1>3. run[s].pc \notin PastRoles
  BY DEF AtRoles, PastRoles, Writing
<1>4. t # s
  BY <1>1, <1>2, <1>3 DEF Done
<1>5. \A n \in Role : Done(s, n) => Done(t, n)
  BY <1>1, <1>2, <1>3, RoleFacts DEF Done
<1> QED
  BY <1>1, <1>4, <1>5 DEF Done

LEMMA StepIInv ==
  ASSUME SyncInv, NEW s \in Script, Step(s)
  PROVE  SyncInv'
<1>1. /\ TypeOK /\ OwnerIsReady /\ ScriptOK(s) /\ run[s] \in RunRecord
      /\ (\A t \in Script : run[t].pc # "died") => LeadOK
  BY DEF SyncInv, TypeOK
<1>2. tenant \in BOOLEAN /\ admin \in SUBSET Facts /\ run[s].made \in BOOLEAN /\ run[s].role \in Role
  BY <1>1 DEF TypeOK, RunRecord
<1>3. "owner" \in admin => {"user", "credential"} \subseteq admin /\ perms[Owner] # None
  BY <1>1 DEF OwnerIsReady
<1> USE DEF AtRoles, PastRoles, Writing, Pc
<1>4. CASE FindTenant(s)
  <2>1. Running(s) /\ run[s].pc = "tenant" /\ UNCHANGED <<tenant, perms, admin>>
    BY <1>4 DEF FindTenant, Running, Ended
  <2>2. Goto(s, IF tenant THEN "role" ELSE "create_tenant")
    BY <1>4 DEF FindTenant
  <2>3. CASE tenant
    <3>1. Goto(s, "role")
      BY <2>2, <2>3
    <3> QED
      BY <2>1, <2>3, <3>1, GotoIInv
  <2>4. CASE ~tenant
    <3>1. Goto(s, "create_tenant")
      BY <2>2, <2>4
    <3> QED
      BY <2>1, <3>1, GotoIInv
  <2> QED
    BY <2>3, <2>4
<1>5. CASE CreateTenant(s)
  <2>1. Running(s) /\ run[s].pc = "create_tenant" /\ UNCHANGED <<perms, admin>> /\ tenant' = TRUE
    BY <1>5 DEF CreateTenant, Running, Ended
  <2>2. CASE tenant
    <3>1. run' = [run EXCEPT ![s].pc = "failed"] /\ UNCHANGED tenant
      BY <1>2, <1>5, <2>1, <2>2 DEF CreateTenant, Goto
    <3>2. (\A t \in Script : run[t].pc # "died") =>
            \E t \in Script \ {s} : run[t].pc \in AtRoles \cup PastRoles
      BY <1>1, <2>1, <2>2 DEF LeadOK
    <3>3. \A n : ~Done(s, n)
      BY <2>1 DEF Done
    <3> QED
      BY <2>1, <3>1, <3>2, <3>3, Behind
  <2>3. CASE ~tenant
    <3>1. run' = [run EXCEPT ![s] = [run[s] EXCEPT !.pc = "role", !.made = run[s].made]]
      BY <1>1, <1>5, <2>3 DEF CreateTenant, Goto, TypeOK, RunRecord
    <3> QED
      BY <1>2, <1>3, <2>1, <3>1, OnIInv
  <2> QED
    BY <2>2, <2>3
<1>6. CASE FindRole(s)
  <2>1. Running(s) /\ run[s].pc = "role" /\ UNCHANGED <<tenant, perms, admin>>
    BY <1>6 DEF FindRole, Running, Ended
  <2>2. Goto(s, "create_role") \/ Goto(s, "clear")
    BY <1>6 DEF FindRole
  <2> QED
    BY <2>1, <2>2, GotoIInv
<1>7. CASE CreateRole(s)
  <2>1. Running(s) /\ run[s].pc = "create_role" /\ UNCHANGED <<tenant, admin>>
    BY <1>7 DEF CreateRole, Running, Ended
  <2>2. CASE perms[run[s].role] = None
    <3>1. /\ perms' = [perms EXCEPT ![run[s].role] = run[s].version]
          /\ run' = [run EXCEPT ![s] = NextRole(run[s])]
      BY <1>1, <1>7, <2>2 DEF CreateRole, TypeOK
    <3>2. NextRole(run[s]) \in RunRecord
      BY <1>1, NextRoleType
    <3>3. run[s].version \in Version
      BY <1>1, <2>1 DEF ScriptOK, RunRecord
    <3>4. TypeOK' /\ run'[s] = NextRole(run[s]) /\ \A t \in Script \ {s} : run'[t] = run[t]
      BY <1>1, <2>1, <3>1, <3>2, <3>3 DEF TypeOK
    <3> QED
      BY <2>1, <3>1, <3>4, WriteIInv
  <2>3. CASE perms[run[s].role] # None
    <3>1. run' = [run EXCEPT ![s].pc = "failed"] /\ UNCHANGED perms
      BY <1>7, <2>3 DEF CreateRole, Goto
    <3>2. (\A t \in Script : run[t].pc # "died") => SomePast(run[s].role)
      BY <1>1, <1>2, <2>3 DEF LeadOK
    <3> QED
      BY <1>1, <2>1, <3>1, <3>2, Behind, PastLeads
  <2> QED
    BY <2>2, <2>3
<1>8. CASE Clear(s)
  <2>1. Running(s) /\ run[s].pc = "clear" /\ UNCHANGED <<tenant, perms, admin>>
    BY <1>8 DEF Clear, Running, Ended
  <2>2. Goto(s, "wait") \/ Goto(s, "fill")
    BY <1>8 DEF Clear
  <2> QED
    BY <2>1, <2>2, GotoIInv
<1>9. CASE Fill(s)
  <2>1. run[s].pc = "fill" /\ UNCHANGED <<tenant, admin>>
        /\ perms' = [perms EXCEPT ![run[s].role] = run[s].version]
    BY <1>9 DEF Fill
  <2>2. /\ run'[s] = NextRole(run[s]) /\ run' = [t \in Script |-> run'[t]]
        /\ \A t \in Script \ {s} :
             \/ run'[t] = run[t]
             \/ /\ run[t].pc = "wait" /\ run[t].role = run[s].role
                /\ run'[t] = [run[t] EXCEPT !.pc = "clash"]
    BY <1>9 DEF Fill
  <2>3. \A t \in Script : run[t] \in RunRecord /\ [run[t] EXCEPT !.pc = "clash"] \in RunRecord
    BY <1>1 DEF TypeOK, RunRecord
  <2>4. NextRole(run[s]) \in RunRecord
    BY <1>1, NextRoleType
  <2>5. run[s].version \in Version
    BY <1>1, <2>1 DEF ScriptOK, RunRecord
  <2>6. TypeOK'
    <3>1. \A t \in Script : run'[t] \in RunRecord
      BY <2>2, <2>3, <2>4
    <3>2. run' \in [Script -> RunRecord]
      BY <2>2, <3>1
    <3>3. perms' \in [Role -> Version \cup {None, Bare}]
      BY <1>1, <2>1, <2>5 DEF TypeOK
    <3> QED
      BY <1>1, <2>1, <3>2, <3>3 DEF TypeOK
  <2>7. \A t \in Script \ {s} :
          \/ run'[t] = run[t]
          \/ /\ run[t].pc = "wait" /\ run'[t].pc = "clash" /\ run[t].role = run[s].role
             /\ run'[t].role = run[t].role /\ run'[t].version = run[t].version
             /\ run'[t].before = run[t].before
    BY <2>2, <2>3 DEF RunRecord
  <2> QED
    BY <2>1, <2>2, <2>6, <2>7, WriteIInv
<1>10. CASE Clash(s)
  <2>1. Running(s) /\ run[s].pc = "clash" /\ UNCHANGED <<tenant, perms, admin>>
        /\ run' = [run EXCEPT ![s].pc = "failed"]
    BY <1>10 DEF Clash, Goto, Running, Ended
  <2>2. (\A t \in Script : run[t].pc # "died") => SomePast(run[s].role)
    BY <1>1, <2>1 DEF LeadOK
  <2> QED
    BY <1>1, <2>1, <2>2, Behind, PastLeads
<1>11. ASSUME "user" \in admin, run[s].pc \notin Writing \cup {"ok"}
       PROVE  (\A t \in Script : run[t].pc # "died") =>
                \E t \in Script \ {s} :
                  /\ run[t].pc \in AtRoles \cup PastRoles
                  /\ \A n \in Role : Done(s, n) => Done(t, n)
  BY <1>1, <1>11 DEF LeadOK, Done
<1>12. CASE FindAdmin(s)
  <2>1. Running(s) /\ run[s].pc = "admin" /\ UNCHANGED <<tenant, perms, admin>>
    BY <1>12 DEF FindAdmin, Running, Ended
  <2>2. ("user" \in admin /\ Goto(s, "ok")) \/ Goto(s, "register")
    BY <1>12 DEF FindAdmin
  <2> QED
    BY <2>1, <2>2, GotoIInv
<1>13. CASE Register(s)
  <2>1. Running(s) /\ run[s].pc = "register" /\ UNCHANGED <<tenant, perms, admin>>
    BY <1>13 DEF Register, Running, Ended
  <2>2. CASE "user" \in admin
    <3>1. run' = [run EXCEPT ![s].pc = "failed"]
      BY <1>13, <2>2 DEF Register, Goto
    <3> QED
      BY <1>11, <2>1, <2>2, <3>1, Behind
  <2>3. CASE "user" \notin admin
    <3>1. Goto(s, "create_user")
      BY <1>13, <2>3 DEF Register
    <3> QED
      BY <2>1, <3>1, GotoIInv
  <2> QED
    BY <2>2, <2>3
<1>14. CASE CreateUser(s)
  <2>1. Running(s) /\ run[s].pc = "create_user" /\ UNCHANGED <<tenant, perms>>
        /\ admin' = admin \cup {"user"}
    BY <1>14 DEF CreateUser, Running, Ended
  <2>2. CASE "user" \in admin
    <3>1. run' = [run EXCEPT ![s].pc = "failed"] /\ UNCHANGED admin
      BY <1>14, <2>1, <2>2 DEF CreateUser, Goto
    <3> QED
      BY <1>11, <2>1, <2>2, <3>1, Behind
  <2>3. CASE "user" \notin admin
    <3>1. run' = [run EXCEPT ![s] = [run[s] EXCEPT !.pc = "credential", !.made = TRUE]]
      BY <1>1, <1>14, <2>3 DEF CreateUser, TypeOK
    <3>2. admin' \in SUBSET Facts /\ "owner" \notin admin'
      BY <1>2, <1>3, <2>1, <2>3 DEF Facts
    <3> QED
      BY <1>2, <2>1, <3>1, <3>2, OnIInv
  <2> QED
    BY <2>2, <2>3
<1>15. CASE StoreCredential(s)
  <2>1. Running(s) /\ run[s].pc = "credential" /\ UNCHANGED <<tenant, perms>>
        /\ admin' = admin \cup {"credential"}
    BY <1>15 DEF StoreCredential, Running, Ended
  <2>2. run' = [run EXCEPT ![s] = [run[s] EXCEPT !.pc = "audit", !.made = run[s].made]]
    BY <1>1, <1>15 DEF StoreCredential, Goto, TypeOK, RunRecord
  <2>3. admin' \in SUBSET Facts /\ "user" \in admin
    BY <1>1, <1>2, <2>1 DEF Facts, ScriptOK
  <2> QED
    BY <1>2, <1>3, <2>1, <2>2, <2>3, OnIInv
<1>16. CASE RecordAudit(s)
  <2>1. Running(s) /\ run[s].pc = "audit" /\ UNCHANGED <<tenant, perms, admin>> /\ Goto(s, "owner_role")
    BY <1>16 DEF RecordAudit, Running, Ended
  <2> QED
    BY <1>1, <2>1, GotoIInv DEF ScriptOK
<1>17. CASE FindOwnerRole(s)
  <2>1. Running(s) /\ run[s].pc = "owner_role" /\ UNCHANGED <<tenant, perms, admin>>
    BY <1>17 DEF FindOwnerRole, Running, Ended
  <2>2. perms[Owner] # None
    BY <1>1, <2>1, RoleFacts DEF ScriptOK, Done
  <2>3. Goto(s, "assign")
    BY <1>17, <2>2 DEF FindOwnerRole
  <2> QED
    BY <1>1, <2>1, <2>3, GotoIInv DEF ScriptOK
<1>18. CASE Assign(s)
  <2>1. Running(s) /\ run[s].pc = "assign" /\ UNCHANGED <<tenant, perms>>
        /\ admin' = admin \cup {"owner"}
    BY <1>18 DEF Assign, Running, Ended
  <2>2. run' = [run EXCEPT ![s] = [run[s] EXCEPT !.pc = "ok", !.made = run[s].made]]
    BY <1>1, <1>18 DEF Assign, Goto, TypeOK, RunRecord
  <2>3. perms[Owner] # None
    BY <1>1, <2>1, RoleFacts DEF ScriptOK, Done
  <2>4. admin' = Facts
    BY <1>1, <1>2, <2>1 DEF Facts, ScriptOK
  <2> QED
    BY <1>2, <2>1, <2>2, <2>3, <2>4, OnIInv DEF Facts
<1> QED
  BY <1>4, <1>5, <1>6, <1>7, <1>8, <1>9, <1>10, <1>12, <1>13, <1>14, <1>15, <1>16, <1>17, <1>18
     DEF Step

(* Init establishes SyncInv and every step keeps it.                          *)
LEMMA InitSyncInv == Init => SyncInv
<1> SUFFICES ASSUME Init PROVE SyncInv
  OBVIOUS
<1>1. Fresh \in RunRecord /\ Fresh.pc = "idle" /\ Fresh.version = None /\ Fresh.before = {}
      /\ Fresh.role = 1
  BY RolesAssumption DEF Fresh, RunRecord, Pc, Role
<1>2. TypeOK /\ \A s \in Script : run[s] = Fresh
  BY <1>1 DEF Init, TypeOK
<1>3. \A s \in Script : ScriptOK(s)
  BY <1>1, <1>2 DEF ScriptOK, Done, AtRoles, PastRoles, Writing
<1>4. RolesAreWhole /\ OwnerIsReady
  BY NullAssumption DEF Init, RolesAreWhole, OwnerIsReady
<1>5. LeadOK
  BY <1>1, <1>2 DEF Init, LeadOK
<1> QED
  BY <1>2, <1>3, <1>4, <1>5 DEF SyncInv

LEMMA NextSyncInv == SyncInv /\ [Next]_vars => SyncInv'
<1> SUFFICES ASSUME SyncInv, [Next]_vars PROVE SyncInv'
  OBVIOUS
<1>1. CASE Next
  BY <1>1, StepIInv, DieIInv, StartIInv DEF Next
<1>2. CASE UNCHANGED vars
  BY <1>2 DEF vars, SyncInv, TypeOK, RolesAreWhole, OwnerIsReady, ScriptOK, Done, LeadOK, SomePast,
              Running
<1> QED
  BY <1>1, <1>2

-------------------------------------------------------------------------------
(* The locks.  s, which is not waiting, moves; the others stand where they *)
(* stood, unless s held the rows they waited for.                          *)
LEMMA LockStep ==
  ASSUME TypeOK, LockOK, NEW s \in Script, run[s].pc # "wait",
         \A t \in Script \ {s} :
           run'[t] = run[t] \/ (run[t].pc = "wait" /\ run'[t].pc \in {"clear", "clash"}),
         run'[s].pc = "fill" => ~Locked(s) /\ run'[s].role = run[s].role,
         run'[s].pc = "wait" =>
           Locked(s) /\ run'[s].role = run[s].role /\ \A t \in Script \ {s} : run'[t] = run[t],
         run[s].pc = "fill" =>
           \A t \in Script : run[t].pc = "wait" /\ run[t].role = run[s].role => run'[t].pc # "wait"
  PROVE  LockOK'
<1>1. ASSUME NEW t \in Script, NEW u \in Script, t # u,
             run'[t].pc = "fill", run'[u].pc = "fill", run'[t].role = run'[u].role
      PROVE  FALSE
  <2>1. CASE t # s /\ u # s
    BY <1>1, <2>1 DEF LockOK
  <2>2. CASE t = s
    BY <1>1, <2>2 DEF Locked
  <2>3. CASE u = s
    BY <1>1, <2>3 DEF Locked
  <2> QED
    BY <2>1, <2>2, <2>3
<1>2. ASSUME NEW t \in Script, run'[t].pc = "wait" PROVE Locked(t)'
  <2>1. CASE t = s
    BY <1>2, <2>1 DEF Locked
  <2>2. CASE t # s
    <3>1. run'[t] = run[t] /\ run[t].pc = "wait"
      BY <1>2, <2>2
    <3>2. PICK h \in Script \ {t} : run[h].pc = "fill" /\ run[h].role = run[t].role
      BY <3>1 DEF LockOK, Locked
    <3>3. h # s
      BY <1>2, <3>1, <3>2
    <3>4. run'[h] = run[h]
      BY <3>2, <3>3
    <3> QED
      BY <3>1, <3>2, <3>4 DEF Locked
  <2> QED
    BY <2>1, <2>2
<1> QED
  BY <1>1, <1>2 DEF LockOK

LEMMA InitLockOK == Init => LockOK
BY DEF Init, Fresh, LockOK

(* Every step keeps the locks.                                             *)
LEMMA NextLockOK == TypeOK /\ LockOK /\ [Next]_vars => LockOK'
<1> SUFFICES ASSUME TypeOK, LockOK, [Next]_vars PROVE LockOK'
  OBVIOUS
<1>1. \A t \in Script : run[t] \in RunRecord
  BY DEF TypeOK
<1>2. ASSUME NEW s \in Script, Clear(s) PROVE LockOK'
  <2>1. /\ run'[s].pc = (IF Locked(s) THEN "wait" ELSE "fill") /\ run'[s].role = run[s].role
        /\ \A t \in Script \ {s} : run'[t] = run[t]
    BY <1>1, <1>2 DEF Clear, Goto, TypeOK, RunRecord
  <2> QED
    BY <1>2, <2>1, LockStep DEF Clear
<1>3. ASSUME NEW s \in Script, Fill(s) PROVE LockOK'
  <2>1. NextRole(run[s]).pc \notin {"wait", "fill"}
    BY <1>1 DEF NextRole, RunRecord
  <2>2. /\ run[s].pc = "fill" /\ run'[s] = NextRole(run[s])
        /\ \A t \in Script \ {s} :
             run'[t] = IF run[t].pc = "wait" /\ run[t].role = run[s].role
                       THEN [run[t] EXCEPT !.pc = "clash"] ELSE run[t]
    BY <1>3 DEF Fill
  <2>3. \A t \in Script : [run[t] EXCEPT !.pc = "clash"].pc = "clash"
    BY <1>1 DEF RunRecord
  <2> QED
    BY <2>1, <2>2, <2>3, LockStep
<1>4. ASSUME NEW s \in Script, Die(s) PROVE LockOK'
  <2>1. /\ run'[s] = [run[s] EXCEPT !.pc = "died"]
        /\ \A t \in Script \ {s} :
             run'[t] = IF run[s].pc = "fill" /\ run[t].pc = "wait" /\ run[t].role = run[s].role
                       THEN [run[t] EXCEPT !.pc = "clear"] ELSE run[t]
    BY <1>4 DEF Die
  <2>2. /\ run'[s].pc = "died"
        /\ \A t \in Script : [run[t] EXCEPT !.pc = "clear"].pc = "clear"
    BY <1>1, <2>1 DEF RunRecord
  <2>3. CASE run[s].pc # "wait"
    <3>1. \A t \in Script \ {s} :
            run'[t] = run[t] \/ (run[t].pc = "wait" /\ run'[t].pc \in {"clear", "clash"})
      BY <2>1, <2>2
    <3>2. run[s].pc = "fill" =>
            \A t \in Script : run[t].pc = "wait" /\ run[t].role = run[s].role => run'[t].pc # "wait"
      BY <2>1, <2>2
    <3> QED
      BY <2>2, <2>3, <3>1, <3>2, LockStep
  <2>4. CASE run[s].pc = "wait"
    <3>1. \A t \in Script \ {s} : run'[t] = run[t]
      BY <2>1, <2>4
    <3>2. \A t \in Script : Locked(t) => t = s \/ Locked(t)'
      BY <2>4, <3>1 DEF Locked
    <3> QED
      BY <2>2, <3>1, <3>2 DEF LockOK
  <2> QED
    BY <2>3, <2>4
<1>5. ASSUME NEW s \in Script, NEW v \in Version, Start(s, v) PROVE LockOK'
  <2>1. /\ run[s].pc = "idle" /\ run'[s].pc = "tenant"
        /\ \A t \in Script \ {s} : run'[t] = run[t]
    BY <1>1, <1>5 DEF Start, TypeOK, RunRecord
  <2> QED
    BY <2>1, LockStep
<1>6. ASSUME NEW s \in Script, Step(s), ~Clear(s), ~Fill(s) PROVE LockOK'
  <2>1. run[s].pc \notin {"wait", "fill"} /\ NextRole(run[s]).pc \notin {"wait", "fill"}
    BY <1>1, <1>6 DEF Step, FindTenant, CreateTenant, FindRole, CreateRole, Clear, Fill, Clash,
       FindAdmin, Register, CreateUser, StoreCredential, RecordAudit, FindOwnerRole, Assign,
       NextRole, RunRecord
  <2>2. run'[s].pc \notin {"wait", "fill"} /\ \A t \in Script \ {s} : run'[t] = run[t]
    BY <1>1, <1>6, <2>1 DEF Step, FindTenant, CreateTenant, FindRole, CreateRole, Clash,
       FindAdmin, Register, CreateUser, StoreCredential, RecordAudit, FindOwnerRole, Assign,
       Goto, TypeOK, RunRecord
  <2> QED
    BY <2>1, <2>2, LockStep
<1>7. CASE UNCHANGED vars
  BY <1>7 DEF vars, LockOK, Locked
<1> QED
  BY <1>2, <1>3, <1>4, <1>5, <1>6, <1>7 DEF Next

THEOREM Invariance == Spec => []IInv
<1>1. Init => IInv
  BY InitSyncInv, InitLockOK DEF IInv
<1>2. IInv /\ [Next]_vars => IInv'
  BY NextSyncInv, NextLockOK DEF IInv, SyncInv
<1> QED
  BY <1>1, <1>2, PTL DEF Spec

(* No moment of an upgrade leaves a role without its permissions.          *)
THEOREM RolesStayWhole == Spec => []RolesAreWhole
<1>1. IInv => RolesAreWhole
  BY DEF IInv, SyncInv
<1> QED
  BY <1>1, Invariance, PTL

(* A script past the roles has brought all of them up to date.             *)
THEOREM RolesGetSynced == Spec => []RolesAreSynced
<1>1. IInv => RolesAreSynced
  BY DEF IInv, SyncInv, RolesAreSynced, ScriptOK, Done
<1> QED
  BY <1>1, Invariance, PTL

(* Who has the owner role can log in.                                      *)
THEOREM OwnersAreReady == Spec => []OwnerIsReady
<1>1. IInv => OwnerIsReady
  BY DEF IInv, SyncInv
<1> QED
  BY <1>1, Invariance, PTL

(* Scripts that do not die do not all fail on each other's rows.           *)
THEOREM SomeScriptGetsThrough == Spec => []OneGetsThrough
<1>1. IInv => OneGetsThrough
  <2> SUFFICES ASSUME IInv, NEW u \in Script, run[u].pc # "idle",
                      \A s \in Script : run[s].pc \in Ended \cup {"idle"} /\ run[s].pc # "died"
               PROVE  admin = Facts /\ \E s \in Script : run[s].pc = "ok"
    BY DEF OneGetsThrough
  <2>1. LeadOK /\ \A s \in Script : ~Running(s) /\ run[s].pc \notin Writing
    BY DEF IInv, SyncInv, Running, Ended, Writing
  <2>2. PICK s \in Script : run[s].pc = "ok"
    BY <2>1 DEF LeadOK
  <2>3. "user" \in admin
    BY <2>2 DEF IInv, SyncInv, ScriptOK
  <2> QED
    BY <2>1, <2>2, <2>3 DEF LeadOK
<1> QED
  BY <1>1, Invariance, PTL

(* No deadlock: the transaction that a script waits for is under way, and  *)
(* its own next statement does not wait.                                   *)
THEOREM WaitsAreForTheReady == Spec => []NobodyWaitsInVain
<1>1. IInv => NobodyWaitsInVain
  BY DEF IInv, LockOK, Locked, NobodyWaitsInVain, Ready, Running, Ended
<1> QED
  BY <1>1, Invariance, PTL
-------------------------------------------------------------------------------
(* Runs end.  Where a script stands, where its next step may take it, and  *)
(* what comes after role n.                                                *)
Over(s)   == run[s].pc \in Ended
Where(s)  == <<run[s].pc, run[s].role>>
NextAt(n) == IF n < Roles THEN <<"role", n + 1>> ELSE <<"admin", n>>
After(pc, n) ==
  CASE pc = "tenant"        -> {<<"create_tenant", n>>, <<"role", n>>}
    [] pc = "create_tenant" -> {<<"role", n>>}
    [] pc = "role"          -> {<<"create_role", n>>, <<"clear", n>>}
    [] pc = "create_role"   -> {NextAt(n)}
    [] pc = "clear"         -> {<<"wait", n>>, <<"fill", n>>}
    [] pc = "fill"          -> {NextAt(n)}
    [] pc = "admin"         -> {<<"register", n>>}
    [] pc = "register"      -> {<<"create_user", n>>}
    [] pc = "create_user"   -> {<<"credential", n>>}
    [] pc = "credential"    -> {<<"audit", n>>}
    [] pc = "audit"         -> {<<"owner_role", n>>}
    [] pc = "owner_role"    -> {<<"assign", n>>}
    [] OTHER                -> {}
Moving == Pc \ ({"idle", "wait"} \cup Ended)

(* A step of s, if it does not end the script, takes it to where After says.*)
LEMMA StepGoes ==
  ASSUME TypeOK, NEW s \in Script, Step(s)
  PROVE  Where(s)' \in After(run[s].pc, run[s].role) \/ Over(s)'
<1>1. /\ run[s] \in RunRecord
      /\ NextRole(run[s]).pc = NextAt(run[s].role)[1] /\ NextRole(run[s]).role = NextAt(run[s].role)[2]
      /\ <<NextRole(run[s]).pc, NextRole(run[s]).role>> = NextAt(run[s].role)
  BY DEF TypeOK, NextRole, NextAt, RunRecord
<1>2. ASSUME NEW pc \in Pc, Goto(s, pc) PROVE run'[s].pc = pc /\ Where(s)' = <<pc, run[s].role>>
  BY <1>1, <1>2 DEF Goto, Where, TypeOK, RunRecord
<1>3. CASE FindTenant(s) \/ CreateTenant(s) \/ FindRole(s) \/ Clear(s) \/ Clash(s)
  BY <1>2, <1>3 DEF FindTenant, CreateTenant, FindRole, Clear, Clash, After, Over, Ended, Pc, AtRoles,
     PastRoles, Writing
<1>4. CASE CreateRole(s)
  <2>1. run'[s] = NextRole(run[s]) \/ Goto(s, "failed")
    BY <1>4 DEF CreateRole, TypeOK
  <2> QED
    BY <1>1, <1>2, <1>4, <2>1 DEF CreateRole, After, Over, Ended, Pc, Where
<1>5. CASE Fill(s)
  BY <1>1, <1>5 DEF Fill, After, Where
<1>6. CASE FindAdmin(s) \/ Register(s) \/ StoreCredential(s) \/ RecordAudit(s) \/ FindOwnerRole(s) \/ Assign(s)
  BY <1>2, <1>6 DEF FindAdmin, Register, StoreCredential, RecordAudit, FindOwnerRole, Assign, After,
     Over, Ended, Pc, AtRoles, PastRoles, Writing
<1>7. CASE CreateUser(s)
  BY <1>1, <1>2, <1>7 DEF CreateUser, After, Over, Ended, Pc, Where, TypeOK, RunRecord
<1> QED
  BY <1>3, <1>4, <1>5, <1>6, <1>7 DEF Step

(* A script that does not wait is moved by its own steps and its death.    *)
LEMMA OnlyItsStep ==
  ASSUME TypeOK, [Next]_vars, NEW s \in Script, run[s].pc \notin {"idle", "wait"}
  PROVE  run'[s] = run[s] \/ Step(s) \/ Over(s)'
<1>1. ASSUME NEW t \in Script, t # s, Step(t) PROVE run'[s] = run[s]
  BY <1>1 DEF Step, FindTenant, CreateTenant, FindRole, CreateRole, Clear, Fill, Clash, FindAdmin,
     Register, CreateUser, StoreCredential, RecordAudit, FindOwnerRole, Assign, Goto, TypeOK
<1>2. ASSUME NEW t \in Script, t # s, Die(t) PROVE run'[s] = run[s]
  BY <1>2 DEF Die, TypeOK
<1>3. ASSUME NEW t \in Script, NEW v \in Version, Start(t, v) PROVE run'[s] = run[s]
  BY <1>3 DEF Start, TypeOK
<1>4. ASSUME Die(s) PROVE Over(s)'
  BY <1>4 DEF Die, TypeOK, RunRecord, Over, Ended
<1> QED
  BY <1>1, <1>2, <1>3, <1>4 DEF Next, vars

(* Where it is not waiting, a script stays, ends or goes where After says, *)
(* and goes there or ends when it takes a step.                            *)
LEMMA Hop ==
  ASSUME IInv, [Next]_vars, NEW s \in Script, run[s].pc \in Moving
  PROVE  /\ Ready(s)
         /\ Where(s)' \in {Where(s)} \cup After(run[s].pc, run[s].role) \/ Over(s)'
         /\ Step(s) => Where(s)' \in After(run[s].pc, run[s].role) \/ Over(s)'
BY StepGoes, OnlyItsStep DEF IInv, SyncInv, Where, Moving, Ready, Running

(* t is the script that s waits for, at role n.                            *)
Holds(t, s, n) == t # s /\ Where(t) = <<"fill", n>> /\ Where(s) = <<"wait", n>>

LEMMA WaitersFate ==
  ASSUME IInv, [Next]_vars, NEW s \in Script, NEW t \in Script, NEW n \in Role, Holds(t, s, n)
  PROVE  \/ Holds(t, s, n)' \/ Over(s)'
         \/ Step(t) /\ Where(s)' = <<"clash", n>>
         \/ Die(t) /\ Where(s)' = <<"clear", n>>
<1>1. /\ TypeOK /\ t # s /\ run[t] \in RunRecord /\ run[s] \in RunRecord
      /\ run[t].pc = "fill" /\ run[t].role = n /\ run[s].pc = "wait" /\ run[s].role = n
      /\ \A u \in Script : run[u].pc = "fill" /\ run[u].role = n => u = t
  BY DEF IInv, SyncInv, LockOK, TypeOK, Holds, Where
<1>2. ASSUME run'[s] = run[s], run'[t] = run[t] PROVE Holds(t, s, n)'
  BY <1>2 DEF Holds, Where
<1>3. ASSUME NEW u \in Script, Step(u), u # t PROVE run'[s] = run[s] /\ run'[t] = run[t]
  BY <1>1, <1>3 DEF Step, FindTenant, CreateTenant, FindRole, CreateRole, Clear, Fill, Clash, FindAdmin,
     Register, CreateUser, StoreCredential, RecordAudit, FindOwnerRole, Assign, Goto, TypeOK
<1>4. ASSUME Step(t) PROVE Where(s)' = <<"clash", n>>
  <2>1. Fill(t)
    BY <1>1, <1>4 DEF Step, FindTenant, CreateTenant, FindRole, CreateRole, Clear, Fill, Clash, FindAdmin,
       Register, CreateUser, StoreCredential, RecordAudit, FindOwnerRole, Assign
  <2> QED
    BY <1>1, <2>1 DEF Fill, Where, RunRecord
<1>5. ASSUME Die(t) PROVE Where(s)' = <<"clear", n>>
  BY <1>1, <1>5 DEF Die, Where, RunRecord
<1>6. ASSUME Die(s) PROVE Over(s)'
  BY <1>1, <1>6 DEF Die, Over, Ended, RunRecord
<1>7. ASSUME NEW u \in Script, Die(u), u # s, u # t PROVE run'[s] = run[s] /\ run'[t] = run[t]
  BY <1>1, <1>7 DEF Die
<1>8. ASSUME NEW u \in Script, NEW v \in Version, Start(u, v) PROVE run'[s] = run[s] /\ run'[t] = run[t]
  BY <1>1, <1>8 DEF Start, TypeOK
<1> QED
  BY <1>2, <1>3, <1>4, <1>5, <1>6, <1>7, <1>8 DEF Next, vars

(* A script that has begun runs until it ends.                             *)
LEMMA StaysOn ==
  ASSUME IInv, [Next]_vars, NEW s \in Script, Running(s)
  PROVE  Running(s)' \/ Over(s)'
<1>1. CASE run[s].pc # "wait"
  <2>1. run[s].pc \in Moving /\ run[s] \in RunRecord
    BY <1>1 DEF IInv, SyncInv, TypeOK, RunRecord, Running, Moving
  <2>2. \A pc \in Pc, n \in Role : \A x \in After(pc, n) : x[1] \notin Ended \cup {"idle"}
    BY DEF After, NextAt, Ended
  <2>3. Where(s)' = Where(s) \/ Where(s)' \in After(run[s].pc, run[s].role) \/ Over(s)'
    BY <2>1, Hop
  <2> QED
    BY <2>1, <2>2, <2>3 DEF Where, Running, RunRecord
<1>2. CASE run[s].pc = "wait"
  <2>1. PICK t \in Script : Holds(t, s, run[s].role)
    BY <1>2 DEF IInv, LockOK, Locked, Holds, Where
  <2> QED
    BY <2>1, WaitersFate DEF IInv, SyncInv, TypeOK, RunRecord, Holds, Where, Running, Over, Ended
<1> QED
  BY <1>1, <1>2

(* A script that waits is released: it meets the rows of the one that it   *)
(* waited for, or its own turn has come.                                   *)
LEMMA HolderReleases ==
  ASSUME NEW s \in Script, NEW t \in Script, NEW n \in Role
  PROVE  Spec /\ Served(t) => [](Holds(t, s, n) => <>(run[s].pc # "wait"))
<1>1. IInv /\ [Next]_vars /\ Holds(t, s, n) => Holds(t, s, n)' \/ (run[s].pc # "wait")'
  BY WaitersFate DEF Where, Over, Ended
<1>2. IInv /\ [Next]_vars /\ Holds(t, s, n) /\ <<Step(t)>>_vars => (run[s].pc # "wait")'
  <2> SUFFICES ASSUME IInv, [Next]_vars, Holds(t, s, n), Step(t) PROVE run'[s].pc # "wait"
    OBVIOUS
  <2>1. Fill(t) /\ run[t].role = n /\ run[s].role = n /\ t # s /\ run[s] \in RunRecord
    BY DEF IInv, SyncInv, TypeOK, Holds, Where, Step, FindTenant, CreateTenant, FindRole, CreateRole,
       Clear, Fill, Clash, FindAdmin, Register, CreateUser, StoreCredential, RecordAudit,
       FindOwnerRole, Assign
  <2> QED
    BY <2>1 DEF Fill, RunRecord, Holds, Where
<1>3. Holds(t, s, n) => Ready(t)
  BY DEF Holds, Where, Ready, Running, Ended
<1>4. Spec => []IInv
  BY Invariance
<1> QED
  BY <1>1, <1>2, <1>3, <1>4, PTL DEF Spec, Served

THEOREM WaitsEnd ==
  Spec /\ (\A t \in Script : Served(t)) =>
    \A s \in Script : run[s].pc = "wait" ~> run[s].pc # "wait"
<1> SUFFICES ASSUME NEW s \in Script
             PROVE  Spec /\ (\A t \in Script : Served(t)) =>
                      (run[s].pc = "wait" ~> run[s].pc # "wait")
  OBVIOUS
<1> DEFINE Free == \A t \in Script, n \in Role : Holds(t, s, n) => <>(run[s].pc # "wait")
<1>1. Spec /\ (\A t \in Script : Served(t)) =>
        \A t \in Script, n \in Role : [](Holds(t, s, n) => <>(run[s].pc # "wait"))
  BY HolderReleases
<1>2. (\A t \in Script, n \in Role : [](Holds(t, s, n) => <>(run[s].pc # "wait"))) => []Free
  OBVIOUS
<1>3. IInv /\ run[s].pc = "wait" => \E t \in Script, n \in Role : Holds(t, s, n)
  BY DEF IInv, SyncInv, LockOK, Locked, TypeOK, RunRecord, Holds, Where
<1>4. IInv /\ Free /\ run[s].pc = "wait" => <>(run[s].pc # "wait")
  BY <1>3
<1>5. Spec => []IInv
  BY Invariance
<1> QED
  BY <1>1, <1>2, <1>4, <1>5, PTL

(* A suffix of the behaviour in which nobody dies while others may wait    *)
(* for it, with what holds in all of it.                                   *)
Calm  == []IInv /\ [][Next]_vars /\ [][HolderLives]_vars
Later == Calm /\ \A t \in Script : Served(t)

(* Who waits there fails on the rows of the one that it waited for.        *)
Told(s, n) == Where(s) = <<"clash", n>> \/ Over(s)

LEMMA HolderClashes ==
  ASSUME NEW s \in Script, NEW n \in Role, NEW t \in Script
  PROVE  Calm /\ Served(t) => [](Holds(t, s, n) => <>Told(s, n))
<1>1. IInv /\ [Next]_vars /\ [HolderLives]_vars /\ Holds(t, s, n)
      => Holds(t, s, n)' \/ Told(s, n)'
  <2>1. Holds(t, s, n) /\ UNCHANGED vars => Holds(t, s, n)'
    BY DEF Holds, Where, vars
  <2>2. Holds(t, s, n) /\ HolderLives => ~Die(t)
    BY DEF Holds, Where, HolderLives
  <2> QED
    BY <2>1, <2>2, WaitersFate DEF Told
<1>2. IInv /\ Holds(t, s, n) /\ <<Step(t)>>_vars => Told(s, n)'
  <2> SUFFICES ASSUME IInv, Holds(t, s, n), Step(t) PROVE Where(s)' = <<"clash", n>>
    BY DEF Told
  <2>1. Fill(t) /\ run[t].role = n /\ run[s].pc = "wait" /\ run[s].role = n /\ t # s
        /\ run[s] \in RunRecord
    BY DEF IInv, SyncInv, TypeOK, Holds, Where, Step, FindTenant, CreateTenant, FindRole, CreateRole,
       Clear, Fill, Clash, FindAdmin, Register, CreateUser, StoreCredential, RecordAudit,
       FindOwnerRole, Assign
  <2> QED
    BY <2>1 DEF Fill, RunRecord, Where
<1>3. Holds(t, s, n) => Ready(t)
  BY DEF Holds, Where, Ready, Running, Ended
<1> QED
  BY <1>1, <1>2, <1>3, PTL DEF Served, Calm

LEMMA WaitFails ==
  ASSUME NEW s \in Script, NEW n \in Role
  PROVE  Later => (Where(s) = <<"wait", n>> ~> Told(s, n))
<1>1. Later => \A t \in Script : [](Holds(t, s, n) => <>Told(s, n))
  BY HolderClashes DEF Later
<1> DEFINE Free == \A t \in Script : Holds(t, s, n) => <>Told(s, n)
<1>2. (\A t \in Script : [](Holds(t, s, n) => <>Told(s, n))) => []Free
  OBVIOUS
<1>3. IInv /\ Where(s) = <<"wait", n>> => \E t \in Script : Holds(t, s, n)
  BY DEF IInv, SyncInv, LockOK, Locked, TypeOK, RunRecord, Holds, Where
<1>4. IInv /\ Free /\ Where(s) = <<"wait", n>> => <>Told(s, n)
  BY <1>3
<1>5. Later => []IInv
  BY DEF Later, Calm
<1> QED
  BY <1>1, <1>2, <1>4, <1>5, PTL

(* A script that gets past role n, and from there to its end, ends from    *)
(* role n too, and from wherever it is at role n.                          *)
AtRole(s, n) == \E pc \in AtRoles : Where(s) = <<pc, n>>

LEMMA RoleEnds ==
  ASSUME NEW s \in Script, NEW n \in Role
  PROVE  Later /\ (Where(s) = NextAt(n) ~> Over(s)) => (AtRole(s, n) ~> Over(s))
<1> DEFINE At(pc) == Where(s) = <<pc, n>>
           Onward == Where(s) = NextAt(n)
<1> USE DEF Where, Moving, Pc, AtRoles, Ended
<1>1. /\ IInv /\ [Next]_vars /\ At("role") => At("role")' \/ (At("create_role") \/ At("clear") \/ Over(s))'
      /\ IInv /\ [Next]_vars /\ At("role") /\ <<Step(s)>>_vars => (At("create_role") \/ At("clear") \/ Over(s))'
      /\ IInv /\ At("role") => Ready(s)
  BY Hop DEF After, Ready, Running
<1>2. /\ IInv /\ [Next]_vars /\ At("create_role") => At("create_role")' \/ (Onward \/ Over(s))'
      /\ IInv /\ [Next]_vars /\ At("create_role") /\ <<Step(s)>>_vars => (Onward \/ Over(s))'
      /\ IInv /\ At("create_role") => Ready(s)
  BY Hop DEF After, Ready, Running
<1>3. /\ IInv /\ [Next]_vars /\ At("clear") => At("clear")' \/ (At("wait") \/ At("fill") \/ Over(s))'
      /\ IInv /\ [Next]_vars /\ At("clear") /\ <<Step(s)>>_vars => (At("wait") \/ At("fill") \/ Over(s))'
      /\ IInv /\ At("clear") => Ready(s)
  BY Hop DEF After, Ready, Running
<1>4. /\ IInv /\ [Next]_vars /\ At("fill") => At("fill")' \/ (Onward \/ Over(s))'
      /\ IInv /\ [Next]_vars /\ At("fill") /\ <<Step(s)>>_vars => (Onward \/ Over(s))'
      /\ IInv /\ At("fill") => Ready(s)
  BY Hop DEF After, Ready, Running
<1>5. /\ IInv /\ [Next]_vars /\ At("clash") => At("clash")' \/ (Over(s))'
      /\ IInv /\ [Next]_vars /\ At("clash") /\ <<Step(s)>>_vars => (Over(s))'
      /\ IInv /\ At("clash") => Ready(s)
  BY Hop DEF After, Ready, Running
<1>6. Later => (At("wait") ~> At("clash") \/ Over(s))
  BY WaitFails DEF Told
<1>7. AtRole(s, n) => \/ At("role") \/ At("create_role") \/ At("clear")
                     \/ At("wait") \/ At("fill") \/ At("clash")
  BY DEF AtRole
<1>8. Later => []IInv /\ [][Next]_vars /\ Served(s)
  BY DEF Later, Calm
<1> QED
  BY <1>1, <1>2, <1>3, <1>4, <1>5, <1>6, <1>7, <1>8, PTL DEF Served

(* Past the roles nothing is waited for.                                   *)
PastAll(s, n) == \E pc \in PastRoles : Where(s) = <<pc, n>>

LEMMA AdminEnds ==
  ASSUME NEW s \in Script, NEW n \in Role
  PROVE  Later => (PastAll(s, n) ~> Over(s))
<1> DEFINE At(pc) == Where(s) = <<pc, n>>
<1> USE DEF Where, Moving, Pc, AtRoles, PastRoles, Writing, Ended
<1>1. /\ IInv /\ [Next]_vars /\ At("admin") => At("admin")' \/ (At("register") \/ Over(s))'
      /\ IInv /\ [Next]_vars /\ At("admin") /\ <<Step(s)>>_vars => (At("register") \/ Over(s))'
      /\ IInv /\ At("admin") => Ready(s)
  BY Hop DEF After, Ready, Running
<1>2. /\ IInv /\ [Next]_vars /\ At("register") => At("register")' \/ (At("create_user") \/ Over(s))'
      /\ IInv /\ [Next]_vars /\ At("register") /\ <<Step(s)>>_vars => (At("create_user") \/ Over(s))'
      /\ IInv /\ At("register") => Ready(s)
  BY Hop DEF After, Ready, Running
<1>3. /\ IInv /\ [Next]_vars /\ At("create_user") => At("create_user")' \/ (At("credential") \/ Over(s))'
      /\ IInv /\ [Next]_vars /\ At("create_user") /\ <<Step(s)>>_vars => (At("credential") \/ Over(s))'
      /\ IInv /\ At("create_user") => Ready(s)
  BY Hop DEF After, Ready, Running
<1>4. /\ IInv /\ [Next]_vars /\ At("credential") => At("credential")' \/ (At("audit") \/ Over(s))'
      /\ IInv /\ [Next]_vars /\ At("credential") /\ <<Step(s)>>_vars => (At("audit") \/ Over(s))'
      /\ IInv /\ At("credential") => Ready(s)
  BY Hop DEF After, Ready, Running
<1>5. /\ IInv /\ [Next]_vars /\ At("audit") => At("audit")' \/ (At("owner_role") \/ Over(s))'
      /\ IInv /\ [Next]_vars /\ At("audit") /\ <<Step(s)>>_vars => (At("owner_role") \/ Over(s))'
      /\ IInv /\ At("audit") => Ready(s)
  BY Hop DEF After, Ready, Running
<1>6. /\ IInv /\ [Next]_vars /\ At("owner_role") => At("owner_role")' \/ (At("assign") \/ Over(s))'
      /\ IInv /\ [Next]_vars /\ At("owner_role") /\ <<Step(s)>>_vars => (At("assign") \/ Over(s))'
      /\ IInv /\ At("owner_role") => Ready(s)
  BY Hop DEF After, Ready, Running
<1>7. /\ IInv /\ [Next]_vars /\ At("assign") => At("assign")' \/ (Over(s))'
      /\ IInv /\ [Next]_vars /\ At("assign") /\ <<Step(s)>>_vars => (Over(s))'
      /\ IInv /\ At("assign") => Ready(s)
  BY Hop DEF After, Ready, Running
<1>8. PastAll(s, n) => \/ At("admin") \/ At("register") \/ At("create_user") \/ At("credential")
                      \/ At("audit") \/ At("owner_role") \/ At("assign") \/ Over(s)
  BY DEF PastAll, Over
<1>9. Later => []IInv /\ [][Next]_vars /\ Served(s)
  BY DEF Later, Calm
<1> QED
  BY <1>1, <1>2, <1>3, <1>4, <1>5, <1>6, <1>7, <1>8, <1>9, PTL DEF Served

(* Before the roles neither.                                               *)
BeforeAll(s, n) == \E pc \in {"tenant", "create_tenant"} : Where(s) = <<pc, n>>

LEMMA TenantEnds ==
  ASSUME NEW s \in Script, NEW n \in Role
  PROVE  Later => (BeforeAll(s, n) ~> AtRole(s, n) \/ Over(s))
<1> DEFINE At(pc) == Where(s) = <<pc, n>>
<1> USE DEF Where, Moving, Pc, AtRoles, PastRoles, Writing, Ended
<1>1. /\ IInv /\ [Next]_vars /\ At("tenant") => At("tenant")' \/ (At("create_tenant") \/ At("role") \/ Over(s))'
      /\ IInv /\ [Next]_vars /\ At("tenant") /\ <<Step(s)>>_vars => (At("create_tenant") \/ At("role") \/ Over(s))'
      /\ IInv /\ At("tenant") => Ready(s)
  BY Hop DEF After, Ready, Running
<1>2. /\ IInv /\ [Next]_vars /\ At("create_tenant") => At("create_tenant")' \/ (At("role") \/ Over(s))'
      /\ IInv /\ [Next]_vars /\ At("create_tenant") /\ <<Step(s)>>_vars => (At("role") \/ Over(s))'
      /\ IInv /\ At("create_tenant") => Ready(s)
  BY Hop DEF After, Ready, Running
<1>3. /\ BeforeAll(s, n) => At("tenant") \/ At("create_tenant")
      /\ At("role") => AtRole(s, n)
  BY DEF BeforeAll, AtRole
<1>4. Later => []IInv /\ [][Next]_vars /\ Served(s)
  BY DEF Later, Calm
<1> QED
  BY <1>1, <1>2, <1>3, <1>4, PTL DEF Served

(* The last role, the one before it and the first of three.                *)
LEMMA LastRoleEnds ==
  ASSUME NEW s \in Script
  PROVE  Later => (AtRole(s, Roles) ~> Over(s))
<1>1. PICK n \in Role : n = Roles
  BY RoleFacts
<1>2. AtRole(s, Roles) => AtRole(s, n)
  BY <1>1
<1>3. Where(s) = NextAt(n) => PastAll(s, n)
  BY <1>1, RoleFacts DEF NextAt, PastAll, PastRoles
<1>4. Later => (PastAll(s, n) ~> Over(s))
  BY AdminEnds
<1>5. Later /\ (Where(s) = NextAt(n) ~> Over(s)) => (AtRole(s, n) ~> Over(s))
  BY RoleEnds
<1> QED
  BY <1>2, <1>3, <1>4, <1>5, PTL

LEMMA SecondRoleEnds ==
  ASSUME NEW s \in Script, Roles - 1 \in Role
  PROVE  Later => (AtRole(s, Roles - 1) ~> Over(s))
<1>1. PICK n \in Role : n = Roles - 1
  OBVIOUS
<1>2. AtRole(s, Roles - 1) => AtRole(s, n)
  BY <1>1
<1>3. Where(s) = NextAt(n) => AtRole(s, Roles)
  BY <1>1, RolesAssumption DEF NextAt, AtRole, AtRoles, Role
<1>4. Later => (AtRole(s, Roles) ~> Over(s))
  BY LastRoleEnds
<1>5. Later /\ (Where(s) = NextAt(n) ~> Over(s)) => (AtRole(s, n) ~> Over(s))
  BY RoleEnds
<1> QED
  BY <1>2, <1>3, <1>4, <1>5, PTL

LEMMA ThirdRoleEnds ==
  ASSUME NEW s \in Script, Roles - 2 \in Role
  PROVE  Later => (AtRole(s, Roles - 2) ~> Over(s))
<1>1. PICK n \in Role : n = Roles - 2
  OBVIOUS
<1>2. AtRole(s, Roles - 2) => AtRole(s, n)
  BY <1>1
<1>3. Where(s) = NextAt(n) => AtRole(s, Roles - 1)
  BY <1>1, RolesAssumption DEF NextAt, AtRole, AtRoles, Role
<1>4. Later => (AtRole(s, Roles - 1) ~> Over(s))
  BY <1>1, SecondRoleEnds, RolesAssumption DEF Role
<1>5. Later /\ (Where(s) = NextAt(n) ~> Over(s)) => (AtRole(s, n) ~> Over(s))
  BY RoleEnds
<1> QED
  BY <1>2, <1>3, <1>4, <1>5, PTL

(* Three roles at most, as SYSTEM_ROLES has.                               *)
LEMMA EachRoleEnds ==
  ASSUME NEW s \in Script, NEW n \in Role, Roles <= 3
  PROVE  Later => (AtRole(s, n) ~> Over(s))
<1>1. CASE n = Roles
  <2>1. AtRole(s, n) => AtRole(s, Roles)
    BY <1>1
  <2>2. Later => (AtRole(s, Roles) ~> Over(s))
    BY LastRoleEnds
  <2> QED
    BY <2>1, <2>2, PTL
<1>2. CASE n = Roles - 1
  <2>1. AtRole(s, n) => AtRole(s, Roles - 1)
    BY <1>2
  <2>2. Later => (AtRole(s, Roles - 1) ~> Over(s))
    BY <1>2, SecondRoleEnds
  <2> QED
    BY <2>1, <2>2, PTL
<1>3. CASE n = Roles - 2
  <2>1. AtRole(s, n) => AtRole(s, Roles - 2)
    BY <1>3
  <2>2. Later => (AtRole(s, Roles - 2) ~> Over(s))
    BY <1>3, ThirdRoleEnds
  <2> QED
    BY <2>1, <2>2, PTL
<1> QED
  BY <1>1, <1>2, <1>3, RolesAssumption DEF Role

(* A script that runs, at role n, ends; and n is some role.                *)
RunsAt(s, n) == Running(s) /\ run[s].role = n

LEMMA RunAtEnds ==
  ASSUME NEW s \in Script, NEW n \in Role, Roles <= 3
  PROVE  Later => [](RunsAt(s, n) => <>Over(s))
<1>1. IInv /\ RunsAt(s, n) => BeforeAll(s, n) \/ AtRole(s, n) \/ PastAll(s, n)
  BY DEF IInv, SyncInv, TypeOK, RunRecord, Pc, RunsAt, Running, Ended, BeforeAll, AtRole, PastAll, Where
<1>2. Later => (BeforeAll(s, n) ~> AtRole(s, n) \/ Over(s))
  BY TenantEnds
<1>3. Later => (AtRole(s, n) ~> Over(s))
  BY EachRoleEnds
<1>4. Later => (PastAll(s, n) ~> Over(s))
  BY AdminEnds
<1>5. Later => []IInv
  BY DEF Later, Calm
<1> QED
  BY <1>1, <1>2, <1>3, <1>4, <1>5, PTL

LEMMA RunEnds ==
  ASSUME NEW s \in Script, Roles <= 3
  PROVE  Later => (Running(s) ~> Over(s))
<1>1. Later => \A n \in Role : [](RunsAt(s, n) => <>Over(s))
  BY RunAtEnds
<1> DEFINE Finishes == \A n \in Role : RunsAt(s, n) => <>Over(s)
<1>2. (\A n \in Role : [](RunsAt(s, n) => <>Over(s))) => []Finishes
  OBVIOUS
<1>3. IInv /\ Running(s) => \E n \in Role : RunsAt(s, n)
  BY DEF IInv, SyncInv, TypeOK, RunRecord, RunsAt
<1>4. IInv /\ Finishes /\ Running(s) => <>Over(s)
  BY <1>3
<1>5. Later => []IInv
  BY DEF Later, Calm
<1> QED
  BY <1>1, <1>2, <1>4, <1>5, PTL

(* Each run of the script ends, when there are as many system roles as in  *)
(* the code, every script that can go on does so at last, and from some    *)
(* time on none dies while others may wait for it.                         *)
THEOREM EachRunEnds ==
  ASSUME Roles <= 3
  PROVE  Spec /\ (\A s \in Script : Served(s)) /\ DeathsEnd => EveryRunEnds
<1> SUFFICES ASSUME NEW s \in Script
             PROVE  Spec /\ (\A t \in Script : Served(t)) /\ DeathsEnd
                    => (run[s].pc = "tenant" ~> run[s].pc \in Ended)
  BY DEF EveryRunEnds
<1>1. Spec => []IInv
  BY Invariance
<1>2. (\A t \in Script : Served(t)) => [](\A t \in Script : Served(t))
  <2>1. ASSUME NEW t \in Script PROVE Served(t) => []Served(t)
    BY PTL DEF Served
  <2>2. (\A t \in Script : Served(t)) => \A t \in Script : []Served(t)
    BY <2>1
  <2>3. (\A t \in Script : []Served(t)) => [](\A t \in Script : Served(t))
    OBVIOUS
  <2> QED
    BY <2>2, <2>3
<1>3. Spec /\ (\A t \in Script : Served(t)) /\ DeathsEnd => <>[]Later
  BY <1>1, <1>2, PTL DEF Spec, DeathsEnd, Later, Calm
<1>4. Later => (Running(s) ~> Over(s))
  BY RunEnds
<1>5. IInv /\ [Next]_vars /\ Running(s) => Running(s)' \/ Over(s)'
  BY StaysOn
<1>6. /\ run[s].pc = "tenant" => Running(s)
      /\ Over(s) => run[s].pc \in Ended
  BY DEF Running, Over, Ended
<1> QED
  BY <1>1, <1>3, <1>4, <1>5, <1>6, PTL DEF Spec

(* A script dies once, so that deaths end where there are three scripts or *)
(* fewer, as in the runs.                                                  *)
LEMMA DiesOnce ==
  ASSUME TypeOK, [Next]_vars, NEW s \in Script
  PROVE  /\ Over(s) => Over(s)' /\ ~Die(s)
         /\ Die(s) => Over(s)'
<1>1. Die(s) => ~Over(s) /\ Over(s)'
  BY DEF Die, Running, Over, Ended, TypeOK, RunRecord
<1>2. ASSUME Over(s) PROVE Over(s)'
  <2>1. run[s].pc \notin {"idle", "wait"}
    BY <1>2 DEF Over, Ended
  <2>2. Step(s) => Over(s)'
    BY <1>2 DEF Over, Ended, Step, FindTenant, CreateTenant, FindRole, CreateRole, Clear, Fill, Clash,
       FindAdmin, Register, CreateUser, StoreCredential, RecordAudit, FindOwnerRole, Assign
  <2> QED
    BY <1>2, <2>1, <2>2, OnlyItsStep DEF Over
<1> QED
  BY <1>1, <1>2

(* Where three scripts run, or fewer, deaths end.                          *)
THEOREM FewDeathsEnd ==
  ASSUME NEW a \in Script, NEW b \in Script, NEW c \in Script, Script = {a, b, c}
  PROVE  Spec => DeathsEnd
<1>1. TypeOK /\ [Next]_vars => /\ (Over(a) => Over(a)' /\ ~Die(a)) /\ (Die(a) => Over(a)')
                               /\ (Over(b) => Over(b)' /\ ~Die(b)) /\ (Die(b) => Over(b)')
                               /\ (Over(c) => Over(c)' /\ ~Die(c)) /\ (Die(c) => Over(c)')
  BY DiesOnce
<1>2. ~Die(a) /\ ~Die(b) /\ ~Die(c) => HolderLives
  BY DEF HolderLives
<1>3. IInv => TypeOK
  BY DEF IInv, SyncInv
<1> QED
  BY <1>1, <1>2, <1>3, Invariance, PTL DEF Spec, DeathsEnd
===============================================================================
