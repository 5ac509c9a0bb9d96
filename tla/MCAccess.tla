------------------------------- MODULE MCAccess -------------------------------
(* Access on small instances: tenant g1 with a seeded owner role, held by  *)
(* u1, and tenant g2 whose user v1 holds its owner role.                   *)
EXTENDS Access, TLC

CONSTANTS g1, g2, u1, v1, o1, o2, n1

Homes == [u \in User |-> IF u = v1 THEN g2 ELSE g1]

Owners ==
  [ro \in Role |->
    CASE ro = o1 -> [tenant |-> g1, name |-> n1, permissions |-> Catalog]
      [] ro = o2 -> [tenant |-> g2, name |-> n1, permissions |-> Catalog]
      [] OTHER   -> NoRole]

Assignments == {<<u1, o1>>, <<v1, o2>>} \cap (User \X Role)

(* The two tenants are alike: each with one user, who holds its one role.  *)
Swap == g1 :> g2 @@ g2 :> g1 @@ u1 :> v1 @@ v1 :> u1 @@ o1 :> o2 @@ o2 :> o1

Symmetry ==
  Permutations(Request) \cup Permutations(Role \ {o1, o2}) \cup Permutations(Key) \cup {Swap}

(* What callers ask for: permissions of the catalog, or one it lacks.      *)
Assigner == {{"roles.assign"}, {"no.such.permission"}}
Writers  == {{"api-keys.write"}}
===============================================================================
