------------------------------ MODULE MCAccounts ------------------------------
(* Accounts on small instances: every spelling is of one address.          *)
EXTENDS Accounts, TLC

CONSTANT a1

OneAddress == [e \in Spelling |-> a1]

Symmetry == Permutations(Request) \cup Permutations(User) \cup Permutations(Password)
            \cup Permutations(Tenant) \cup Permutations(Spelling)
===============================================================================
