------------------------------ MODULE MCSessions ------------------------------
(* Sessions on small instances: symmetry for the runs that check safety.   *)
EXTENDS SessionsInvariant, TLC

Symmetry == Permutations(Request) \cup Permutations(Session) \cup Permutations(Token)

(* A bound on sessions_race: two sessions while the clock stands at 0, and *)
(* one when it has moved.                                                  *)
OneSessionInTime == now = 0 \/ \E s \in Session : session[s].status = "absent"
===============================================================================
