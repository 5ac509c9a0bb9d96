----------------------------- MODULE MCDeployment -----------------------------
(* Deployment on a small instance: production environments that differ     *)
(* from the first in their signing keys and key id, the pepper kept, in    *)
(* their issuer, or in their audience; one whose PEMs do not belong        *)
(* together; four that production must not start with, for want of a PEM   *)
(* or of a good pepper; two for development, without PEMs and with them.   *)
EXTENDS Deployment, TLC

CONSTANTS k1, k2, n1, n2, a1, a2, i1, i2, s1, w1

Make(mode, private, public, kid, pepper) ==
  [mode |-> mode, private |-> private, public |-> public, issuer |-> n1, audience |-> a1,
   kid |-> kid, pepper |-> pepper]

First == Make("production", k1, k1, i1, s1)

Configs ==
  { First,
    [First EXCEPT !.issuer = n2],
    [First EXCEPT !.audience = a2],
    Make("production", k2, k2, i2, s1),
    Make("production", k1, k2, i2, s1),
    Make("production", k1, None, i1, s1),
    Make("production", k1, k1, i1, w1),
    Make("production", k1, k1, i1, None),
    Make("production", k2, k2, i2, None),
    Make("development", None, None, i1, None),
    Make("development", k1, k1, i1, None) }

Symmetry == Permutations(Process) \cup Permutations(Drawn)
===============================================================================
