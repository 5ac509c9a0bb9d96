-------------------------------- MODULE MCReads --------------------------------
(* Reads on small instances.                                               *)
EXTENDS Reads, TLC

Symmetry == Permutations(Tenant) \cup Permutations(Tag)
===============================================================================
