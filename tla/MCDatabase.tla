----------------------------- MODULE MCDatabase -----------------------------
(* Instances of Database for TLC: two names share a slot of the cache. *)
EXTENDS Database

Symmetry == Permutations(Callers)

ThreeNames == {"default", "a", "b"}
Collide == [n \in ThreeNames |-> IF n = "b" THEN 1 ELSE 0]
=============================================================================
