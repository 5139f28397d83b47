----------------------------- MODULE MCObjectPool -----------------------------
(* ObjectPool on small instances: definitions for the configurations. *)
EXTENDS ObjectPool, TLC

Symmetry == Permutations(Objects) \union Permutations(Callers)
===============================================================================
