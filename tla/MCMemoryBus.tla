----------------------------- MODULE MCMemoryBus -----------------------------
(* MemoryBus on small instances: definitions for the configurations. *)
EXTENDS MemoryBus, TLC

Symmetry == Permutations(Publishers) \union Permutations(Subs)
===============================================================================
