-------------------------- MODULE MCRegistryCache --------------------------
(* Small instances of RegistryCache for TLC. *)
EXTENDS RegistryCache, TLC

Symmetry == Permutations(Callers) \cup Permutations(Files) \cup Permutations(Hashes)
=============================================================================
