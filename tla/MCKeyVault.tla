----------------------------- MODULE MCKeyVault -----------------------------
(* Instances of KeyVault for TLC. *)
EXTENDS KeyVault, TLC

MCSymmetry == Permutations(Procs) \cup Permutations(Secrets)
=============================================================================
