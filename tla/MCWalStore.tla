----------------------------- MODULE MCWalStore -----------------------------
(* Model-checking instance of WalStore. *)
EXTENDS WalStore, TLC

MCSymmetry == Permutations(Callers) \cup Permutations(Ids) \cup Permutations(Hashes)
=============================================================================
