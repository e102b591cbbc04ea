--------------------------- MODULE MCWalRetention ---------------------------
(* Model-checking instance of WalRetention. *)
EXTENDS WalRetention, TLC

MCSymmetry == Permutations(Targets) \cup Permutations(Pins)
=============================================================================
