------------------------- MODULE MCDeadLetterOutbox -------------------------
(* Model-checking instance of DeadLetterOutbox. *)
EXTENDS DeadLetterOutbox, TLC

MCSymmetry == Permutations(Issues)
=============================================================================
