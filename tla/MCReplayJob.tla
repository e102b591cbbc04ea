---------------------------- MODULE MCReplayJob ----------------------------
(* Model-checking instance of ReplayJob. *)
EXTENDS ReplayJob, TLC

MCSymmetry == Permutations(Admins)
=============================================================================
