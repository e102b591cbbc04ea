---------------------------- MODULE MCPublication ----------------------------
(* Publication for TLC: the bounds are constants of the configuration.      *)
EXTENDS Publication
=============================================================================
