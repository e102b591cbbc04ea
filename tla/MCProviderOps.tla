--------------------------- MODULE MCProviderOps ---------------------------
(* A diagnostic store and the shared SDAR warehouse.                        *)
EXTENDS ProviderOps
MCTargets == [d |-> "diagnostic", s |-> "shared"]
============================================================================
