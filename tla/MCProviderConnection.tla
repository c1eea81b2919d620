------------------------ MODULE MCProviderConnection ------------------------
(* Instances of ProviderConnection for TLC. *)
EXTENDS ProviderConnection

CONSTANTS t1, t2

MCTwo == {t1, t2}
============================================================================
