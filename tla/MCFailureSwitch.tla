-------------------------- MODULE MCFailureSwitch --------------------------
(* Small instances of FailureSwitch for TLC. *)
EXTENDS FailureSwitch, TLC

MCModes == {"connection_refused", "query_error"}

TogglerSymmetry == Permutations(Togglers)
=============================================================================
