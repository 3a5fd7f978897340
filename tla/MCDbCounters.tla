---------------------------- MODULE MCDbCounters ----------------------------
(* A small instance of DbCounters for TLC. *)
EXTENDS DbCounters, TLC

WorkerSymmetry == Permutations(Workers)
=============================================================================
