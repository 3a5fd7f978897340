------------------------------- MODULE Lease -------------------------------
(***************************************************************************)
(* What a limited resource promises its clients: `left` units can be had,  *)
(* a client holds at most one, takes one only when one is left, and what   *)
(* is left changes in the same step as who holds.  The slots of a stress   *)
(* scenario and the connections of the engine's pool are both leases.      *)
(***************************************************************************)
EXTENDS Integers

CONSTANTS Clients, Limit

VARIABLES held, left

leaseVars == <<held, left>>

LeaseInit == held = {} /\ left = Limit

Take(c) ==
  /\ c \notin held
  /\ left > 0
  /\ held' = held \cup {c}
  /\ left' = left - 1

\* Only who holds a unit gives one back, and never more than there are.
GiveBack(c) ==
  /\ c \in held
  /\ left < Limit
  /\ held' = held \ {c}
  /\ left' = left + 1

LeaseNext == \E c \in Clients : Take(c) \/ GiveBack(c)

LeaseSpec == LeaseInit /\ [][LeaseNext]_leaseVars
=============================================================================
