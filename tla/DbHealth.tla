------------------------------ MODULE DbHealth ------------------------------
(***************************************************************************)
(* What the gauge db_up promises its reader (app/metrics.py, the alarms    *)
(* and dashboards built on it), whatever the threads behind it do.         *)
(*                                                                         *)
(* In the dark (the failure switch is armed) the gauge can only fall, in   *)
(* the clear (the database is healthy and the switch is off) it can only   *)
(* rise, and neither phase is left for the other at once.  In between, in  *)
(* a mixed phase, operations of both sorts overlap and it does anything.   *)
(***************************************************************************)
EXTENDS Naturals

VARIABLES phase, up

Phases == {"dark", "clear", "mixed"}

HealthInit == phase \in Phases /\ up \in {0, 1}

\* A phase ends without touching the gauge.
Blur == phase' = "mixed" /\ up' = up

Fall == phase = "dark" /\ phase' = "dark" /\ up' = 0

Rise == phase = "clear" /\ phase' = "clear" /\ up' = 1

Mixed == phase = "mixed" /\ phase' \in Phases /\ up' \in {0, 1}

HealthNext == Blur \/ Fall \/ Rise \/ Mixed

HealthSpec == HealthInit /\ [][HealthNext]_<<phase, up>>
=============================================================================
