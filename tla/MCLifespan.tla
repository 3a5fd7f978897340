----------------------------- MODULE MCLifespan -----------------------------
(* A small instance of Lifespan for TLC: requests race in one process while *)
(* the other starts and stops beside it.                                    *)
EXTENDS Lifespan, TLC

CONSTANTS p1, p2

MCThreadsOf == (p1 :> {1, 2}) @@ (p2 :> {})
=============================================================================
