---------------------------- MODULE MCSlowQueries ----------------------------
\* Numbers on both sides of every bound, for TLC.
EXTENDS SlowQueries

MCFloats == {-10, 0, 5, 50, 150, NaN, Inf, NegInf, Unset}

\* The numbers do not interact but for slowMax and slowDefault: the other two
\* are given the value of the latter.
MCEnvironments ==
  {[slowMax |-> max, slowDefault |-> f, failureDelay |-> f, rps |-> f] :
     max \in {-10, 10, 100, Unset}, f \in MCFloats}
=============================================================================
