------------------------------ MODULE Settings ------------------------------
(***************************************************************************)
(* The numbers of get_settings (app/config.py) and the parameter of        *)
(* /api/slow-query, with the comparisons Python makes of them: float()     *)
(* parses "nan" and "inf", every comparison with a NaN is false, and max   *)
(* and min keep their first argument unless the second one beats it.       *)
(*                                                                         *)
(* Numbers are in tenths, so that 0.1 is one.                              *)
(***************************************************************************)
EXTENDS Integers

CONSTANTS
  NaN, Inf, NegInf,  \* float("nan"), float("inf"), float("-inf")
  Unset   \* a variable of the environment, or the parameter, left out

Floats == Int \cup {NaN, Inf, NegInf}

SettingsAssumption ==
  /\ {NaN, Inf, NegInf, Unset} \cap Int = {}
  /\ NaN \notin {Inf, NegInf, Unset}
  /\ Inf \notin {NegInf, Unset} /\ NegInf # Unset

Less(a, b) ==
  /\ NaN \notin {a, b}
  /\ a # b
  /\ \/ a = NegInf \/ b = Inf
     \/ {a, b} \subseteq Int /\ a < b

PyMax(a, b) == IF Less(a, b) THEN b ELSE a
PyMin(a, b) == IF Less(b, a) THEN b ELSE a

\* _env_int, _env_float; what they cannot parse is a ConfigError, and no
\* process starts with it.
Env(raw, default) == IF raw = Unset THEN default ELSE raw

SlowMax(env) == PyMax(10, Env(env.slowMax, 300))

BugSlowDefault(env) ==   \* mutant: the default is not clamped
  Env(env.slowDefault, 50)

SlowDefault(env) == PyMin(SlowMax(env), Env(env.slowDefault, 50))

BugFailureDelay(env) ==  \* mutant: the arguments of max swapped
  PyMax(Env(env.failureDelay, 20), 0)

FailureDelay(env) == PyMax(0, Env(env.failureDelay, 20))

TrafficRps(env) == PyMax(1, Env(env.rps, 20))

\* slow_query: the seconds it will sleep, and the two tests that refuse them.
Requested(env, seconds) == IF seconds = Unset THEN SlowDefault(env) ELSE seconds

Refused(env, seconds) ==
  \/ Requested(env, seconds) = 0 \/ Less(Requested(env, seconds), 0)
  \/ Less(SlowMax(env), Requested(env, seconds))

\* pg_sleep: a NaN is not slept at all.
Slept(seconds) == IF seconds = NaN THEN 0 ELSE seconds
=============================================================================
