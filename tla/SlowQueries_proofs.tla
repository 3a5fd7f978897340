-------------------------- MODULE SlowQueries_proofs --------------------------
(***************************************************************************)
(* Proofs about ErrorMapping, Settings and SlowQueries, for whatever       *)
(* numbers the environment and the requests hold and whatever exception    *)
(* the statement raises.                                                   *)
(***************************************************************************)
EXTENDS SlowQueries, TLAPS

(***************************************************************************)
(* Classification.  An exception of the switch is labelled with the mode   *)
(* that was armed, whatever its message says.                              *)
(***************************************************************************)
LEMMA SimulatedIsItsMode ==
  ASSUME NEW m \in SimulatedModes
  PROVE  Classify(Simulated(m)) = m /\ HttpStatus(m) = 503
BY DEF Classify, Simulated, HttpStatus, UnavailableTypes, SimulatedModes

(***************************************************************************)
(* Whatever pulls db_up down, by its label or by the switch, is answered   *)
(* 503.                                                                    *)
(***************************************************************************)
LEMMA DownStatus ==
  ASSUME NEW e \in DbExceptions
  PROVE  \/ HttpStatus(Classify(e)) = 503
         \/ /\ Classify(e) \notin DownTypes
            /\ e.class # "SimulatedDatabaseFailure"
<1>1. \A type \in DownTypes : HttpStatus(type) = 503
  BY DEF DownTypes, HttpStatus, UnavailableTypes
<1>2. CASE e \in RealExceptions
  <2>1. e.class # "SimulatedDatabaseFailure"
    BY <1>2 DEF RealExceptions, RealClasses
  <2> QED
    BY <1>1, <2>1
<1>3. CASE \E m \in SimulatedModes : e = Simulated(m)
  BY <1>3, SimulatedIsItsMode
<1> QED
  BY <1>2, <1>3 DEF DbExceptions
-----------------------------------------------------------------------------
(***************************************************************************)
(* The numbers.  Between integers Less is <; a NaN is on no side of it.    *)
(***************************************************************************)
LEMMA LessFacts ==
  ASSUME SettingsAssumption, NEW a \in Int
  PROVE  /\ \A b \in Int : Less(a, b) <=> a < b
         /\ ~Less(a, NaN) /\ ~Less(NaN, a)
         /\ Less(a, Inf) /\ ~Less(Inf, a)
         /\ ~Less(a, NegInf) /\ Less(NegInf, a)
  BY DEF SettingsAssumption, Less

LEMMA EnvironmentTypes ==
  ASSUME env \in Environments
  PROVE  /\ env.slowMax \in Int \cup {Unset}
         /\ env.slowDefault \in Floats \cup {Unset}
         /\ env.failureDelay \in Floats \cup {Unset}
         /\ env.rps \in Floats \cup {Unset}
         /\ SettingsAssumption
  BY SlowQueriesAssumption

(* max(bound, x) with an integer bound first: never a NaN, never below.    *)
LEMMA MaxClamps ==
  ASSUME SettingsAssumption, NEW bound \in Int, NEW x \in Floats
  PROVE  /\ PyMax(bound, x) \in Int \cup {Inf}
         /\ PyMax(bound, x) # NaN
         /\ ~Less(PyMax(bound, x), bound)
         /\ x \in Int => PyMax(bound, x) = IF x > bound THEN x ELSE bound
  BY LessFacts DEF PyMax, Floats, SettingsAssumption

(* min(bound, x) with an integer bound first: never a NaN, never above.    *)
LEMMA MinClamps ==
  ASSUME SettingsAssumption, NEW bound \in Int, NEW x \in Floats
  PROVE  /\ PyMin(bound, x) \in Int \cup {NegInf}
         /\ PyMin(bound, x) # NaN
         /\ PyMin(bound, x) \in Int => PyMin(bound, x) <= bound
         /\ x \in {NaN, Inf} => PyMin(bound, x) = bound
         /\ x \in Int => PyMin(bound, x) = IF x < bound THEN x ELSE bound
         /\ x = NegInf => PyMin(bound, x) = NegInf
  BY LessFacts DEF PyMin, Floats, SettingsAssumption

LEMMA SlowMaxIsAllowed ==
  ASSUME env \in Environments
  PROVE  SlowMax(env) = Allowed /\ Allowed \in Int /\ Allowed >= 10
<1>1. Env(env.slowMax, 300) \in Int /\ SettingsAssumption
  BY EnvironmentTypes DEF Env
<1>2. SlowMax(env) = IF Env(env.slowMax, 300) > 10
                     THEN Env(env.slowMax, 300) ELSE 10
  BY <1>1, MaxClamps DEF SlowMax, Floats
<1> QED
  BY <1>1, <1>2, EnvironmentTypes DEF Env, Allowed

LEMMA SlowDefaultClamped ==
  ASSUME env \in Environments
  PROVE  /\ SlowDefault(env) \in Int \cup {NegInf}
         /\ SlowDefault(env) # NaN
         /\ SlowDefault(env) \in Int => SlowDefault(env) <= Allowed
         /\ SlowDefault(env) = NegInf \/ SlowDefault(env) <= 0 =>
              /\ env.slowDefault \notin {Unset, NaN, Inf}
              /\ env.slowDefault = NegInf \/ env.slowDefault <= 0
<1> DEFINE d == Env(env.slowDefault, 50)
<1>1. SettingsAssumption /\ Allowed \in Int /\ Allowed >= 10
  BY EnvironmentTypes, SlowMaxIsAllowed
<1>2. d \in Floats
  BY EnvironmentTypes DEF Env, Floats
<1>3. SlowDefault(env) = PyMin(Allowed, d)
  BY SlowMaxIsAllowed DEF SlowDefault
<1>4. env.slowDefault = Unset => d = 50
  BY DEF Env
<1>5. env.slowDefault # Unset => d = env.slowDefault
  BY DEF Env
<1> HIDE DEF d
<1>6. /\ SlowDefault(env) \in Int \cup {NegInf}
      /\ SlowDefault(env) # NaN
      /\ SlowDefault(env) \in Int => SlowDefault(env) <= Allowed
      /\ d \in {NaN, Inf} => SlowDefault(env) = Allowed
      /\ d \in Int => SlowDefault(env) = IF d < Allowed THEN d ELSE Allowed
      /\ d = NegInf => SlowDefault(env) = NegInf
  BY <1>1, <1>2, <1>3, MinClamps
<1>7. ASSUME SlowDefault(env) = NegInf \/ SlowDefault(env) <= 0
      PROVE  /\ env.slowDefault \notin {Unset, NaN, Inf}
             /\ env.slowDefault = NegInf \/ env.slowDefault <= 0
  <2>1. CASE d \in {NaN, Inf}
    BY <1>1, <1>6, <1>7, <2>1 DEF SettingsAssumption
  <2>2. CASE d = NegInf
    BY <1>1, <1>4, <1>5, <2>2 DEF SettingsAssumption
  <2>3. CASE d \in Int
    <3>1. SlowDefault(env) \in Int /\ SlowDefault(env) # NegInf
      BY <1>1, <1>6, <2>3 DEF SettingsAssumption
    <3>2. d <= 0
      BY <1>1, <1>6, <1>7, <2>3, <3>1
    <3> QED
      BY <1>1, <1>4, <1>5, <2>3, <3>2 DEF SettingsAssumption
  <2> QED
    BY <1>2, <2>1, <2>2, <2>3 DEF Floats
<1> QED
  BY <1>6, <1>7

(* What the two tests of the endpoint let through.                         *)
LEMMA AcceptedIsBounded ==
  ASSUME env \in Environments, seconds \in Floats \cup {Unset},
         ~Refused(env, seconds)
  PROVE  /\ Slept(Requested(env, seconds)) \in Nat
         /\ Slept(Requested(env, seconds)) <= Allowed
<1> DEFINE r == Requested(env, seconds)
<1>1. SettingsAssumption /\ Allowed \in Int /\ Allowed >= 10
  BY EnvironmentTypes, SlowMaxIsAllowed
<1>2. r \in Floats
  BY SlowDefaultClamped DEF Requested, Floats
<1>3. r # 0 /\ ~Less(r, 0) /\ ~Less(Allowed, r)
  BY SlowMaxIsAllowed DEF Refused
<1> HIDE DEF r
<1>4. CASE r = NaN
  BY <1>1, <1>4 DEF Slept, r
<1>5. CASE r \in {Inf, NegInf}
  BY <1>1, <1>3, <1>5, LessFacts
<1>6. CASE r \in Int
  <2>1. r > 0 /\ r <= Allowed
    BY <1>1, <1>3, <1>6, LessFacts
  <2>2. r # NaN
    BY <1>1, <1>6 DEF SettingsAssumption
  <2>3. Slept(r) = r
    BY <2>2 DEF Slept
  <2> QED
    BY <1>6, <2>1, <2>3 DEF r
<1> QED
  BY <1>2, <1>4, <1>5, <1>6 DEF Floats

(* A request without the parameter that is refused.                        *)
LEMMA RefusedDefault ==
  ASSUME env \in Environments, seconds = Unset, Refused(env, seconds)
  PROVE  /\ env.slowDefault \notin {Unset, NaN, Inf}
         /\ env.slowDefault = NegInf \/ env.slowDefault <= 0
<1>1. SettingsAssumption /\ Allowed \in Int /\ SlowMax(env) = Allowed
  BY EnvironmentTypes, SlowMaxIsAllowed
<1>2. /\ SlowDefault(env) \in Int \cup {NegInf}
      /\ SlowDefault(env) \in Int => SlowDefault(env) <= Allowed
  BY SlowDefaultClamped
<1>3. ~Less(Allowed, SlowDefault(env))
  BY <1>1, <1>2, LessFacts
<1>4. SlowDefault(env) = 0 \/ Less(SlowDefault(env), 0)
  BY <1>1, <1>3 DEF Refused, Requested
<1>5. SlowDefault(env) = NegInf \/ SlowDefault(env) <= 0
  BY <1>1, <1>2, <1>4, LessFacts
<1> QED
  BY <1>5, SlowDefaultClamped
-----------------------------------------------------------------------------
(***************************************************************************)
(* The invariant of the endpoint: an answer is the one to the request and  *)
(* the exception that stand beside it.                                     *)
(***************************************************************************)
MappingIInv ==
  /\ env \in Environments
  /\ seconds \in Floats \cup {Unset}
  /\ exc \in DbExceptions \cup {NoException}
  /\ answer \in {Waiting, AnswerTo(seconds, exc)}

LEMMA MappingInvariant == MappingSpec => []MappingIInv
<1>1. MappingInit => MappingIInv
  BY DEF MappingInit, MappingIInv
<1>2. MappingIInv /\ [MappingNext]_slowVars => MappingIInv'
  <2> SUFFICES ASSUME MappingIInv, [MappingNext]_slowVars PROVE MappingIInv'
    OBVIOUS
  <2>1. CASE SlowQuery
    <3>1. AnswerTo(seconds', exc') = AnswerTo(seconds, exc)'
      BY <2>1 DEF SlowQuery, AnswerTo
    <3> QED
      BY <2>1, <3>1, SlowQueriesAssumption DEF SlowQuery, MappingIInv
  <2>2. CASE Answered
    BY <2>2 DEF Answered, MappingIInv
  <2>3. CASE UNCHANGED slowVars
    BY <2>3 DEF slowVars, MappingIInv, AnswerTo
  <2> QED
    BY <2>1, <2>2, <2>3 DEF MappingNext
<1> QED
  BY <1>1, <1>2, PTL DEF MappingSpec

LEMMA LabelledAnswers ==
  ASSUME MappingIInv, answer.type # "none"
  PROVE  /\ exc \in DbExceptions
         /\ answer.type = Classify(exc)
         /\ answer.status = HttpStatus(Classify(exc))
<1>1. answer = AnswerTo(seconds, exc)
  BY DEF MappingIInv, Waiting
<1>2. ~Refused(env, seconds) /\ exc # NoException
  BY <1>1 DEF AnswerTo
<1> QED
  BY <1>1, <1>2 DEF AnswerTo, MappingIInv

(***************************************************************************)
(* Whatever pulls db_up to 0 is answered 503.                              *)
(***************************************************************************)
THEOREM DownIsAnswered == MappingSpec => []DownIsAnswered503
<1>1. MappingIInv => DownIsAnswered503
  BY LabelledAnswers, DownStatus DEF DownIsAnswered503
<1> QED
  BY <1>1, MappingInvariant, PTL

(***************************************************************************)
(* Whatever numbers the environment and the parameter hold, no statement   *)
(* sleeps longer than the environment allows.                              *)
(***************************************************************************)
THEOREM SleepIsBounded == MappingSpec => []SlowQueryBounded
<1>1. MappingIInv => SlowQueryBounded
  <2> SUFFICES ASSUME MappingIInv PROVE SlowQueryBounded
    OBVIOUS
  <2>1. env \in Environments /\ seconds \in Floats \cup {Unset}
    BY DEF MappingIInv
  <2>2. answer.status \in {200, 500, 503} => ~Refused(env, seconds)
    BY DEF MappingIInv, Waiting, AnswerTo
  <2>3. answer.status = 400 => Refused(env, seconds)
    BY DEF MappingIInv, Waiting, AnswerTo, HttpStatus
  <2> QED
    BY <2>1, <2>2, <2>3, AcceptedIsBounded, RefusedDefault
       DEF SlowQueryBounded
<1> QED
  BY <1>1, MappingInvariant, PTL

(***************************************************************************)
(* No setting is a NaN, and none is below its bound.                       *)
(***************************************************************************)
THEOREM ClampsHold == MappingSpec => []ClampsRejectNaN
<1>1. MappingIInv => ClampsRejectNaN
  <2> SUFFICES ASSUME MappingIInv PROVE ClampsRejectNaN
    OBVIOUS
  <2>1. env \in Environments
    BY DEF MappingIInv
  <2>2. /\ Env(env.failureDelay, 20) \in Floats /\ Env(env.rps, 20) \in Floats
        /\ SettingsAssumption
    BY <2>1, EnvironmentTypes DEF Env, Floats
  <2> QED
    BY <2>1, <2>2, MaxClamps, SlowDefaultClamped
       DEF ClampsRejectNaN, FailureDelay, TrafficRps
<1> QED
  BY <1>1, MappingInvariant, PTL
=============================================================================
