----------------------------- MODULE SlowQueries -----------------------------
(***************************************************************************)
(* A process with some environment serves requests of /api/slow-query      *)
(* (app/routes/test_failures.py), the data endpoint with a number for a    *)
(* parameter: the numbers go through Settings and the exception of the     *)
(* statement through ErrorMapping, two tables and a classifier in two      *)
(* files that have to agree.                                               *)
(***************************************************************************)
EXTENDS ErrorMapping, Settings

CONSTANTS
  Environments,   \* what the process may be started with
  Parameters      \* what a request may carry

ASSUME SlowQueriesAssumption ==
  /\ SettingsAssumption
  /\ Environments \subseteq
       [slowMax : Int \cup {Unset}, slowDefault : Floats \cup {Unset},
        failureDelay : Floats \cup {Unset}, rps : Floats \cup {Unset}]
  /\ Parameters \subseteq Floats \cup {Unset}

VARIABLES env, seconds, exc, answer

slowVars == <<env, seconds, exc, answer>>

NoException == [class |-> "none", words |-> {}, mode |-> "none"]
Waiting == [type |-> "none", status |-> 0]

MappingInit ==
  /\ env \in Environments
  /\ seconds = Unset
  /\ exc = NoException
  /\ answer = Waiting

\* The parameter is tested, the statement sleeps or fails; the response
\* repeats the parameter, and a NaN cannot be rendered as JSON.
AnswerTo(s, e) ==
  IF Refused(env, s) THEN [type |-> "none", status |-> 400]
  ELSE IF e = NoException
    THEN [type |-> "none", status |-> IF s = NaN THEN 500 ELSE 200]
    ELSE [type |-> Classify(e), status |-> HttpStatus(Classify(e))]

SlowQuery ==
  /\ answer = Waiting
  /\ seconds' \in Parameters
  /\ exc' \in DbExceptions \cup {NoException}
  /\ answer' = AnswerTo(seconds', exc')
  /\ UNCHANGED env

Answered ==
  /\ answer # Waiting
  /\ seconds' = Unset
  /\ exc' = NoException
  /\ answer' = Waiting
  /\ UNCHANGED env

MappingNext == SlowQuery \/ Answered

MappingSpec == MappingInit /\ [][MappingNext]_slowVars

-----------------------------------------------------------------------------
(***************************************************************************)
(* The metric and the status agree: whatever pulls db_up to 0 (a type of   *)
(* DownTypes, or any failure of the switch) is answered 503, so an         *)
(* operator never sees the database reported down behind 500s.             *)
(***************************************************************************)
DownIsAnswered503 ==
  answer.type # "none" =>
    \/ answer.status = 503
    \/ /\ answer.type \notin DownTypes
       /\ exc.class # "SimulatedDatabaseFailure"

(***************************************************************************)
(* Neither the environment nor the parameter, NaN and infinity included,   *)
(* lets a statement sleep for ever, or longer than the environment allows  *)
(* (a second at least, 30 by default); and a request without the parameter *)
(* is refused only when the configured default is a number, and no         *)
(* positive one.                                                           *)
(***************************************************************************)
Allowed ==
  IF env.slowMax = Unset THEN 300
  ELSE IF env.slowMax >= 10 THEN env.slowMax ELSE 10

SlowQueryBounded ==
  /\ answer.status \in {200, 500, 503} =>
       /\ Slept(Requested(env, seconds)) \in Nat
       /\ Slept(Requested(env, seconds)) <= Allowed
  /\ answer.status = 400 /\ seconds = Unset =>
       /\ env.slowDefault \notin {Unset, NaN, Inf}
       /\ env.slowDefault = NegInf \/ env.slowDefault <= 0

(***************************************************************************)
(* The clamps of get_settings hold against a NaN too, which passes every   *)
(* comparison: they rest on the order of the arguments of max and min.     *)
(***************************************************************************)
ClampsRejectNaN ==
  /\ NaN \notin {SlowDefault(env), FailureDelay(env), TrafficRps(env)}
  /\ ~Less(FailureDelay(env), 0) /\ ~Less(TrafficRps(env), 1)

(***************************************************************************)
(* README.md, troubleshooting: when PostgreSQL cancels the sleep of        *)
(* /api/slow-query at its statement timeout, the endpoint "returns 500".   *)
(* psycopg raises that cancellation as an OperationalError whose message   *)
(* is "canceling statement due to statement timeout".                      *)
(***************************************************************************)
StatementCancelled ==
  [class |-> "OperationalError", words |-> {"timeout"}, mode |-> "none"]

CancelledStatementIs500 ==
  exc = StatementCancelled /\ answer.type # "none" => answer.status = 500
=============================================================================
