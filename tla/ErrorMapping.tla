---------------------------- MODULE ErrorMapping ----------------------------
(***************************************************************************)
(* How a database exception becomes a metric label and an HTTP status:     *)
(* classify_db_error (app/database.py), db_http_exception                  *)
(* (app/routes/_common.py) and the error types that pull db_up down.       *)
(*                                                                         *)
(* An exception is its class, the words the classifier looks for in its    *)
(* message, and the mode if the failure switch raised it.                  *)
(***************************************************************************)
EXTENDS FiniteSets

SimulatedModes == {"connection_refused", "connection_timeout", "query_error"}

\* Exception classes, each standing for itself and the subclasses that the
\* isinstance tests before it have not taken.
RealClasses == {"PoolTimeout", "IntegrityError", "OperationalError",
                "DBAPIError", "OtherException"}

MessageWords == {"timeout", "refused", "does not exist", "authentication",
                 "too many clients"}

RealExceptions == [class : RealClasses, words : SUBSET MessageWords,
                   mode : {"none"}]

\* _FAILURE_MESSAGES, by the words of MessageWords they contain.
SimulatedWords(m) == CASE m = "connection_refused" -> {"refused"}
                       [] m = "connection_timeout" -> {"timeout"}
                       [] m = "query_error"        -> {}

Simulated(m) == [class |-> "SimulatedDatabaseFailure",
                 words |-> SimulatedWords(m), mode |-> m]

DbExceptions == RealExceptions \cup {Simulated(m) : m \in SimulatedModes}

-----------------------------------------------------------------------------
\* The message tests of an OperationalError, in their order.
ClassifyMessage(words) ==
  IF "timeout" \in words THEN "connection_timeout"
  ELSE IF "refused" \in words THEN "connection_refused"
  ELSE IF words \cap {"does not exist", "authentication"} # {}
    THEN "authentication_error"
  ELSE IF "too many clients" \in words THEN "connection_limit"
  ELSE "operational_error"

\* classify_db_error; "exception_name" stands for type(exc).__name__.
Classify(exc) ==
  CASE exc.class = "SimulatedDatabaseFailure" -> exc.mode
    [] exc.class = "PoolTimeout"      -> "pool_timeout"
    [] exc.class = "IntegrityError"   -> "integrity_error"
    [] exc.class = "OperationalError" -> ClassifyMessage(exc.words)
    [] exc.class = "DBAPIError"       -> "dbapi_error"
    [] OTHER                          -> "exception_name"

RealErrorTypes == {"pool_timeout", "integrity_error", "connection_timeout",
                   "connection_refused", "authentication_error",
                   "connection_limit", "operational_error", "dbapi_error",
                   "exception_name"}

ErrorTypes == RealErrorTypes \cup SimulatedModes

\* UNAVAILABLE_ERROR_TYPES: answered 503, every other failure 500.
BugUnavailableTypes ==   \* mutant: the pool's timeout left out
  {"connection_refused", "connection_timeout", "connection_limit",
   "operational_error", "query_error"}

UnavailableTypes ==
  {"connection_refused", "connection_timeout", "pool_timeout",
   "connection_limit", "operational_error", "query_error"}

HttpStatus(errorType) == IF errorType \in UnavailableTypes THEN 503 ELSE 500

\* The types for which tracked_db_operation itself lowers db_up.
DownTypes == {"connection_refused", "connection_timeout", "pool_timeout"}
=============================================================================
