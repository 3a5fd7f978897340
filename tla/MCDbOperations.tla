--------------------------- MODULE MCDbOperations ---------------------------
(* Small instances of DbOperations for TLC. *)
EXTENDS DbOperations

\* A mode that delays and one that does not, the second outside DownTypes.
MCModes == {"connection_timeout", "query_error"}

\* Two real errors that mean the database is down: the pool gave no connection
\* in time, and the server closed it, or its name could not be resolved.
MCQueryTypes == {"pool_timeout", "operational_error"}
=============================================================================
