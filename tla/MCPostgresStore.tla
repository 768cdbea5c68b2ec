--------------------------- MODULE MCPostgresStore ---------------------------
(* Small instances of PostgresStore for TLC; the constants are in the cfgs. *)
EXTENDS PostgresStore
=============================================================================
