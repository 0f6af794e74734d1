------------------------- MODULE MCPostgresAdapter --------------------------
(***************************************************************************)
(* PostgresAdapter on small instances; the .cfg files differ in the kinds  *)
(* of method in use.  MaxCount stays just above the threshold.             *)
(***************************************************************************)
EXTENDS PostgresAdapter, TLC

=============================================================================
