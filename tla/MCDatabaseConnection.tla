------------------------ MODULE MCDatabaseConnection ------------------------
(* An instance of DatabaseConnection for TLC. *)
EXTENDS DatabaseConnection

\* One in r.DB, one that a check is about to store, and a new one.
MCPools == 1..3
=============================================================================
