--------------------------- MODULE MCKeyMigration ---------------------------
(* Four rows, of which one is invalid, in batches of two.                    *)
EXTENDS KeyMigration
=============================================================================
