----------------------------- MODULE MCBackfill -----------------------------
(* Instances of Backfill with a model value for the shell.                 *)
EXTENDS Backfill

CONSTANT p1
=============================================================================
