-------------------------- MODULE MCDebconfFilter --------------------------
(* A script that asks two questions of its own and one of debconf's,       *)
(* reports an error, and nests progress bars of two titles.                *)
EXTENDS DebconfFilter
=============================================================================
