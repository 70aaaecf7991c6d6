---------------------------- MODULE MCFilteringGC ----------------------------
(* Model-checking instance of FilteringGC, with the values of MCFiltering. *)
EXTENDS MCFiltering, FilteringGC
=============================================================================
