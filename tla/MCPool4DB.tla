------------------------------ MODULE MCPool4DB ------------------------------
(* Model-checking instance of Pool4DB: three marks, two of which hash to   *)
(* the same bucket so that find_table has to walk past a table of another  *)
(* mark, two samples and a slab of two tables, one fewer than the marks.  *)
EXTENDS Pool4DB

CONSTANTS m1, m2, m3, s1, s2, t1, t2

MCMarks == {m1, m2, m3}
MCSamples == {s1, s2}
MCHash == (m1 :> 0) @@ (m2 :> 0) @@ (m3 :> 1)
MCThreadsOne == {t1}
MCThreadsTwo == {t1, t2}

\* The database seen through find_table is the abstract map from mark to
\* pool4.
ABS == INSTANCE Pool4DBAbstract
        WITH pool4 <- [m \in Marks |-> TableSamples(FindTable(m))]

\* Every behaviour of the database is a behaviour of the abstract per-mark
\* pool4: each step of pool4db_add, rm, flush, init and destroy either
\* changes nothing a caller can observe through find_table, or is exactly
\* one abstract add, rm, flush, load or unload.
AbstractPools == ABS!Spec
=============================================================================
