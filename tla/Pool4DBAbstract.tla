--------------------------- MODULE Pool4DBAbstract ---------------------------
(***************************************************************************)
(* What the pool4 database promises its callers: one pool4 per mark, each  *)
(* a set of samples that add, rm and flush change one call at a time, all  *)
(* of it gone when the module is unloaded.                                 *)
(***************************************************************************)
CONSTANTS Marks, Samples

VARIABLES
    up,      \* the database is initialised
    pool4    \* the samples of every mark's pool4

vars == <<up, pool4>>

NoPools == [m \in Marks |-> {}]

Init == up = FALSE /\ pool4 = NoPools

Load   == ~up /\ up' = TRUE /\ UNCHANGED pool4
Unload == up /\ up' = FALSE /\ pool4' = NoPools

Add(m, s)  == up /\ pool4' = [pool4 EXCEPT ![m] = @ \cup {s}] /\ UNCHANGED up
Rm(m, s)   == up /\ pool4' = [pool4 EXCEPT ![m] = @ \ {s}] /\ UNCHANGED up
Flush(m)   == up /\ pool4' = [pool4 EXCEPT ![m] = {}] /\ UNCHANGED up

Next ==
    \/ Load \/ Unload
    \/ \E m \in Marks, s \in Samples : Add(m, s) \/ Rm(m, s)
    \/ \E m \in Marks : Flush(m)

Spec == Init /\ [][Next]_vars
=============================================================================
