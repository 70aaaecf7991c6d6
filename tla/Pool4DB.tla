------------------------------- MODULE Pool4DB -------------------------------
(***************************************************************************)
(* The pool4 database of src/mod/stateful/pool4/db.c: a hash table of      *)
(* pool4 tables keyed by packet mark, 2^power buckets of hlists, newest    *)
(* first. Every operation runs under rcu_read_lock() only, so two          *)
(* configuration calls may run at once: pool4db_add is split at its shared *)
(* accesses (find_table; create_table up to hlist_add_head reading the     *)
(* bucket head; the store of the new head). The pool4table_* functions are *)
(* not in the repository; a table is modelled as its mark and its set of   *)
(* samples, and each of its operations as one step.                        *)
(***************************************************************************)
EXTENDS Integers, Sequences, FiniteSets, SequencesExt

CONSTANTS
    Threads,    \* configuration callers (netlink requests)
    Marks,      \* packet marks (model values)
    Samples,    \* pool4 samples: address and port range (model values)
    Buckets,    \* the slots 0..2^power - 1 of db
    Hash,       \* hash_32(mark, power)
    TableIds,   \* the slab of struct pool4_table
    NoMark, NoSample

ASSUME /\ Hash \in [Marks -> Buckets]
       /\ TableIds \subseteq Nat \ {0}

NULL == 0

VARIABLES
    up,       \* pool4db_init succeeded and pool4db_destroy has not run
    db,       \* db[b]: the tables hooked in bucket b, head first
    tables,   \* allocated struct pool4_table: [mark, samples]
    pc        \* where each caller is inside pool4db_add, and its locals

vars == <<up, db, tables, pc>>

Idle == [at |-> "idle", mark |-> NoMark, sample |-> NoSample, table |-> NULL, next |-> <<>>]
Table == [mark: Marks, samples: SUBSET Samples]

\* Every variable holds a value of its type.
TypeOK ==
    /\ up \in BOOLEAN
    /\ db \in [Buckets -> Seq(TableIds)]
    /\ DOMAIN tables \subseteq TableIds /\ \A x \in DOMAIN tables : tables[x] \in Table
    /\ \A t \in Threads : pc[t].at \in {"idle", "create", "link"}

-----------------------------------------------------------------------------

\* kmalloc in pool4table_create: a free slot, or NULL
Alloc(slots, used) == IF slots \subseteq used THEN NULL ELSE Min(slots \ used)

\* Fault variant: the bucket's first table is taken without comparing marks.
FindTableAnyMark(m) == IF db[Hash[m]] = <<>> THEN NULL ELSE Head(db[Hash[m]])

\* find_table: the first table of the mark's bucket whose mark matches
FindTable(m) ==
    LET i == SelectInSeq(db[Hash[m]], LAMBDA x : tables[x].mark = m)
    IN  IF i = 0 THEN NULL ELSE db[Hash[m]][i]

TableSamples(x) == IF x = NULL THEN {} ELSE tables[x].samples

\* The tables reachable from db
Linked == UNION {Range(db[b]) : b \in Buckets}

-----------------------------------------------------------------------------
(* Operations *)

\* pool4db_init: power = 4, values = 0, every bucket empty. (When the
\* kmalloc of db fails nothing changes.)
Pool4dbInit ==
    /\ ~up
    /\ up' = TRUE
    /\ db' = [b \in Buckets |-> <<>>]
    /\ UNCHANGED <<tables, pc>>

\* pool4db_destroy at module unload, with no call in progress: every hooked
\* table is unhooked and destroyed, then db is freed.
Pool4dbDestroy ==
    /\ up
    /\ \A t \in Threads : pc[t].at = "idle"
    /\ up' = FALSE
    /\ db' = [b \in Buckets |-> <<>>]
    /\ tables' = [x \in DOMAIN tables \ Linked |-> tables[x]]
    /\ UNCHANGED pc

\* pool4db_add, first step: find_table. A table found gets the sample
\* (pool4table_add; its failure changes nothing); otherwise the caller goes
\* on to create_table.
Pool4dbAdd(t, m, s) ==
    LET x == FindTable(m)
    IN  /\ up /\ pc[t].at = "idle"
        /\ \/ /\ x # NULL
              /\ tables' = [tables EXCEPT ![x].samples = @ \cup {s}]
              /\ UNCHANGED pc
           \/ /\ x = NULL
              /\ pc' = [pc EXCEPT ![t] = [Idle EXCEPT !.at = "create", !.mark = m, !.sample = s]]
              /\ UNCHANGED tables
        /\ UNCHANGED <<up, db>>

\* Fault variant: pool4table_create's NULL is not checked.
CreateTableNoNullCheck(t) ==
    LET c == pc[t]
        x == Alloc(TableIds, DOMAIN tables)
    IN  /\ c.at = "create"
        /\ tables' = IF x = NULL THEN tables
                     ELSE tables @@ (x :> [mark |-> c.mark, samples |-> {c.sample}])
        /\ pc' = [pc EXCEPT ![t] = [c EXCEPT !.at = "link", !.table = x,
                                             !.next = db[Hash[c.mark]]]]
        /\ UNCHANGED <<up, db>>

\* Fault variant: the table is not freed when pool4table_add fails.
CreateTableLeak(t) ==
    LET c == pc[t]
        x == Alloc(TableIds, DOMAIN tables)
    IN  /\ c.at = "create"
        /\ \/ /\ x # NULL
              /\ tables' = tables @@ (x :> [mark |-> c.mark, samples |-> {}])
              /\ pc' = [pc EXCEPT ![t] = Idle]
           \/ /\ x # NULL
              /\ tables' = tables @@ (x :> [mark |-> c.mark, samples |-> {c.sample}])
              /\ pc' = [pc EXCEPT ![t] = [c EXCEPT !.at = "link", !.table = x,
                                                   !.next = db[Hash[c.mark]]]]
        /\ UNCHANGED <<up, db>>

\* create_table up to hlist_add_head's read of the bucket head: the table is
\* allocated (pool4table_create) and given the sample (pool4table_add); if
\* either fails the table is freed and the call returns the error.
CreateTable(t) ==
    LET c == pc[t]
        x == Alloc(TableIds, DOMAIN tables)
    IN  /\ c.at = "create"
        /\ \/ /\ pc' = [pc EXCEPT ![t] = Idle]
              /\ UNCHANGED tables
           \/ /\ x # NULL
              /\ tables' = tables @@ (x :> [mark |-> c.mark, samples |-> {c.sample}])
              /\ pc' = [pc EXCEPT ![t] = [c EXCEPT !.at = "link", !.table = x,
                                                   !.next = db[Hash[c.mark]]]]
        /\ UNCHANGED <<up, db>>

\* hlist_add_head's store of the new head: the bucket becomes the new table
\* followed by the head read in the previous step.
LinkTable(t) ==
    LET c == pc[t]
    IN  /\ c.at = "link"
        /\ db' = [db EXCEPT ![Hash[c.mark]] = <<c.table>> \o c.next]
        /\ pc' = [pc EXCEPT ![t] = Idle]
        /\ UNCHANGED <<up, tables>>

\* pool4db_rm: pool4table_rm on the mark's table, -ESRCH when there is none
Pool4dbRm(t, m, s) ==
    LET x == FindTable(m)
    IN  /\ up /\ pc[t].at = "idle"
        /\ x # NULL
        /\ tables' = [tables EXCEPT ![x].samples = @ \ {s}]
        /\ UNCHANGED <<up, db, pc>>

\* pool4db_flush: pool4table_flush on the mark's table
Pool4dbFlush(t, m) ==
    LET x == FindTable(m)
    IN  /\ up /\ pc[t].at = "idle"
        /\ x # NULL
        /\ tables' = [tables EXCEPT ![x].samples = {}]
        /\ UNCHANGED <<up, db, pc>>

-----------------------------------------------------------------------------
(* Queries: they change nothing and are operators of the state *)

\* pool4db_contains: the int result, -ESRCH when no table, returned as bool
Pool4dbContains(m, a) == LET x == FindTable(m) IN IF x = NULL THEN TRUE ELSE a \in tables[x].samples

\* Fault variant: the bucket loop stops one slot early (i < slots() - 1).
Pool4dbContainsAllShort(a) ==
    \E b \in Buckets \ {Max(Buckets)} : \E x \in Range(db[b]) : a \in tables[x].samples

\* pool4db_contains_all: walk every bucket and every table hooked in it,
\* stopping at the first table whose pool4table_contains holds
Pool4dbContainsAll(a) == \E b \in Buckets : \E x \in Range(db[b]) : a \in tables[x].samples

\* pool4db_is_empty: starts true and turns false on the first EMPTY table
Pool4dbIsEmpty == ~\E x \in Linked : tables[x].samples = {}

-----------------------------------------------------------------------------

Init ==
    /\ up = FALSE
    /\ db = [b \in Buckets |-> <<>>]
    /\ tables = <<>>
    /\ pc = [t \in Threads |-> Idle]

Next ==
    \/ Pool4dbInit
    \/ Pool4dbDestroy
    \/ \E t \in Threads, m \in Marks, s \in Samples : Pool4dbAdd(t, m, s)
    \/ \E t \in Threads : CreateTable(t)
    \/ \E t \in Threads : LinkTable(t)
    \/ \E t \in Threads, m \in Marks, s \in Samples : Pool4dbRm(t, m, s)
    \/ \E t \in Threads, m \in Marks : Pool4dbFlush(t, m)

Spec == Init /\ [][Next]_vars

-----------------------------------------------------------------------------
(* Properties *)

InFlight == {pc[t].table : t \in {u \in Threads : pc[u].at = "link"}}

Occurrences(x) == MapThenSumSet(LAMBDA b : Len(SelectSeq(db[b], LAMBDA y : y = x)), Buckets)

\* Every allocated table is either being hooked by a caller or hooked exactly
\* once, in the bucket of its own mark, and no two hooked tables have the
\* same mark: no table is leaked by create_table's error path, lost by a
\* racing hlist_add_head, or shadowed by a second table of its mark.
TableIndex ==
    /\ \A x \in DOMAIN tables :
          IF x \in InFlight THEN Occurrences(x) = 0
          ELSE Occurrences(x) = 1 /\ x \in Range(db[Hash[tables[x].mark]])
    /\ \A x, y \in Linked : x # y => tables[x].mark # tables[y].mark
\* The scan of pool4db_contains_all over every hooked table answers what the
\* per-mark pools seen through find_table hold: no sample is reported from a
\* table that find_table no longer reaches (a second table of one mark, or
\* one that create_table hooked in the wrong bucket), and none is missed.
ContainsAllAgrees ==
    \A a \in Samples :
        Pool4dbContainsAll(a) = \E m \in Marks : a \in TableSamples(FindTable(m))
=============================================================================
