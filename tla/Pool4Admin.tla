------------------------------ MODULE Pool4Admin ------------------------------
(***************************************************************************)
(* The administrative calls of src/mod/pool4.c at the granularity of their *)
(* locks. Each protocol list has its own spinlock, taken one list at a     *)
(* time: pool4_register appends to the lists in pool[] order, pool4_remove *)
(* removes from them in the same order, and pool4_to_array counts the UDP  *)
(* list under one lock hold and copies it under another. Nothing in the    *)
(* repository serialises these calls, so callers interleave between lists. *)
(* The packet path's calls of Pool4 run between any two of these steps.   *)
(***************************************************************************)
EXTENDS Pool4

CONSTANTS
    Admins,      \* configuration callers
    NoAddr,
    ArrayRatio   \* sizeof(struct pool_node) / sizeof(struct in_addr)

ASSUME "UDP" \in Protos /\ ArrayRatio \in Nat \ {0}

VARIABLE apc   \* each caller's call in progress and its locals

adminVars == <<vars, apc>>

AIdle == [op |-> "idle", addr |-> NoAddr, i |-> 1, size |-> 0]

-----------------------------------------------------------------------------

\* pool4_register: every node is allocated first (a failure frees them and
\* returns with nothing changed), then list i gets its node under its lock.
AdmRegister(t, a) ==
    /\ apc[t].op = "idle"
    /\ apc' = [apc EXCEPT ![t] = [AIdle EXCEPT !.op = "register", !.addr = a]]
    /\ UNCHANGED vars

\* Fault variant: the insertion loop stops one list early.
AdmRegisterStepShort(t) ==
    LET c == apc[t]
        p == PoolOrder[c.i]
        last == c.i >= Len(PoolOrder) - 1
    IN  /\ c.op = "register"
        /\ pools' = [pools EXCEPT ![p] = Append(@, NewNode(c.addr))]
        /\ apc' = [apc EXCEPT ![t] = IF last THEN AIdle ELSE [c EXCEPT !.i = @ + 1]]
        /\ UNCHANGED <<loans, leaked>>

AdmRegisterStep(t) ==
    LET c == apc[t]
        p == PoolOrder[c.i]
    IN  /\ c.op = "register"
        /\ pools' = [pools EXCEPT ![p] = Append(@, NewNode(c.addr))]
        /\ apc' = [apc EXCEPT ![t] = IF c.i = Len(PoolOrder) THEN AIdle
                                     ELSE [c EXCEPT !.i = @ + 1]]
        /\ UNCHANGED <<loans, leaked>>

\* pool4_remove: under the lock of list i the first node of the address, if
\* any, is destroyed with its free ports; ports of it on loan or leaked
\* are no longer the pool's. (The count of lists it was found in only picks the
\* return code and the log line, which no property reads.)
AdmRemove(t, a) ==
    /\ apc[t].op = "idle"
    /\ apc' = [apc EXCEPT ![t] = [AIdle EXCEPT !.op = "remove", !.addr = a]]
    /\ UNCHANGED vars

AdmRemoveStep(t) ==
    LET c == apc[t]
        p == PoolOrder[c.i]
        k == GetPoolNode(pools[p], c.addr)
    IN  /\ c.op = "remove"
        /\ pools' = IF k = 0 THEN pools ELSE [pools EXCEPT ![p] = DestroyPoolNode(@, k)]
        /\ leaked' = {l \in leaked : l.proto # p \/ GetPoolNode(pools'[p], l.addr) # 0}
        /\ apc' = [apc EXCEPT ![t] = IF c.i = Len(PoolOrder) THEN AIdle
                                     ELSE [c EXCEPT !.i = @ + 1]]
        /\ UNCHANGED loans

\* pool4_to_array, first lock hold: count the UDP list; the array is then
\* kmalloc'ed for size * sizeof(*node) bytes (a failure returns).
AdmToArray(t) ==
    /\ apc[t].op = "idle"
    /\ apc' = [apc EXCEPT ![t] = [AIdle EXCEPT !.op = "copy", !.size = Len(pools["UDP"])]]
    /\ UNCHANGED vars

\* Second lock hold: every node of the UDP list is copied into the array.
\* kmalloc(0) returns ZERO_SIZE_PTR, not NULL, so an empty count goes on too.
AdmToArrayCopy(t) ==
    /\ apc[t].op = "copy"
    /\ apc' = [apc EXCEPT ![t] = AIdle]
    /\ UNCHANGED vars

-----------------------------------------------------------------------------

AdminInit == Init /\ apc = [t \in Admins |-> AIdle]

\* The configuration calls, given the addresses a caller may register
ConfigNext(MayRegister(_)) ==
    \/ \E t \in Admins, a \in Addrs : MayRegister(a) /\ AdmRegister(t, a)
    \/ \E t \in Admins, a \in Addrs : AdmRemove(t, a)
    \/ \E t \in Admins : AdmRegisterStep(t) \/ AdmRemoveStep(t)
    \/ \E t \in Admins : AdmToArray(t) \/ AdmToArrayCopy(t)

\* The packet path interleaved with the configuration calls; pool4_destroy
\* runs at module unload, when no configuration call is in progress.
AdminNext(MayRegister(_)) ==
    \/ ConfigNext(MayRegister)
    \/ /\ PacketNext /\ UNCHANGED apc
       /\ Pool4Destroy => \A t \in Admins : apc[t].op = "idle"

-----------------------------------------------------------------------------
(* Properties *)

\* Nodes of an address, per list
NodeCount(p, a) == Len(SelectSeq(pools[p], LAMBDA n : n.addr = a))

\* Whenever no register or remove is halfway through the lists, every
\* address has as many nodes in each protocol's list as in every other:
\* pool4_remove's "incomplete index" never arises and pool4_contains (UDP
\* only) answers for every protocol.
PoolsAgree ==
    (\A t \in Admins : apc[t].op \notin {"register", "remove"}) =>
        \A a \in Addrs, p, q \in Protos :
            /\ NodeCount(p, a) = NodeCount(q, a)
            /\ Pool4Contains(a) = (GetPoolNode(pools[p], a) # 0)

\* The array pool4_to_array is about to fill holds every node of the UDP
\* list it will copy.
ToArrayInBounds ==
    \A t \in Admins : apc[t].op = "copy" => Len(pools["UDP"]) <= apc[t].size * ArrayRatio
=============================================================================
