-------------------------------- MODULE Pool4 --------------------------------
(***************************************************************************)
(* The IPv4 transport-address pool of src/mod/pool4.c. Each protocol has   *)
(* a list of pool nodes (one per registered address, in registration       *)
(* order); a node splits its ports into four sections by parity and range, *)
(* each with a never-used cursor next_port, a bound max_port and a FIFO    *)
(* of returned ports. Callers borrow ports with pool4_get_any or           *)
(* pool4_get_similar and give them back with pool4_return; the variable    *)
(* loans records what the callers hold. Each of these calls holds one     *)
(* list lock throughout and is one step; the configuration calls, which   *)
(* take the locks one list at a time, are in Pool4Admin.                   *)
(***************************************************************************)
EXTENDS Integers, Sequences, FiniteSets, SequencesExt, BagsExt

CONSTANTS
    Addrs,         \* IPv4 addresses (model values)
    DefaultAddrs,  \* POOL4_DEF, registered by load_defaults, in order
    PoolOrder,     \* the pool[] array of pool4_register: <<"TCP", "UDP", "ICMP">>
    LowLimit,      \* 1024: ports below it are "low"
    MaxPort,       \* 65535
    ReqPorts       \* the IPv6 source ports callers ask to preserve

Protos == Range(PoolOrder)
SecNames == {"odd_low", "even_low", "odd_high", "even_high"}
Ports == 0..MaxPort

ASSUME /\ DefaultAddrs \in Seq(Addrs)
       /\ LowLimit \in 2..MaxPort /\ LowLimit % 2 = 0 /\ MaxPort % 2 = 1
       /\ ReqPorts \subseteq Ports

VARIABLES
    pools,   \* pools.tcp/udp/icmp: per protocol, the list of pool nodes
    loans,   \* bag of the ports callers hold: [proto, addr, port, req]
    leaked   \* ports pool4_return dropped on a kmalloc failure: [proto, addr, port]

vars == <<pools, loans, leaked>>

Section == [next: 0..(MaxPort + 2), max: Ports, free: Seq(Ports)]
Node    == [addr: Addrs, sec: [SecNames -> Section]]
Loan    == [proto: Protos, addr: Addrs, port: Ports, req: Ports]

\* Every variable holds a value of its type: cursors stay within one step of
\* their bound and every loan is of a real port.
TypeOK ==
    /\ pools \in [Protos -> Seq(Node)]
    /\ IsABag(loans) /\ BagToSet(loans) \subseteq Loan
    /\ leaked \subseteq [proto: Protos, addr: Addrs, port: Ports]

-----------------------------------------------------------------------------

\* init_section
InitSection(next, max) == [next |-> next, max |-> max, free |-> <<>>]

\* Fault variant: odd_high bounded one port pair too high.
NewNodeWideHigh(a) ==
    [addr |-> a,
     sec  |-> [odd_low   |-> InitSection(1, LowLimit - 1),
               even_low  |-> InitSection(0, LowLimit - 2),
               odd_high  |-> InitSection(LowLimit + 1, MaxPort + 2),
               even_high |-> InitSection(LowLimit, MaxPort - 1)]]

\* the node pool4_register builds for an address
NewNode(a) ==
    [addr |-> a,
     sec  |-> [odd_low   |-> InitSection(1, LowLimit - 1),
               even_low  |-> InitSection(0, LowLimit - 2),
               odd_high  |-> InitSection(LowLimit + 1, MaxPort),
               even_high |-> InitSection(LowLimit, MaxPort - 1)]]

\* get_pool_node: position of the first node of the list with address a, or 0
GetPoolNode(list, a) == SelectInSeq(list, LAMBDA n : n.addr = a)

\* destroy_pool_node: the node at position k is unlinked, and it and the free
\* ports of its four sections (destroy_section) are kfree'd
DestroyPoolNode(list, k) == RemoveAt(list, k)

\* pool4_contains: whether the UDP list, under its lock, has a node of a
Pool4Contains(a) == GetPoolNode(pools["UDP"], a) # 0

\* Fault variant: "<= 1024" for "< 1024".
GetSectionOffByOne(port) ==
    IF port <= LowLimit
    THEN IF port % 2 = 0 THEN "even_low" ELSE "odd_low"
    ELSE IF port % 2 = 0 THEN "even_high" ELSE "odd_high"

\* get_section: the section of the port's range and parity
GetSection(port) ==
    IF port < LowLimit
    THEN IF port % 2 = 0 THEN "even_low" ELSE "odd_low"
    ELSE IF port % 2 = 0 THEN "even_high" ELSE "odd_high"

\* extract_any_port: a previously used port first (FIFO), else the next
\* never-used one, advancing by two to keep the parity
CanExtract(sec) == sec.free # <<>> \/ sec.next <= sec.max
ExtractAnyPort(sec) ==
    IF sec.free # <<>>
    THEN [port |-> Head(sec.free), sec |-> [sec EXCEPT !.free = Tail(@)]]
    ELSE [port |-> sec.next, sec |-> [sec EXCEPT !.next = @ + 2]]

\* Lend from node i of protocol p the section of port req
Lend(p, i, req) ==
    LET n == pools[p][i]
        s == GetSection(req)
        x == ExtractAnyPort(n.sec[s])
    IN  /\ CanExtract(n.sec[s])
        /\ pools' = [pools EXCEPT ![p][i].sec[s] = x.sec]
        /\ loans' = BagAdd(loans, [proto |-> p, addr |-> n.addr, port |-> x.port, req |-> req])
        /\ UNCHANGED leaked

-----------------------------------------------------------------------------

\* load_defaults: every POOL4_DEF address registered, in order
Init ==
    /\ pools = [p \in Protos |-> [i \in DOMAIN DefaultAddrs |-> NewNode(DefaultAddrs[i])]]
    /\ loans = EmptyBag
    /\ leaked = {}

\* pool4_destroy: every node of every list destroyed
Pool4Destroy ==
    /\ \E p \in Protos : pools[p] # <<>>
    /\ pools' = [p \in Protos |-> <<>>]
    /\ leaked' = {}
    /\ UNCHANGED loans

\* pool4_get_any: the first node, in list order, whose section for the
\* requested port can still extract one. (When none can, the call fails and
\* nothing changes.)
Pool4GetAny(p, req) ==
    LET ok == {i \in DOMAIN pools[p] : CanExtract(pools[p][i].sec[GetSection(req)])}
    IN  /\ ok # {}
        /\ Lend(p, Min(ok), req)

\* pool4_get_similar: the node of the given address, the section of the
\* given port
Pool4GetSimilar(p, a, req) ==
    LET i == GetPoolNode(pools[p], a)
    IN  /\ i # 0
        /\ Lend(p, i, req)

\* Fault variant: the free_port record is allocated but never list_add'ed.
Pool4ReturnNoAdd(l) ==
    /\ BagIn(l, loans)
    /\ loans' = BagRemove(loans, l)
    /\ UNCHANGED <<pools, leaked>>

\* pool4_return: the port is appended to the free FIFO of its section in the
\* first node with its address. When the address is no longer in the pool,
\* or the free_port record cannot be allocated, the port is dropped.
Pool4Return(l) ==
    LET i == GetPoolNode(pools[l.proto], l.addr)
        s == GetSection(l.port)
    IN  /\ BagIn(l, loans)
        /\ loans' = BagRemove(loans, l)
        /\ \/ /\ i # 0
              /\ pools' = [pools EXCEPT ![l.proto][i].sec[s].free = Append(@, l.port)]
              /\ UNCHANGED leaked
           \/ /\ i = 0             \* "does not belong to the pool"
              /\ UNCHANGED <<pools, leaked>>
           \/ /\ i # 0             \* kmalloc failed: the port is leaked
              /\ leaked' = leaked \cup {[proto |-> l.proto, addr |-> l.addr, port |-> l.port]}
              /\ UNCHANGED pools

\* The packet path (get_any, get_similar, return) and the unload; the
\* configuration calls, register and remove, are steps of Pool4Admin.
PacketNext ==
    \/ Pool4Destroy
    \/ \E p \in Protos, req \in ReqPorts : Pool4GetAny(p, req)
    \/ \E p \in Protos, a \in Addrs, req \in ReqPorts : Pool4GetSimilar(p, a, req)
    \/ \E l \in BagToSet(loans) : Pool4Return(l)

-----------------------------------------------------------------------------
(* Properties *)

\* The ports of a section still to be lent by next_port
Unused(sec) == {n \in sec.next..sec.max : (n - sec.next) % 2 = 0}

LentCount(p, a, port) ==
    MapThenSumSet(LAMBDA l : loans[l],
                  {l \in DOMAIN loans : l.proto = p /\ l.addr = a /\ l.port = port})

\* No port is lent twice: for every protocol, address and port, at most one
\* caller holds it, and while it is held no node of that address can hand it
\* out again, neither from its free FIFO nor from its next_port cursor; a
\* free FIFO never holds a port twice or a port the cursor will still reach.
\* This is the accounting extract_any_port, pool4_return and the node
\* lifecycle (register, remove, destroy) must keep together.
NoDoubleLend ==
    /\ \A p \in Protos, a \in Addrs, port \in Ports :
          /\ LentCount(p, a, port) <= 1
          /\ LentCount(p, a, port) = 1 =>
                \A i \in DOMAIN pools[p] :
                   LET sec == pools[p][i].sec[GetSection(port)]
                   IN  pools[p][i].addr = a => port \notin Range(sec.free) \cup Unused(sec)
    /\ \A p \in Protos : \A i \in DOMAIN pools[p], s \in SecNames :
          LET sec == pools[p][i].sec[s]
          IN  IsInjective(sec.free) /\ Range(sec.free) \cap Unused(sec) = {}

\* Port preservation (spec 8, invariant 4; RFC 6146 3.5.1.1): every lent
\* port has the parity of the port it was asked for and lies on the same
\* side of LowLimit.
PortPreservation ==
    \A l \in BagToSet(loans) :
        /\ l.port % 2 = l.req % 2
        /\ (l.port < LowLimit) = (l.req < LowLimit)

\* The section that holds a port, by range and parity (the reference for
\* get_section)
SectionOf(port) ==
    CASE port < LowLimit /\ port % 2 = 1 -> "odd_low"
      [] port < LowLimit /\ port % 2 = 0 -> "even_low"
      [] port >= LowLimit /\ port % 2 = 1 -> "odd_high"
      [] port >= LowLimit /\ port % 2 = 0 -> "even_high"

\* Port conservation (spec 8, invariant 3; spec 5 "every port extracted must
\* be returned exactly once or be recorded as leaked"): every port of every
\* section of every node is in exactly one place: still ahead of next_port,
\* in the free FIFO (once), held by a caller, or recorded as leaked by
\* pool4_return. Extract, return and the node lifecycle move ports between
\* these places and must never drop or copy one.
PortConservation ==
    \A p \in Protos : \A i \in DOMAIN pools[p] :
        LET n == pools[p][i]
        IN  \A port \in Ports :
              LET sec == n.sec[SectionOf(port)]
              IN  (IF port \in Unused(sec) THEN 1 ELSE 0)
                  + Len(SelectSeq(sec.free, LAMBDA f : f = port))
                  + LentCount(p, n.addr, port)
                  + (IF [proto |-> p, addr |-> n.addr, port |-> port] \in leaked THEN 1 ELSE 0)
                  = 1

=============================================================================
