------------------------------ MODULE Filtering ------------------------------
(***************************************************************************)
(* The stateful filtering-and-updating plane of the NAT64 translator, as   *)
(* implemented by the inline helpers of                                    *)
(* src/include/nf_nat64_filtering_and_updating.h:                          *)
(*   - the BIB entries and their two hash indices hash6/hash4,             *)
(*   - the session entries hanging off each BIB,                           *)
(*   - the five expiry queues and session_renew,                           *)
(*   - the TCP state machine (tcp6_fsm, tcp4_fsm, tcp_timeout_fsm),        *)
(*   - the garbage collector clean_expired_sessions,                       *)
(*   - bib_session_create and its legacy transport-address pool.           *)
(* The per-packet orchestrator (filtering_and_updating) is declared in     *)
(* src/include/nat64/mod/filtering_and_updating.h but its body is not in   *)
(* the repository; the packet actions below follow spec section 4.5 and    *)
(* call the helpers exactly as that algorithm prescribes.                  *)
(***************************************************************************)
EXTENDS Integers, Sequences, FiniteSets, SequencesExt

CONSTANTS
    Protos,       \* the protocols whose packets are modelled, a subset of {"UDP", "TCP"}
    V6Hosts,      \* IPv6 source transport addresses X' (model values)
    V4Peers,      \* outside peers Z (model values); Y' embeds Z one-to-one
    PoolAddrs,    \* the legacy free transport-address list, in list order
    BadTA,        \* the transport address (-1, -1) built when the pool is empty
    BibCache,     \* per protocol, the slots of its BIB cache (bib_cache, bib_cacheTCP)
    SessCache,    \* per protocol, the slots of its session cache (st_cache, st_cacheTCP)
    StaticEntries, \* the parsed lines handed to print_bufu: [proto, x, z]
    TcpFlags,     \* the flag combinations of TCP packets (subsets of {"SYN","FIN","RST"})
    Timeout,      \* the default expiry_base[k].timeout of every expiry kind k
    TimeoutChoices, \* the timeouts set_filtering_config may write
    MaxTime       \* bound on jiffies

NULL == 0
NoRenew == "NONE"
NoPacket == {"NO_PACKET"}   \* a flag set no packet carries: the creation was not caused by a packet

\* enum expiry_type and enum state_type
Kinds == {"UDP_DEFAULT", "TCP_TRANS", "TCP_EST", "TCP_INCOMING_SYN", "ICMP_DEFAULT"}
States == {"CLOSED", "V6_SYN_RCV", "V4_SYN_RCV", "FOUR_MIN", "ESTABLISHED",
           "V6_FIN_RCV", "V4_FIN_RCV", "V6_FIN_V4_FIN"}
TAddrs == Range(PoolAddrs) \cup {BadTA}

ASSUME /\ Protos \subseteq {"UDP", "TCP"}
       /\ BibCache \in [Protos -> SUBSET (Nat \ {0})]
       /\ SessCache \in [Protos -> SUBSET (Nat \ {0})]
       /\ \A p, q \in Protos : p # q => BibCache[p] \cap BibCache[q] = {}
       /\ \A p, q \in Protos : p # q => SessCache[p] \cap SessCache[q] = {}
       /\ TcpFlags \subseteq SUBSET {"SYN", "FIN", "RST"}
       /\ StaticEntries \subseteq [proto: Protos \cup {"ICMP"}, x: V6Hosts, z: V4Peers]
       /\ Timeout \in [Kinds -> Nat \ {0}]
       /\ TimeoutChoices \subseteq Nat \ {0}
       /\ MaxTime \in Nat

VARIABLES
    bib,       \* allocated struct nat64_bib_entry, by slab slot
    freedBib,  \* slots passed to kmem_cache_free while still hooked in hash6/hash4
    hash6,     \* the byremote hooks, newest first (hlist_add_head)
    hash4,     \* the bylocal hooks, newest first
    sess,      \* allocated struct nat64_st_entry, by slab slot
    expiry,    \* expiry_base[k].queue, head first
    pool,      \* the legacy free transport-address list
    now,       \* jiffies
    timeout    \* expiry_base[k].timeout

BibIds == UNION Range(BibCache)
SessIds == UNION Range(SessCache)

vars == <<bib, freedBib, hash6, hash4, sess, expiry, pool, now, timeout>>

BibRec  == [type: Protos, x: V6Hosts, ta: TAddrs, sessions: SUBSET SessIds]
MaxTimeout == Max(Range(Timeout) \cup TimeoutChoices)
SessRec == [bib: BibIds, z: V4Peers, state: States, exp: 0..(MaxTime + MaxTimeout)]

\* Every variable holds a value of its type; in particular no deadline lies
\* further ahead than the longest timeout.
TypeOK ==
    /\ DOMAIN bib \subseteq BibIds /\ \A b \in DOMAIN bib : bib[b] \in BibRec
    /\ freedBib \subseteq DOMAIN bib
    /\ hash6 \in Seq(BibIds) /\ hash4 \in Seq(BibIds)
    /\ DOMAIN sess \subseteq SessIds /\ \A s \in DOMAIN sess : sess[s] \in SessRec
    /\ expiry \in [Kinds -> Seq(SessIds)]
    /\ pool \in Seq(Range(PoolAddrs))
    /\ now \in 0..MaxTime
    /\ timeout \in [Kinds -> Range(Timeout) \cup TimeoutChoices]

-----------------------------------------------------------------------------
(* Lookups *)

\* bib_ipv6_lookup: first entry of the bucket with the same type, address and port.
\* Entries with equal keys always share a bucket, so the first match of the
\* whole hook list is the first match of the bucket.
Lookup6(p, x) ==
    LET i == SelectInSeq(hash6, LAMBDA b : bib[b].type = p /\ bib[b].x = x)
    IN  IF i = 0 THEN NULL ELSE hash6[i]

\* bib_ipv4_lookup
Lookup4(p, t) ==
    LET i == SelectInSeq(hash4, LAMBDA b : bib[b].type = p /\ bib[b].ta = t)
    IN  IF i = 0 THEN NULL ELSE hash4[i]

\* session_ipv4_lookup: scan the BIB's session list for the remote address
SessionLookup(b, z) ==
    IF \E s \in bib[b].sessions : sess[s].z = z
    THEN CHOOSE s \in bib[b].sessions : sess[s].z = z
    ELSE NULL

-----------------------------------------------------------------------------
(* Expiry queues *)

Unlink(q, s) == [k \in Kinds |-> SelectSeq(q[k], LAMBDA e : e # s)]

\* Fault variants of session_renew, each a plausible slip in that code, used to
\* confirm that the properties below can fail: no list_del, list_add instead
\* of list_add_tail, and "expires += timeout" instead of jiffies + timeout.
SessionRenewNoUnlink(sf, q, s, k) ==
    [sess |-> [sf EXCEPT ![s].exp = now + timeout[k]], expiry |-> [q EXCEPT ![k] = Append(@, s)]]
SessionRenewAtHead(sf, q, s, k) ==
    [sess |-> [sf EXCEPT ![s].exp = now + timeout[k]], expiry |-> [Unlink(q, s) EXCEPT ![k] = <<s>> \o @]]
SessionRenewExtend(sf, q, s, k) ==
    [sess |-> [sf EXCEPT ![s].exp = @ + timeout[k]], expiry |-> [Unlink(q, s) EXCEPT ![k] = Append(@, s)]]

\* session_renew: list_del, new deadline, list_add_tail on queue k
SessionRenew(sf, q, s, k) ==
    [sess   |-> [sf EXCEPT ![s].exp = now + timeout[k]],
     expiry |-> [Unlink(q, s) EXCEPT ![k] = Append(@, s)]]

-----------------------------------------------------------------------------
(* TCP state machine: state x flags -> next state and renew target *)

Go(st, k) == [state |-> st, renew |-> k]

\* tcp6_fsm: a packet arriving from the IPv6 side
Tcp6Fsm(st, f) ==
    CASE st = "CLOSED"        -> IF "SYN" \in f THEN Go("V6_SYN_RCV", "TCP_TRANS") ELSE Go(st, NoRenew)
      [] st = "V6_SYN_RCV"    -> IF "SYN" \in f THEN Go(st, "TCP_TRANS") ELSE Go(st, NoRenew)
      [] st = "V4_SYN_RCV"    -> IF "SYN" \in f THEN Go("ESTABLISHED", "TCP_EST") ELSE Go(st, NoRenew)
      [] st = "FOUR_MIN"      -> IF "RST" \notin f THEN Go("ESTABLISHED", "TCP_EST") ELSE Go(st, NoRenew)
      [] st = "ESTABLISHED"   -> IF "FIN" \in f THEN Go("V6_FIN_RCV", NoRenew)
                                 ELSE IF "RST" \in f THEN Go("FOUR_MIN", "TCP_TRANS")
                                 ELSE Go(st, "TCP_EST")
      [] st = "V6_FIN_RCV"    -> Go(st, "TCP_EST")
      [] st = "V4_FIN_RCV"    -> IF "FIN" \in f THEN Go("V6_FIN_V4_FIN", "TCP_TRANS") ELSE Go(st, "TCP_EST")
      [] st = "V6_FIN_V4_FIN" -> Go(st, NoRenew)

\* Fault variant: tcp4_fsm's FOUR_MIN case sets ESTABLISHED without the
\* session_renew(session, TCP_EST) before it (as in the ESTABLISHED + FIN
\* cases, where that call is commented out).
Tcp4FsmFourMinNoRenew(st, f) ==
    CASE st = "CLOSED"        -> Go(st, NoRenew)
      [] st = "V6_SYN_RCV"    -> IF "SYN" \in f THEN Go("ESTABLISHED", "TCP_EST") ELSE Go(st, NoRenew)
      [] st = "V4_SYN_RCV"    -> Go(st, NoRenew)
      [] st = "FOUR_MIN"      -> IF "RST" \notin f THEN Go("ESTABLISHED", NoRenew) ELSE Go(st, NoRenew)
      [] st = "ESTABLISHED"   -> IF "FIN" \in f THEN Go("V4_FIN_RCV", NoRenew)
                                 ELSE IF "RST" \in f THEN Go("FOUR_MIN", "TCP_TRANS")
                                 ELSE Go(st, "TCP_EST")
      [] st = "V6_FIN_RCV"    -> IF "FIN" \in f THEN Go("V6_FIN_V4_FIN", "TCP_TRANS") ELSE Go(st, "TCP_EST")
      [] st = "V4_FIN_RCV"    -> Go(st, "TCP_EST")
      [] st = "V6_FIN_V4_FIN" -> Go(st, NoRenew)

\* tcp4_fsm: a packet arriving from the IPv4 side
Tcp4Fsm(st, f) ==
    CASE st = "CLOSED"        -> Go(st, NoRenew)
      [] st = "V6_SYN_RCV"    -> IF "SYN" \in f THEN Go("ESTABLISHED", "TCP_EST") ELSE Go(st, NoRenew)
      [] st = "V4_SYN_RCV"    -> Go(st, NoRenew)
      [] st = "FOUR_MIN"      -> IF "RST" \notin f THEN Go("ESTABLISHED", "TCP_EST") ELSE Go(st, NoRenew)
      [] st = "ESTABLISHED"   -> IF "FIN" \in f THEN Go("V4_FIN_RCV", NoRenew)
                                 ELSE IF "RST" \in f THEN Go("FOUR_MIN", "TCP_TRANS")
                                 ELSE Go(st, "TCP_EST")
      [] st = "V6_FIN_RCV"    -> IF "FIN" \in f THEN Go("V6_FIN_V4_FIN", "TCP_TRANS") ELSE Go(st, "TCP_EST")
      [] st = "V4_FIN_RCV"    -> Go(st, "TCP_EST")
      [] st = "V6_FIN_V4_FIN" -> Go(st, NoRenew)

\* Fault variant: tcp_timeout_fsm that always returns 0.
TcpTimeoutFsmNoGrace(st) == Go(st, NoRenew)

\* tcp_timeout_fsm: an expired session gets a grace period iff ESTABLISHED
TcpTimeoutFsm(st) ==
    IF st = "ESTABLISHED" THEN Go("FOUR_MIN", "TCP_TRANS") ELSE Go(st, NoRenew)

-----------------------------------------------------------------------------
(* Allocation and creation *)

\* kmem_cache_zalloc: a free slab slot, or NULL when the slab is exhausted
Alloc(slots, used) == IF slots \subseteq used THEN NULL ELSE Min(slots \ used)

\* get_tranport_addr on the legacy list; (-1, -1) when it is empty
TakeAddr == IF pool = <<>> THEN BadTA ELSE Head(pool)
RestOfPool == IF pool = <<>> THEN <<>> ELSE Tail(pool)

\* Fault variant: session_create with list_add instead of list_add_tail.
SessionCreateAtHead(s, b, z, k) ==
    [sess   |-> sess @@ (s :> [bib |-> b, z |-> z, state |-> "CLOSED", exp |-> now + timeout[k]]),
     expiry |-> [expiry EXCEPT ![k] = <<s>> \o @]]

\* session_create / session_create_tcp: a CLOSED session at the head of the
\* BIB's list and at the tail of queue k (the caller checked s # NULL)
SessionCreate(s, b, z, k) ==
    [sess   |-> sess @@ (s :> [bib |-> b, z |-> z, state |-> "CLOSED", exp |-> now + timeout[k]]),
     expiry |-> [expiry EXCEPT ![k] = Append(@, s)]]

\* session_create_tcp: the same steps as session_create, on st_cacheTCP
SessionCreateTcp(s, b, z, k) == SessionCreate(s, b, z, k)

\* bib_create: an entry with an empty session list
BibCreate(p, x, t) == [type |-> p, x |-> x, ta |-> t, sessions |-> {}]

\* bib_create_tcp: the same entry, from bib_cacheTCP
BibCreateTcp(x, t) == BibCreate("TCP", x, t)

\* The queue a new session starts on (the calls in print_bufu)
CreateKind(p) == IF p = "TCP" THEN "TCP_TRANS" ELSE "UDP_DEFAULT"

\* What a packet does to a known session: the TCP state machine of its side,
\* or a renewal on UDP_DEFAULT for UDP (spec 4.5 steps 5 and 6).
Touch(sf, q, s, p, side, f) ==
    LET r   == IF p = "UDP" THEN Go(sf[s].state, "UDP_DEFAULT")
               ELSE IF side = 6 THEN Tcp6Fsm(sf[s].state, f) ELSE Tcp4Fsm(sf[s].state, f)
        sf1 == [sf EXCEPT ![s].state = r.state]
    IN  IF r.renew = NoRenew THEN [sess |-> sf1, expiry |-> q]
        ELSE SessionRenew(sf1, q, s, r.renew)

Flags(p) == IF p = "TCP" THEN TcpFlags ELSE {{}}
AllFlags == TcpFlags \cup {{}}

-----------------------------------------------------------------------------
(* Packet path (spec 4.5), calling the helpers above *)

\* v6 -> v4, BIB and session known
Packet6Known(p, x, z, f) ==
    LET b == Lookup6(p, x)
        s == SessionLookup(b, z)
        r == Touch(sess, expiry, s, p, 6, f)
    IN  /\ f \in Flags(p)
        /\ b # NULL /\ s # NULL
        /\ sess' = r.sess /\ expiry' = r.expiry
        /\ UNCHANGED <<bib, freedBib, hash6, hash4, pool, now, timeout>>

\* v6 -> v4, BIB known, new remote: session_create then the state machine
Packet6NewSession(p, x, z, f) ==
    LET b == Lookup6(p, x)
        s == Alloc(SessCache[p], DOMAIN sess)
        c == SessionCreate(s, b, z, CreateKind(p))
        r == Touch(c.sess, c.expiry, s, p, 6, f)
    IN  /\ f \in Flags(p)
        /\ b # NULL /\ SessionLookup(b, z) = NULL /\ s # NULL
        /\ bib' = [bib EXCEPT ![b].sessions = @ \cup {s}]
        /\ sess' = r.sess /\ expiry' = r.expiry
        /\ UNCHANGED <<freedBib, hash6, hash4, pool, now, timeout>>

\* bib_session_create: take a transport address (the address is not given
\* back on any failure), bib_create, hook the entry at the head of both hash
\* lists and session_create on queue k; when a packet with flags f caused the
\* call, the caller then runs it through the state machine of the new
\* session (f = NoPacket for print_bufu). "local4_port < 0" is never true for the unsigned local4_port, so an
\* empty pool yields BadTA. A failed session_create frees the BIB with
\* kmem_cache_free but leaves it hooked.
BibSessionCreate(p, x, z, k, f) ==
    LET t == TakeAddr
        b == Alloc(BibCache[p], DOMAIN bib)
        s == Alloc(SessCache[p], DOMAIN sess)
        e == IF p = "TCP" THEN BibCreateTcp(x, t) ELSE BibCreate(p, x, t)
        c == IF p = "TCP" THEN SessionCreateTcp(s, b, z, k) ELSE SessionCreate(s, b, z, k)
        r == IF f = NoPacket THEN c ELSE Touch(c.sess, c.expiry, s, p, 6, f)
    IN  /\ pool' = RestOfPool
        /\ \/ /\ b = NULL
              /\ UNCHANGED <<bib, freedBib, hash6, hash4, sess, expiry>>
           \/ /\ b # NULL /\ s = NULL
              /\ bib' = bib @@ (b :> e)
              /\ freedBib' = freedBib \cup {b}
              /\ hash6' = <<b>> \o hash6 /\ hash4' = <<b>> \o hash4
              /\ UNCHANGED <<sess, expiry>>
           \/ /\ b # NULL /\ s # NULL
              /\ bib' = bib @@ (b :> [e EXCEPT !.sessions = {s}])
              /\ hash6' = <<b>> \o hash6 /\ hash4' = <<b>> \o hash4
              /\ sess' = r.sess /\ expiry' = r.expiry
              /\ UNCHANGED freedBib
        /\ UNCHANGED <<now, timeout>>

\* bib_session_create_tcp: the same steps on bib_cacheTCP and st_cacheTCP
BibSessionCreateTcp(x, z, k, f) == BibSessionCreate("TCP", x, z, k, f)

\* The creation call of protocol p
CreateFor(p, x, z, k, f) ==
    IF p = "TCP" THEN BibSessionCreateTcp(x, z, k, f)
    ELSE BibSessionCreate(p, x, z, k, f)

\* v6 -> v4, no BIB: a BIB and session are created on the protocol's
\* creation queue, then the packet goes through the state machine.
Packet6NewFlow(p, x, z, f) ==
    /\ f \in Flags(p)
    /\ Lookup6(p, x) = NULL
    /\ CreateFor(p, x, z, CreateKind(p), f)

\* print_bufu: one configured line "proto&X'#x&Y'#y" becomes a BIB and a
\* session through the same creation call, with no bib_ipv6_lookup first:
\* an entry for an X' that already has a BIB hooks a second one in front of
\* it. The session stays CLOSED on TCP_TRANS or UDP_DEFAULT; "icmp" and
\* unknown tokens fall through the switch.
StaticEntry(e) ==
    /\ e.proto \in Protos
    /\ CreateFor(e.proto, e.x, e.z, CreateKind(e.proto), NoPacket)

\* v4 -> v6, BIB and session known
Packet4Known(p, t, z, f) ==
    LET b == Lookup4(p, t)
        s == SessionLookup(b, z)
        r == Touch(sess, expiry, s, p, 4, f)
    IN  /\ f \in Flags(p)
        /\ b # NULL /\ s # NULL
        /\ sess' = r.sess /\ expiry' = r.expiry
        /\ UNCHANGED <<bib, freedBib, hash6, hash4, pool, now, timeout>>

\* v4 -> v6, BIB known, new remote: a UDP session on UDP_DEFAULT, or for a
\* TCP SYN a tentative V4_SYN_RCV session on TCP_INCOMING_SYN (spec 4.5).
\* Other TCP packets, and packets with no BIB, are dropped without effect.
Packet4NewSession(p, t, z, f) ==
    LET b  == Lookup4(p, t)
        s  == Alloc(SessCache[p], DOMAIN sess)
        k  == IF p = "TCP" THEN "TCP_INCOMING_SYN" ELSE "UDP_DEFAULT"
        c  == SessionCreate(s, b, z, k)
        c1 == IF p = "TCP" THEN [c EXCEPT !.sess[s].state = "V4_SYN_RCV"] ELSE c
        r  == Touch(c1.sess, c1.expiry, s, p, 4, f)
    IN  /\ f \in Flags(p)
        /\ b # NULL /\ SessionLookup(b, z) = NULL /\ s # NULL
        /\ p = "TCP" => "SYN" \in f
        /\ bib' = [bib EXCEPT ![b].sessions = @ \cup {s}]
        /\ sess' = r.sess /\ expiry' = r.expiry
        /\ UNCHANGED <<freedBib, hash6, hash4, pool, now, timeout>>

-----------------------------------------------------------------------------
(* Garbage collector *)

Expired(s) == now > sess[s].exp   \* time_after(jiffies, session->expires)

\* clean_expired_sessions(_tcp) on queue k: walk from the head while the head
\* has expired; an ESTABLISHED session is demoted by tcp_timeout_fsm and moved
\* to the tail of TCP_TRANS, any other is unlinked and freed, and a BIB whose
\* session list becomes empty is unhooked and freed. Its transport address
\* is not given back to the pool.
Reap(k) ==
    LET q    == expiry[k]
        n    == CHOOSE m \in 0..Len(q) :
                    /\ \A i \in 1..m : Expired(q[i])
                    /\ m < Len(q) => ~Expired(q[m + 1])
        E    == SubSeq(q, 1, n)
        Kept == SelectSeq(E, LAMBDA s : TcpTimeoutFsm(sess[s].state).renew # NoRenew)
        Dead == ToSet(E) \ ToSet(Kept)
        DeadBibs == {b \in DOMAIN bib : bib[b].sessions \cap Dead # {}
                                        /\ bib[b].sessions \subseteq Dead}
        q1   == [expiry EXCEPT ![k] = SubSeq(q, n + 1, Len(q))]
    IN  /\ n > 0
        /\ sess' = [s \in DOMAIN sess \ Dead |->
                      IF s \in ToSet(Kept)
                      THEN [sess[s] EXCEPT !.state = TcpTimeoutFsm(@).state,
                                           !.exp = now + timeout["TCP_TRANS"]]
                      ELSE sess[s]]
        /\ expiry' = [q1 EXCEPT !["TCP_TRANS"] = @ \o Kept]
        /\ bib' = [b \in DOMAIN bib \ DeadBibs |-> [bib[b] EXCEPT !.sessions = @ \ Dead]]
        /\ freedBib' = freedBib \ DeadBibs
        /\ hash6' = SelectSeq(hash6, LAMBDA b : b \notin DeadBibs)
        /\ hash4' = SelectSeq(hash4, LAMBDA b : b \notin DeadBibs)
        /\ UNCHANGED <<pool, now, timeout>>

\* clean_expired_sessions_tcp: the same walk on a TCP queue, freeing into
\* bib_cacheTCP and st_cacheTCP
ReapTcp(k) == Reap(k)

\* The queues of TCP sessions, walked by clean_expired_sessions_tcp
TcpKinds == {"TCP_TRANS", "TCP_EST", "TCP_INCOMING_SYN"}

\* The collector's walk of queue k
Collect(k) == IF k \in TcpKinds THEN ReapTcp(k) ELSE Reap(k)

\* A jiffy passes
Tick ==
    /\ now < MaxTime
    /\ now' = now + 1
    /\ UNCHANGED <<bib, freedBib, hash6, hash4, sess, expiry, pool, timeout>>

\* set_filtering_config writing one of the timeouts (udp_timeout,
\* tcp_trans_timeout, ...). Sessions already queued keep their deadlines.
SetTimeout(k, v) ==
    /\ timeout[k] # v
    /\ timeout' = [timeout EXCEPT ![k] = v]
    /\ UNCHANGED <<bib, freedBib, hash6, hash4, sess, expiry, pool, now>>

-----------------------------------------------------------------------------

Init ==
    /\ bib = <<>> /\ freedBib = {}
    /\ hash6 = <<>> /\ hash4 = <<>>
    /\ sess = <<>>
    /\ expiry = [k \in Kinds |-> <<>>]
    /\ pool = PoolAddrs
    /\ now = 0
    /\ timeout = Timeout

Next ==
    \/ \E p \in Protos, x \in V6Hosts, z \in V4Peers, f \in AllFlags : Packet6Known(p, x, z, f)
    \/ \E p \in Protos, x \in V6Hosts, z \in V4Peers, f \in AllFlags : Packet6NewSession(p, x, z, f)
    \/ \E p \in Protos, x \in V6Hosts, z \in V4Peers, f \in AllFlags : Packet6NewFlow(p, x, z, f)
    \/ \E p \in Protos, t \in TAddrs, z \in V4Peers, f \in AllFlags : Packet4Known(p, t, z, f)
    \/ \E p \in Protos, t \in TAddrs, z \in V4Peers, f \in AllFlags : Packet4NewSession(p, t, z, f)
    \/ \E e \in StaticEntries : StaticEntry(e)
    \/ \E k \in Kinds \ TcpKinds : Reap(k)
    \/ \E k \in TcpKinds : ReapTcp(k)
    \/ Tick

\* The collector runs from a periodic timer, so it is weakly fair.
Spec == Init /\ [][Next]_vars /\ \A k \in Kinds : WF_vars(Collect(k))

\* The same system with the administrator changing timeouts at run time
NextReconfig == Next \/ \E k \in Kinds, v \in TimeoutChoices : SetTimeout(k, v)
SpecReconfig == Init /\ [][NextReconfig]_vars /\ \A k \in Kinds : WF_vars(Collect(k))

-----------------------------------------------------------------------------
(* Properties *)

\* Every allocated session is on exactly one expiry queue, exactly once, and
\* in the session list of exactly one allocated BIB, the one it points to;
\* queues and lists hold allocated sessions only. This is what session_renew's
\* list_del/list_add_tail and the collector's two list_del calls maintain.
SessionPlacement ==
    /\ \A s \in DOMAIN sess :
          /\ sess[s].bib \in DOMAIN bib
          /\ {b \in DOMAIN bib : s \in bib[b].sessions} = {sess[s].bib}
          /\ MapThenSumSet(LAMBDA k : Len(SelectSeq(expiry[k], LAMBDA e : e = s)), Kinds) = 1
    /\ \A k \in Kinds : Range(expiry[k]) \subseteq DOMAIN sess
    /\ \A b \in DOMAIN bib : bib[b].sessions \subseteq DOMAIN sess


\* Along every expiry queue deadlines never decrease from head to tail
\* (spec 8, invariant 2). clean_expired_sessions stops at the first head that
\* has not expired, so an expired session behind a later deadline would never
\* be collected; the order rests on session_create and session_renew always
\* appending at the tail with now + the queue's timeout.
QueuesSorted ==
    \A k \in Kinds : \A i \in 1..(Len(expiry[k]) - 1) :
        sess[expiry[k][i]].exp <= sess[expiry[k][i + 1]].exp

\* The queue whose timeout fits each TCP state: the long TCP_EST timeout for
\* an open or half-closed connection, TCP_INCOMING_SYN for an unanswered
\* outside SYN, the short TCP_TRANS timeout for every transitory state.
TcpQueue == [st \in States |->
               CASE st \in {"ESTABLISHED", "V6_FIN_RCV", "V4_FIN_RCV"} -> "TCP_EST"
                 [] st = "V4_SYN_RCV" -> "TCP_INCOMING_SYN"
                 [] OTHER -> "TCP_TRANS"]

\* Every session waits on the queue that fits its protocol and TCP state.
\* tcp4_fsm, tcp6_fsm and tcp_timeout_fsm change the state and, in a
\* separate call, move the session with session_renew; where a state change
\* has no matching renewal (several are commented out) the session keeps a
\* queue of the wrong length, and an ESTABLISHED connection left on
\* TCP_TRANS is torn down after the transitory timeout.
StateQueue ==
    \A s \in DOMAIN sess, k \in Kinds :
        s \in Range(expiry[k]) =>
            k = IF bib[sess[s].bib].type = "UDP" THEN "UDP_DEFAULT"
                ELSE TcpQueue[sess[s].state]

\* The collector never frees an ESTABLISHED session in one step: on expiry
\* tcp_timeout_fsm demotes it to FOUR_MIN with a TCP_TRANS grace period
\* (spec 4.2, scenario S4).
EstablishedGrace ==
    [][\A s \in DOMAIN sess : sess[s].state = "ESTABLISHED" => s \in DOMAIN sess']_vars

\* Every session that has expired is eventually renewed, demoted or freed by
\* the periodic collector: no expired session is stranded on a queue.
ExpiredEventuallyHandled ==
    \A s \in SessIds : (s \in DOMAIN sess /\ Expired(s)) ~> ~(s \in DOMAIN sess /\ Expired(s))


\* The collector frees only sessions whose deadline has passed, measured
\* against the jiffies of the step that frees them: a session is never freed
\* on its deadline or after a packet has renewed it.
ReapOnlyExpired ==
    [][\A s \in DOMAIN sess \ DOMAIN sess' : now > sess[s].exp]_vars

\* Double-index coherence (spec 8, invariant 1): every BIB that is still
\* allocated is what bib_ipv6_lookup and bib_ipv4_lookup return for its own
\* keys, and the hash lists hold no freed entry.
IndexCoherence ==
    /\ \A b \in DOMAIN bib \ freedBib :
          /\ Lookup6(bib[b].type, bib[b].x) = b
          /\ Lookup4(bib[b].type, bib[b].ta) = b
    /\ \A i \in DOMAIN hash6 : hash6[i] \notin freedBib
    /\ \A i \in DOMAIN hash4 : hash4[i] \notin freedBib

\* For one protocol no two BIBs share their IPv4 transport address (spec 3):
\* otherwise bib_ipv4_lookup sends one host's return traffic to the other.
BibV4Unique ==
    \A b1, b2 \in DOMAIN bib \ freedBib :
        b1 # b2 /\ bib[b1].type = bib[b2].type => bib[b1].ta # bib[b2].ta

\* Cascade (spec 8, invariant 5): when the collector frees a BIB, the
\* transport address it held is back in the free list.
CascadeReturnsAddr ==
    [][\A b \in DOMAIN bib \ DOMAIN bib' :
          bib[b].ta # BadTA => bib[b].ta \in Range(pool')]_vars

\* Address conservation (spec 7): every address of the legacy pool is free
\* or held by an allocated BIB. bib_session_create takes the address before
\* bib_create and session_create, and returns NULL on either failure
\* without putting it back.
AddrConserved ==
    \A a \in Range(PoolAddrs) :
        a \in Range(pool) \/ \E b \in DOMAIN bib \ freedBib : bib[b].ta = a
=============================================================================
