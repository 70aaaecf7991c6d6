# TLA+ models of the Jool NAT64 filtering plane, pool4, pool4db and checksums

This directory holds TLA+ specifications of the stateful parts of the NAT64
translator in `src/`, the TLC configurations that check them, and
`PROJECT.json`. `PROJECT.json` records every run, every mutant, the source
lines each definition models, the findings and the hazards.

## 1. The system and its parts

| Part | Source | State it owns | Model |
|---|---|---|---|
| BIB table: binding entries indexed twice, by IPv6 source (`hash6`, "byremote") and by IPv4 transport address (`hash4`, "bylocal") | `src/include/nf_nat64_filtering_and_updating.h` 42-55, 367-399, 440-485 | kmem caches, two hlists | `Filtering` |
| Sessions: one per (BIB, outside peer), on the BIB's session list | same header, 57-71, 284-365 | kmem caches, lists | `Filtering` |
| Expiry queues: five FIFO lists, one per `enum expiry_type`; `session_renew` moves a session to a queue's tail with `jiffies + timeout` | same header, 17-23, 94-100 | `expiry_base[]` | `Filtering` |
| TCP state machine: `tcp6_fsm`, `tcp4_fsm`, `tcp_timeout_fsm` | same header, 102-215 | the session's `state` | `Filtering` |
| Collector: `clean_expired_sessions(_tcp)`, run from a timer | same header, 217-282 | frees sessions and BIBs | `Filtering` (one step per call), `FilteringGC` (one step per read or free) |
| Flow creation: `bib_session_create(_tcp)`, which takes a transport address from the legacy pool (`get_tranport_addr`, not in the repository) | same header, 487-580 | | `Filtering` |
| Packet orchestrator `filtering_and_updating` | declared in `src/include/nat64/mod/filtering_and_updating.h`, body absent | | `Filtering`, from spec 4.5 |
| Filtering configuration `set_filtering_config` | declared only | the timeouts | `Filtering` (`SetTimeout`), from the spec |
| Static entry loader `print_bufu`: each line "proto&X'#x&Y'#y" becomes a BIB and a session through `bib_session_create(_tcp)` | same header, 596-717 | | `Filtering` (`StaticEntry`); the tokenising is abstracted |
| pool4 allocator: per-protocol lists of address nodes, each with four port sections (odd/even × low/high); a section has a cursor `next_port`, a bound and a FIFO of returned ports | `src/mod/pool4.c` | three locked lists | `Pool4` (packet path), `Pool4Admin` (configuration calls) |
| pool4db: a hash of pool4 tables by packet mark, under RCU | `src/mod/stateful/pool4/db.c` | `db`, `power`, `values` | `Pool4DB`, refining `Pool4DBAbstract` |
| Checksum helpers: incremental one's-complement adjustment | `src/include/nf_nat64_auxiliary_functions.h` 55-114 | the checksum field | `Checksum` |
| Header-length helpers, kernel hook | same file 10-49; `kernel_hook.h` | none | not modelled |

How the parts interact:
- A packet from IPv6 looks up its BIB by source address.
  - If there is none, `bib_session_create` takes an IPv4 transport address, creates the BIB, hooks it in both indices and creates the first session.
  - Otherwise it creates or finds the session for the peer.
- `print_bufu` calls the same creation functions for each configured static entry, without looking up the host's BIB first.
- The state machine (TCP) or a renewal (UDP) then moves the session onto a queue with the queue's current timeout.
- A packet from IPv4 looks up the BIB by destination transport address. It can open a session only if a BIB exists; for TCP only a SYN does.
- The collector walks each queue from its head while sessions have expired:
  - it demotes an ESTABLISHED session to FOUR_MIN on TCP_TRANS;
  - it frees every other expired session;
  - it frees a BIB whose last session it freed.
  - It takes no lock, so packet handlers run on other CPUs during the walk.
- The code in the header takes the transport address from the legacy list. `pool4.c` is the allocator that spec 4.3 describes for that role. The header does not call it, so the two modules are not composed.
- In `pool4.c`, packet-path calls hold one list lock each. The configuration calls `pool4_register`, `pool4_remove` and `pool4_to_array` take the locks one list at a time, and nothing serialises them against each other.
- `db.c` keeps one pool4 table per mark. All its operations run under `rcu_read_lock` only.
- The checksum helpers are called by the translation step when it rewrites addresses and ports.

## 2. Modules

### `Filtering.tla`: BIB, sessions, queues, FSM, collector

State (VARIABLES) and what it stands for:
- `bib`: the allocated slots of the BIB caches, each with protocol, IPv6 source, transport address and session set.
- `freedBib`: slots passed to `kmem_cache_free` while still hooked. Their memory is not reused while a hook points at it, so the model keeps them allocated.
- `hash6` and `hash4`: the two indices, newest first (`hlist_add_head`). Lookups return the first match, as the hlist walk does.
- `sess`: the allocated slots of the session caches.
- `expiry`: the five queues, head first.
- `timeout`: `expiry_base[k].timeout`, starting at the defaults.
- `pool`: the legacy transport-address list.
- `now`: jiffies.

Each protocol has its own caches, as in the code (`bib_cache` and `st_cache` for UDP, `bib_cacheTCP` and `st_cacheTCP` for TCP). The constants `BibCache` and `SessCache` give each protocol its own disjoint set of slots. Allocation failure is cache exhaustion: `Alloc` yields `NULL` when every slot of the protocol's cache is in use. This is how `kmem_cache_zalloc` failures are reached, and a full TCP cache does not stop UDP flows.

Actions:
- `Packet6Known`, `Packet6NewSession`, `Packet4Known` and `Packet4NewSession` follow spec 4.5, because the orchestrator's body is not in `src/`. They call the source helpers `SessionCreate`, `SessionRenew`, `Tcp6Fsm`, `Tcp4Fsm` and the lookups, in the order the spec gives.
- `BibSessionCreate` is `bib_session_create`, including its two failure paths:
  - the BIB allocation fails, and the transport address is lost;
  - the session allocation fails, and the BIB is freed while still hooked.
- `BibSessionCreateTcp` is `bib_session_create_tcp`: the same steps on the TCP caches, through `BibCreateTcp` (`bib_create_tcp`) and `SessionCreateTcp` (`session_create_tcp`), which differ from their UDP twins only in the cache they allocate from. Both functions take the address from the one list `free_udp_transport_addr`, so TCP and UDP share `pool`.
- `Packet6NewFlow` (spec 4.5) calls the creation function of its protocol and then runs the packet through the new session's state machine.
- `StaticEntry(e)` is `print_bufu` for one parsed line `e` (protocol, X', Z):
  - it calls the same creation function, on TCP_TRANS or UDP_DEFAULT, and the session stays CLOSED;
  - "icmp" and unknown tokens do nothing;
  - there is no `bib_ipv6_lookup` first, so an entry for a host that has a BIB hooks a second one in front of it.
  The configured lines are the constant `StaticEntries`. Who calls `print_bufu` is not in the repository, so an entry may be loaded at any time, and more than once.
- `Reap(k)` is one whole call of `clean_expired_sessions` on queue `k`, including the demotion of ESTABLISHED sessions and the BIB cascade. `ReapTcp(k)` is `clean_expired_sessions_tcp`, the same walk on a TCP queue (`TcpKinds`), freeing into the TCP caches.
- `Tick` advances jiffies, up to `MaxTime`.
- `SetTimeout(k, v)` is `set_filtering_config` writing one timeout. It only appears in `SpecReconfig`, the specification with reconfiguration at run time.

The `_tcp` copies of `bib_create` and `session_create` differ from the UDP ones only in their cache. They are the same operators, applied to slots of the protocol's cache.

### `FilteringGC.tla`: the collector at the granularity of its code

It extends `Filtering` with `gc`, the collector's position.
- `GcStart(k)`: the timer fires on queue `k`.
- `GcCheck`: the `time_after` test on the entry at the head.
- `GcAct`: the body for that entry. This is `tcp_timeout_fsm` and a renewal, or the `list_del`s, the frees and the BIB cascade.

Packet handlers and ticks interleave between any two of these steps, as they can on another CPU.

### `Pool4.tla` and `Pool4Admin.tla`: the pool4 allocator

`Pool4` state:
- `pools`: for each protocol, the sequence of nodes in list order.
- `loans`: a bag of the ports callers hold, each recorded with the port it was asked for. Callers (BIBs) are not in `pool4.c`, so `loans` stands for them.
- `leaked`: ports that `pool4_return` dropped when its `kmalloc` failed. This is a ledger: the code forgets them.

`Pool4` actions are the calls that hold one lock throughout (`PacketNext`):
- `Pool4GetAny`, `Pool4GetSimilar`, `Pool4Return`;
- `Pool4Destroy`, which runs at unload;
- `Init`, which is `load_defaults`.

`Pool4Return` has three outcomes:
- the port is appended to its section's FIFO;
- the address is gone, and the port is dropped;
- `kmalloc` fails, and the port is leaked.

`Pool4Admin` adds `apc`, each configuration caller's call in progress. Its steps follow the locks:
- `AdmRegister` covers the node allocations. Its failure path changes nothing.
- `AdmRegisterStep` is one list insertion.
- `AdmRemove` and `AdmRemoveStep` remove one list's node per step, with `DestroyPoolNode` (`destroy_pool_node` and `destroy_section`).
- `AdmToArray` is the count under the first UDP lock hold and the `kmalloc(size * sizeof(*node))`.
- `AdmToArrayCopy` is the copy under the second lock hold. The array holds `size * ArrayRatio` addresses: `sizeof(struct pool_node)` is 120 bytes on 64-bit, against 4 for `struct in_addr`.

`Pool4Contains` is `pool4_contains`, which reads the UDP list only. `AdminNext` interleaves these steps with `PacketNext`. `MCPool4Admin` bounds the administrator (`AdminMayRegister`): an address is registered only when it is absent and has no ports on loan. This is a bound of the model, not something `pool4.c` or the specification guarantees; `pool4.c` checks neither.

### `Pool4DB.tla` and `Pool4DBAbstract.tla`: the pool4 database

`Pool4DB` state:
- `db`: the buckets, head first.
- `tables`: the allocated `struct pool4_table`s, each a mark and a set of samples.
- `pc`: each caller's position inside `pool4db_add`.
- `up`: initialised.

`pool4db_add` is split where it touches shared memory without a lock:
- `Pool4dbAdd` is `find_table`, and on a hit, `pool4table_add`;
- `CreateTable` allocates the table and reads the bucket head;
- `LinkTable` stores the new head.

`Pool4dbRm`, `Pool4dbFlush`, `Pool4dbInit` and `Pool4dbDestroy` are one step each. `Pool4dbContains`, `Pool4dbContainsAll` and `Pool4dbIsEmpty` are the three queries, as operators.

The `pool4table_*` functions are not in the repository. A table is its mark and its sample set, and each of its operations is one step; these are marked spec_modelled.

`Pool4DBAbstract` is what the database promises: a map from mark to sample set, changed by `Add`, `Rm`, `Flush`, `Load` and `Unload`. `MCPool4DB` instantiates it with the refinement mapping `pool4 <- [m \in Marks |-> TableSamples(FindTable(m))]`, which is what a caller sees through `find_table`. It checks `AbstractPools == ABS!Spec` as a temporal property.

### `Checksum.tla`: incremental checksum adjustment

- `ChecksumAdjust` translates `checksum_adjust`:
  - `uint32_t s = sum + old - new`;
  - one fold of the high half;
  - truncation to `uint16_t`;
  - the UDP rules for 0.
- `ChecksumRemove` and `ChecksumAdd` fold it over the words, and `AdjustChecksum` composes them as the two `adjust_checksum_*` functions do.
- The reference is RFC 1071: `OnesSum` is a RECURSIVE one's-complement sum with end-around carry, and `Verifies` is the receiver's test.
- State is one packet:
  - its family, its UDP flag, its covered words and its checksum field.
- Actions:
  - `ChecksumChange` is `checksum_change` on a port word;
  - `Translate` swaps the address pair for the other family's and adjusts the checksum.
- Words are `W` bits wide with a `2W`-bit intermediate, so every borrow, carry and wrap the 16-bit code meets also occurs at `W = 4`.

## 3. Runs

| Run | cfg | Expect | What it shows |
|---|---|---|---|
| filtering_safety | `MCFiltering.cfg` | pass | Packets, every static entry, cache exhaustion and the collector. `SessionPlacement`: each session is on exactly one queue, once, and in the list of the one BIB it points to. `QueuesSorted`: deadlines never decrease along a queue. `EstablishedGrace` (action property): the collector never frees an ESTABLISHED session in one step. `StateQueue`: every session waits on the queue that fits its protocol and TCP state (TCP_EST for ESTABLISHED, V6_FIN_RCV and V4_FIN_RCV; TCP_INCOMING_SYN for V4_SYN_RCV; TCP_TRANS for the other TCP states; UDP_DEFAULT for UDP). `tcp4_fsm` and `tcp6_fsm` set the state and call `session_renew` separately, and some of those calls are commented out, so this is not given by the code's shape; it holds because every state change without a renewal stays within one queue's group. Its mutant drops the renewal of `tcp4_fsm`'s FOUR_MIN to ESTABLISHED step. |
| filtering_liveness | `MCFilteringLive.cfg` | pass | `ExpiredEventuallyHandled`: every expired session is eventually renewed, demoted or freed. Two TCP BIB slots and the static entries let a static entry put a second BIB in front of a host's first, and the property still holds. |
| filtering_index | `MCFiltering_IndexCoherence.cfg` | violation | A failed session allocation leaves a freed BIB in both indices (3 steps). |
| filtering_v4unique | `MCFiltering_BibV4Unique.cfg` | violation | With the pool empty, two hosts get BIBs on the same (-1, -1) address. |
| filtering_cascade | `MCFiltering_CascadeReturnsAddr.cfg` | violation | The collector frees a BIB and never returns its address (spec 8.5). |
| filtering_reconfig | `MCFiltering_QueuesSorted.cfg` | violation | Under `SpecReconfig`: a UDP session is queued with timeout 2, the timeout is lowered to 1, and a new session is queued behind it with an earlier deadline. The collector stops at the live head and leaves the expired session. |
| filtering_gc_race | `MCFilteringGC_ReapOnlyExpired.cfg` | violation | Under `GcSpec`: the collector sees a session expired, a packet renews it, and the collector frees the live session. |
| pool4_admin | `MCPool4Admin.cfg` | pass | Packet path interleaved with one configuration caller. `PortPreservation` (spec 8.4), `PortConservation` (spec 8.3: every port is unused, free once, lent once or leaked), `PoolsAgree` (between calls, every address has equally many nodes in each list, so `pool4_contains`'s UDP answer holds for every protocol). With one caller nothing can grow the UDP list between `pool4_to_array`'s count and copy, so `ToArrayInBounds` is checked only by the race run below; and `NoDoubleLend` is not checked here, because under the `AdminMayRegister` bound `PortConservation` implies it. |
| pool4_to_array_race | `MCPool4Admin_ToArrayInBounds.cfg` | violation | Two configuration callers. `Pool4Destroy` empties both lists, the second caller counts the empty UDP list, the first registers an address into both lists, and the copy writes through `ZERO_SIZE_PTR`. |
| pool4db_refinement | `MCPool4DB.cfg` | pass | One configuration caller. `TableIndex`: each table is in flight or hooked exactly once, in its mark's bucket, and no two hooked tables share a mark. `ContainsAllAgrees`: the scan of `pool4db_contains_all` over every hooked table says a sample is in the database exactly when some mark's pool, as `find_table` sees it, holds it. `AbstractPools`: `Pool4DB` implements `Pool4DBAbstract`. |
| pool4db_add_race | `MCPool4DB_AbstractPools.cfg` | violation | Two concurrent `pool4db_add` calls for a new mark both create a table. The samples of the first become invisible, which no abstract step allows. |
| checksum | `MCChecksum.cfg` | pass | `ChecksumValid`: after any sequence of port rewrites and translations, the field verifies over the covered words (RFC 1071), and a UDP 0 occurs only in IPv4. |

Every property of a passing run has a mutant in `PROJECT.json` that TLC kills. Each mutant is a plausible slip in the code:
- renewing without unlinking;
- appending at the head;
- extending the old deadline;
- dropping the ESTABLISHED grace;
- reaping at `now >= expires` instead of `time_after`;
- a `<=` for `<` in `get_section`;
- a section bound one pair too high;
- a reused port not removed from its FIFO;
- a free-port record never linked;
- the insertion loop one list short;
- the count loop one node short;
- `pool4table_create`'s `NULL` unchecked;
- the table not freed when `pool4table_add` fails;
- `find_table` not comparing marks;
- the fold left out, or not truncated, in `checksum_adjust`.

Results not kept as runs:
- With `ZeroUdp4 = TRUE` in `MCChecksum.cfg`, `ChecksumValid` fails. An IPv4 UDP packet with checksum 0 is translated to IPv6 with checksum 0, which RFC 2460 forbids. The code only warns (`WARN_ON_ONCE`, aux.h:107).
- With two callers in `MCPool4Admin.cfg`, `PoolsAgree` fails. A remove runs between a register's two insertions and leaves the address in the UDP list only; `pool4_remove` logs this state as critical.
- Without `AdminMayRegister`, `NoDoubleLend` fails when an address is registered twice (pool4.c:269 has no duplicate check). `AdminMayRegister` is a bound of the model; neither `pool4.c` nor the specification imposes it.
- With the static entries of `MCStaticEntries` in `MCFiltering_IndexCoherence.cfg`, `IndexCoherence` fails in two steps: a flow from `x1` creates a BIB, then a static entry for `x1` hooks a second BIB in front of it, and `bib_ipv6_lookup` no longer finds the first one with its session (header 707/710). The run keeps `StaticEntries = {}` so that its trace shows the failed session allocation of the finding.
- `pool4db_contains` returns the `int` `-ESRCH` as a `bool`, so it is true for a mark without a table (db.c:150). `pool4db_is_empty` sets `empty = false` on an empty table, so its answer is inverted (db.c:188). `Pool4dbContains` and `Pool4dbIsEmpty` model both as written. Both bugs are single-call wrong answers that a unit test reaches.
- `AddrConserved` (every legacy pool address is free or held by a live BIB) fails in two steps with the constants of `MCFiltering_CascadeReturnsAddr.cfg`. A UDP flow fills the one UDP BIB slot, and a second flow takes `t2` and then fails in `bib_create`. `bib_session_create` returns NULL without giving the address back (header 520; session failure at 530 and the TCP copy at 568 likewise). No run keeps this property, because its shortest counterexample is always this path and would hide the collector leak that `filtering_cascade` shows.
- Under `MCPool4DB_AbstractPools.cfg`, `ContainsAllAgrees` fails too. After the add race, `pool4db_contains_all` still reports the samples of the shadowed table, which `find_table` no longer reaches.

## 4. Bounds and why they suffice

**`MCFiltering`:**
- Values: 2 IPv6 hosts, 2 outside peers, 2 pool addresses, jiffies up to 5.
- Caches: one BIB slot per protocol, two UDP session slots and one TCP session slot (`MCBibCache`, `MCSessCache`). Two slots per cache and protocol would make the safety run take more than 15 minutes.
- The runs about two BIBs of one protocol (`filtering_index`, `filtering_v4unique`) use two BIB slots per protocol (`MCBibCachePair`). The liveness run uses two of each (`MCBibCachePair`, `MCSessCachePair`).
- Static entries: every (protocol, host, peer) line, ICMP included (`MCStaticEntries`). The set is symmetric in hosts and peers. The violation runs configure none.
- Timeouts: 2 for TCP_EST and UDP_DEFAULT, 1 for the others. `SetTimeout` may write 1.
- Flags: the TCP flag sets {SYN}, {FIN}, {RST} and {}.

What these bounds let happen:
- Two UDP sessions suffice for two flows to share a BIB and for one session to expire behind another. Every cache can be exhausted.
- Two addresses let the pool run dry on the third flow.
- With 5 ticks, a session can go from ESTABLISHED through demotion to being freed.
- Symmetry over hosts and peers is sound because no definition distinguishes them.

The liveness run uses TCP only and one host, without symmetry, because TLC does not combine symmetry with liveness checking. It reaches 252,444 states in about 2 min 40 s. A combined safety and liveness run without symmetry takes over 11 minutes, so the two stay separate.

**`MCPool4Admin`:**
- Ports 0..5 with `LowLimit` 2. The sections are {1}, {0}, {3, 5} and {2, 4}.
- Requests for ports 1 and 2.
- Two of the three lists: TCP, then UDP, which `pool4_contains` and `pool4_to_array` read. Two lists are the least that can disagree.
- Two addresses, `a1` registered at load.
- The constraint `LoansOnTcp` lets only the TCP list lend. Both lists hold the same nodes and run the same code, and lending from both multiplies the state space without new behaviour. The run reaches 39,168 states in 17 s.

**`MCPool4DB`:**
- Three marks, two of them in one bucket, so `find_table` walks past another mark's table.
- Two samples.
- A slab of two tables, so `pool4table_create` can fail.

**`MCChecksum`:**
- `W = 4`.
- IPv6 address pair 2 words, IPv4 pair 1 word, 1 port word. All initial word values are enumerated.

## 5. Fairness

The collector's walk of every queue (`Collect(k)`: `Reap(k)`, or `ReapTcp(k)` for a TCP queue) is weakly fair. The collector runs from a periodic kernel timer, so it is always eventually called while it is enabled. Packets and ticks carry no fairness: no packet ever has to arrive. The other modules are checked for safety only: nothing in `pool4.c`, `db.c` or the checksum helpers must eventually happen.

## 6. Not modelled, and the plan for later sittings

Not modelled:
- `print_bufu`'s text parsing (`strtokr`, `kstrtoul` into `uint16_t`, `nat64_extract2`). `StaticEntry` takes its result. Ports are not part of the model, so the truncation of a port above 65535 and the unchecked `kstrtoul` result are not represented.
- `ip_data`, `nat64_get_l3hdrlen` and `nat64_get_l4hdrlength`. These are offset arithmetic with no control state.
- `src/include/nat64/mod/filtering_and_updating.h` and `src/src/mod/common/kernel_hook.h`. They hold declarations only; the bodies are not in the repository.
- `pool4db_foreach_sample` and `pool4db_foreach_port`. They only hand the mark's table to `pool4table_foreach_*`, which is not in the repository.
- The `values` counter of `db.c`. It only triggers a warning.
- `bib_allocate_local4_port` (header 401-438). It is never called.

Planned:
1. An abstract NAT table refined by `Filtering`. An abstract pool4 allocator was weighed and left out: its steps restate `NoDoubleLend` and `PortConservation`.
2. Liveness of `ExpiredEventuallyHandled` under `SpecReconfig`, where it should fail while time stands still.
3. The TCP handshake scenario S3 as a reachability check, and idempotent renew (spec 8.6) as an action property.
