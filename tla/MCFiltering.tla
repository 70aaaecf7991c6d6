---------------------------- MODULE MCFiltering ----------------------------
(* Model-checking instance of Filtering: two IPv6 hosts, two outside peers, *)
(* two transport addresses in the legacy pool, small slabs and short        *)
(* timeouts so that expiry, grace, reuse and exhaustion all occur.          *)
EXTENDS Filtering

CONSTANTS x1, x2, z1, z2, t1, t2

MCV6Hosts == {x1, x2}
MCV6HostsOne == {x1}
MCV4Peers == {z1, z2}
MCPoolAddrs == <<t1, t2>>
MCTcpFlags == {{"SYN"}, {"FIN"}, {"RST"}, {}}
MCTimeout == [k \in Kinds |->
                CASE k = "TCP_EST" -> 2
                  [] k = "UDP_DEFAULT" -> 2
                  [] OTHER -> 1]
\* Per protocol caches (bib_cache and bib_cacheTCP, st_cache and st_cacheTCP):
\* one BIB slot each, two UDP session slots and one TCP session slot, so
\* that a BIB holds two sessions and each cache is exhausted.
MCBibCache == [p \in Protos |-> IF p = "UDP" THEN {1} ELSE {2}]
MCSessCache == [p \in Protos |-> IF p = "UDP" THEN {1, 2} ELSE {3}]
\* Two BIB slots per protocol, for the questions about two BIBs of one
\* protocol
MCBibCachePair == [p \in Protos |-> IF p = "UDP" THEN {1, 2} ELSE {3, 4}]
\* Two session slots per protocol
MCSessCachePair == [p \in Protos |-> IF p = "UDP" THEN {1, 2} ELSE {3, 4}]
\* Every line print_bufu could be given for these hosts and peers (the set
\* is symmetric in both, so the symmetry below stays sound)
MCStaticEntries == [proto: Protos \cup {"ICMP"}, x: V6Hosts, z: V4Peers]
MCSymmetry == Permutations(MCV6Hosts) \cup Permutations(MCV4Peers)
=============================================================================
