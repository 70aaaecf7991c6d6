----------------------------- MODULE FilteringGC -----------------------------
(***************************************************************************)
(* The collector of Filtering at the granularity of its code: the timer    *)
(* callback walks one queue with list_for_each_safe, and for each session  *)
(* first reads session->expires (time_after) and then acts on the session  *)
(* (tcp_timeout_fsm, or the list_dels and kmem_cache_frees). The header    *)
(* takes no lock, so packet handlers on other CPUs run between any two of  *)
(* these steps. Packet handlers stay atomic.                               *)
(***************************************************************************)
EXTENDS Filtering

VARIABLE gc   \* the collector: idle, or walking queue q, or about to act on s

gcVars == <<vars, gc>>

GcIdle == [at |-> "idle", q |-> "UDP_DEFAULT", s |-> NULL]

\* The timer fires: the walk of queue k begins at its head.
GcStart(k) ==
    /\ gc.at = "idle"
    /\ gc' = [at |-> "check", q |-> k, s |-> NULL]
    /\ UNCHANGED vars

\* time_after(jiffies, session->expires) on the next entry: an expired one
\* is acted on next; reaching the list head or a live entry ends the walk.
GcCheck ==
    LET q == expiry[gc.q]
    IN  /\ gc.at = "check"
        /\ IF q # <<>> /\ Expired(Head(q))
           THEN gc' = [gc EXCEPT !.at = "act", !.s = Head(q)]
           ELSE gc' = GcIdle
        /\ UNCHANGED vars

\* The body for the session checked: tcp_timeout_fsm gives an ESTABLISHED
\* session its grace (session_renew on TCP_TRANS, FOUR_MIN); any other is
\* unlinked from its queue and its BIB and freed, and a BIB left without
\* sessions is unhooked and freed.
GcAct ==
    LET s    == gc.s
        b    == sess[s].bib
        r    == TcpTimeoutFsm(sess[s].state)
        kept == SessionRenew([sess EXCEPT ![s].state = r.state], expiry, s, r.renew)
        last == bib[b].sessions = {s}
    IN  /\ gc.at = "act"
        /\ IF r.renew # NoRenew
           THEN /\ sess' = kept.sess /\ expiry' = kept.expiry
                /\ UNCHANGED <<bib, freedBib, hash6, hash4>>
           ELSE /\ sess' = [x \in DOMAIN sess \ {s} |-> sess[x]]
                /\ expiry' = Unlink(expiry, s)
                /\ bib' = IF last THEN [x \in DOMAIN bib \ {b} |-> bib[x]]
                          ELSE [bib EXCEPT ![b].sessions = @ \ {s}]
                /\ freedBib' = freedBib \ {b}
                /\ hash6' = IF last THEN SelectSeq(hash6, LAMBDA x : x # b) ELSE hash6
                /\ hash4' = IF last THEN SelectSeq(hash4, LAMBDA x : x # b) ELSE hash4
        /\ gc' = [gc EXCEPT !.at = "check", !.s = NULL]
        /\ UNCHANGED <<pool, now, timeout>>

PacketOrTick ==
    \/ \E p \in Protos, x \in V6Hosts, z \in V4Peers, f \in AllFlags : Packet6Known(p, x, z, f)
    \/ \E p \in Protos, x \in V6Hosts, z \in V4Peers, f \in AllFlags : Packet6NewSession(p, x, z, f)
    \/ \E p \in Protos, x \in V6Hosts, z \in V4Peers, f \in AllFlags : Packet6NewFlow(p, x, z, f)
    \/ \E p \in Protos, t \in TAddrs, z \in V4Peers, f \in AllFlags : Packet4Known(p, t, z, f)
    \/ \E p \in Protos, t \in TAddrs, z \in V4Peers, f \in AllFlags : Packet4NewSession(p, t, z, f)
    \/ Tick

GcInit == Init /\ gc = GcIdle

GcNext ==
    \/ PacketOrTick /\ UNCHANGED gc
    \/ \E k \in Kinds : GcStart(k)
    \/ GcCheck
    \/ GcAct

GcSpec == GcInit /\ [][GcNext]_gcVars
=============================================================================
