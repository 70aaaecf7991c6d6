----------------------------- MODULE MCPool4Admin -----------------------------
(* Model-checking instance of Pool4Admin: two of the three protocol lists  *)
(* (TCP, then UDP, the list pool4_to_array reads), two addresses, the      *)
(* first registered by load_defaults. The port space is scaled down to     *)
(* 0..5 with LowLimit 2, so odd_low = {1} runs out at once and even_high = *)
(* {2, 4} is reused.                                                       *)
EXTENDS Pool4Admin

CONSTANTS a1, a2, t1, t2

MCAddrs == {a1, a2}
MCDefaultAddrs == <<a1>>
MCPoolOrder == <<"TCP", "UDP">>
MCAdminsOne == {t1}
MCAdminsTwo == {t1, t2}

\* Bound: ports are lent from the TCP list only. The lists hold the same
\* nodes and run the same code under their own locks; UDP is the list the
\* configuration calls read.
LoansOnTcp == \A l \in BagToSet(loans) : l.proto = "TCP"

\* Bound of the model: the administrator registers an address only when it
\* is not in the pool and no port of it is still on loan. Neither pool4.c
\* nor the specification rules a second registration out; without this
\* bound NoDoubleLend fails (README, section 3).
AdminMayRegister(a) ==
    /\ \A p \in Protos : GetPoolNode(pools[p], a) = 0
    /\ \A l \in BagToSet(loans) : l.addr # a

AdminSpec == AdminInit /\ [][AdminNext(AdminMayRegister)]_adminVars
=============================================================================
