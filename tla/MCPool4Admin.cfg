CONSTANTS
    a1 = a1
    a2 = a2
    t1 = t1
    t2 = t2
    NoAddr = NoAddr
    Addrs <- MCAddrs
    DefaultAddrs <- MCDefaultAddrs
    PoolOrder <- MCPoolOrder
    Admins <- MCAdminsOne
    LowLimit = 2
    MaxPort = 5
    ReqPorts = {1, 2}
    ArrayRatio = 30

SPECIFICATION AdminSpec
CONSTRAINT LoansOnTcp
INVARIANT TypeOK
INVARIANT PortPreservation
INVARIANT PortConservation
INVARIANT PoolsAgree
