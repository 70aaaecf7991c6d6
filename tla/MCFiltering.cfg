CONSTANTS
    x1 = x1
    x2 = x2
    z1 = z1
    z2 = z2
    t1 = t1
    t2 = t2
    BadTA = BadTA
    Protos = {"UDP", "TCP"}
    V6Hosts <- MCV6Hosts
    V4Peers <- MCV4Peers
    PoolAddrs <- MCPoolAddrs
    BibCache <- MCBibCache
    SessCache <- MCSessCache
    StaticEntries <- MCStaticEntries
    TcpFlags <- MCTcpFlags
    Timeout <- MCTimeout
    TimeoutChoices = {1}
    MaxTime = 5

SPECIFICATION Spec
INVARIANT TypeOK
INVARIANT SessionPlacement
INVARIANT QueuesSorted
PROPERTY EstablishedGrace
INVARIANT StateQueue
SYMMETRY MCSymmetry
