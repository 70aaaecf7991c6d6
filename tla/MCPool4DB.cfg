CONSTANTS
    m1 = m1
    m2 = m2
    m3 = m3
    s1 = s1
    s2 = s2
    t1 = t1
    t2 = t2
    NoMark = NoMark
    NoSample = NoSample
    Threads <- MCThreadsOne
    Marks <- MCMarks
    Samples <- MCSamples
    Buckets = {0, 1}
    Hash <- MCHash
    TableIds = {1, 2}

SPECIFICATION Spec
INVARIANT TypeOK
INVARIANT TableIndex
INVARIANT ContainsAllAgrees
PROPERTY AbstractPools
