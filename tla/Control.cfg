CONSTANTS
    d1 = d1
    f1 = f1
    f2 = f2
    t1 = t1
    t2 = t2
    a = a
    b = b
    k1 = k1
    k2 = k2
    k3 = k3
    NoParent = NoParent
    NoSock = NoSock
    Changes <- MCChanges
    Kind <- MCKind
    Parent <- MCParent
    Stoppers <- MCStoppers
    MaxCalls = 3
    Threads <- MCThreads
    Servers <- MCServers
    Socks <- MCSocks3
    MAXACTIVE = 2
    MAXIDLE = 1
    CONNECT_FAILS = TRUE
    MaxOps = 4
SPECIFICATION Spec
INVARIANT LsTypeOK NoLostSignal AppliesOnlyUninterruptedScans ApTypeOK PermitsAccounted
PROPERTY ChangesEventuallyApplied GetReturnsUnlessPermitLost
CHECK_DEADLOCK FALSE
