CONSTANTS
    t1 = t1
    t2 = t2
    a = a
    b = b
    k1 = k1
    k2 = k2
    k3 = k3
    NoSock = NoSock
    Threads <- MCThreads
    Servers <- MCServers
    Socks <- MCSocks
    MAXACTIVE = 2
    MAXIDLE = 1
    CONNECT_FAILS = TRUE
    MaxOps = 4
SPECIFICATION Spec
PROPERTY GetEventuallyReturns
CHECK_DEADLOCK FALSE
