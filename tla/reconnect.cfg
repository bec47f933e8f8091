\* Two clients that come back after a fault and after a crash of the server.
SPECIFICATION MCFairSpec
CONSTANTS
    Conns = {c1, c2}
    Clients = {k1, k2}
    NoConn = NoConn
    NoCidr = NoCidr
    NoMeta = NoMeta
    Modes = {"tcp"}
    Cidrs = {}
    Capacity <- MCCapacity
    Requests <- MCRequests
    MaxIndex = 5
    MaxPackets = 0
    MaxListeners = 0
    TunEnabled = FALSE
    First = k1
    Configs <- MCConfigs
    Ports = {1, 2, 3}
    Nets = {NetA}
    NoNet = NoNet
    Wanted <- MCWanted
    MaxFaults = 1
CHECK_DEADLOCK FALSE
INVARIANTS
    ClientsAgree
    RequestIsMeant
    PortsAreDistinct
PROPERTIES
    IndexIsKept
    GoroutineEnds
    EveryoneComesBack
    StopsWhenDisconnected
