\* A listener that reconnects before its old goroutine ends.
SPECIFICATION Spec
CONSTANTS
    Conns = {c1, c2}
    NoConn = NoConn
    NoCidr = NoCidr
    NoMeta = NoMeta
    ByteBits = 3
    NetA = NetA
    NetB = NetB
    Modes = {"tcp", "udp"}
    Cidrs <- MCCidrs
    Capacity <- MCCapacity
    Requests <- SilentRequests
    MaxIndex = 0
    MaxPackets = 0
    MaxListeners = 0
    TunEnabled = FALSE
CHECK_DEADLOCK FALSE
INVARIANTS
    ListenerKeepsItsIndex
