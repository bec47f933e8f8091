\* Indices given by the server, refusals, TUN clients of one network or two.
SPECIFICATION RegistrationSpec
CONSTANTS
    Conns = {c1, c2, c3}
    NoConn = NoConn
    NoCidr = NoCidr
    NoMeta = NoMeta
    ByteBits = 3
    NetA = NetA
    NetB = NetB
    Modes = {"tcp", "udp"}
    Cidrs <- MCCidrs
    Capacity <- MCCapacity
    Requests <- RegistrationRequests
    MaxIndex = 1
    MaxPackets = 1
    MaxListeners = 2
    TunEnabled = TRUE
CHECK_DEADLOCK FALSE
SYMMETRY Symmetry
INVARIANTS
    MetaFollowsTable
    RefusedLeavesNoTrace
    OnlyTakeoverCloses
    AddressesAreRight
    RoutesAreRight
    PacketsReachTheirAddress
