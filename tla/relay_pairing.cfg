\* Takeover, pairing and departures, who receives whose data and in which order.
SPECIFICATION PairingSpec
CONSTANTS
    Conns = {c1, c2, c3}
    NoConn = NoConn
    NoCidr = NoCidr
    NoMeta = NoMeta
    ByteBits = 3
    NetA = NetA
    NetB = NetB
    Modes = {"tcp", "udp"}
    Cidrs <- MCCidrs
    Capacity <- MCCapacity
    Requests <- PairingRequests
    MaxIndex = 1
    MaxPackets = 0
    MaxListeners = 0
    TunEnabled = FALSE
CHECK_DEADLOCK FALSE
SYMMETRY Symmetry
INVARIANTS
    TableHoldsTheLiving
    Isolation
    NoSilentUnpairing
    NoGapNoRepeat
