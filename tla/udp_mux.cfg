\* Two addresses and two forwarders, of which either may come late, and a dropped frame.
SPECIFICATION Spec
CONSTANTS
    Addrs = {a1, a2}
    NoAddr = NoAddr
    Forwarders = {f1, f2}
    Sids = 2
    MaxDatagrams = 2
    MaxReplies = 1
    MaxLost = 1
CHECK_DEADLOCK FALSE
INVARIANTS
    OneSenderPerConnection
    SilenceNeedsALoss
    LeakNeedsAnother
