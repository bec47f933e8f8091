\* One address, one forwarder and no lost frame: the target answers a datagram.
SPECIFICATION FairSpec
CONSTANTS
    Addrs = {a1}
    NoAddr = NoAddr
    Forwarders = {f1}
    Sids = 1
    MaxDatagrams = 1
    MaxReplies = 1
    MaxLost = 0
CHECK_DEADLOCK FALSE
PROPERTIES
    AnswersReachTheirSender
