INIT ProbeAsk
NEXT ProbeReply
CONSTANTS
    MethodLists <- MethodSample
    Peers <- PeerSample
INVARIANT StrictAsksAll
CHECK_DEADLOCK FALSE
