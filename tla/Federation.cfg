SPECIFICATION AllSpec
CONSTANTS
    Peers = {f1, f2}
    Callers = {h1, loop}
    Loop = loop
    Cluster = {f1}
    MaxPeers = 1
    Members = {"m1"}
    Introducers = {"i1", "i2"}
    MemberCaps = {1, 2}
    MaxFaults = 1
INVARIANTS TrustEndsWithMembership RollUpsOwned IntroducerNamed
PROPERTIES SnapshotForward IntroducerConverges FollowerConverges
