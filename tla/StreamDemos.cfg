SPECIFICATION Spec
CONSTANTS
    Ids = {"s1", "s2", "r1", "r2", "i1", "i2", "i3", "e1", "e2", "t1", "t2"}
    UdpPorts = {4000, 4002, 6070, 6072}
    Sessions = {{"sender", "receiver"}, {"internal"}, {"threads"},
                {"same", "sender"}}
    MaxKills = 1
INVARIANTS
    TypeOK
    NoCrosstalk
    NoOrphanTransport
PROPERTY HeardWhenMade
