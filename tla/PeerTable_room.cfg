SPECIFICATION Spec
CONSTANTS
    p = p
    q = q
    r = r
    s = s
    u = u
    a = a
    b = b
    c = c
    Peers = {p, r, s}
    Addrs = {a, b}
    None = None
    Routes <- BareRoutes
    Kind <- MCKind
    RoomNames = {a, p}
    MaxPeers = 2
    MaxPeerAddresses = 1
    Window = 1
    StaleAfter = 0
    MaxClock = 1
INVARIANTS
    IndexResolves
    NoRevival
PROPERTIES
    HandshakeSessionsStay
