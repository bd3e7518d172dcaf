SPECIFICATION LanSpec
CONSTANTS
    p = p
    q = q
    r = r
    s = s
    u = u
    a = a
    b = b
    c = c
    Peers = {p, q, u}
    Addrs = {a, b, c}
    None = None
    Routes <- LanRoutes
    Kind <- MCKind
    RoomNames = {}
    MaxPeers = 2
    MaxPeerAddresses = 2
    Window = 1
    StaleAfter = 1
    MaxClock = 2
INVARIANTS
    NoSharedEntry
    KeysFollowEntries
PROPERTY
    OnlyNewcomersAlarm
CHECK_DEADLOCK FALSE
