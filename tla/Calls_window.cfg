SPECIFICATION Spec
CONSTANTS
    Peers = {b, c}
    Socks = {s1, s2}
    None = None
SYMMETRY MCHosts
PROPERTY CallKeepsItsWindow
