\* Three connections of one peer, some nameless, and a port that comes and goes.
SPECIFICATION Spec
CONSTANTS
    Ports = {c1}
    Hids = {}
    Peers = {p1}
    Garbage = garbage
    NoPath = NoPath
    MaxLinks = 3
INVARIANTS PeersAccounted BoxAccounted
PROPERTIES PeersListed
