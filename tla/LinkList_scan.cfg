\* Three devices, plugged, unplugged and taken at any time; no peers.
SPECIFICATION Spec
CONSTANTS
    Ports = {}
    Hids = {d1, d2, d3}
    Peers = {}
    Garbage = garbage
    NoPath = NoPath
    MaxLinks = 0
INVARIANTS TypeOK FirstListed NotMissed
PROPERTIES ScanEnds
