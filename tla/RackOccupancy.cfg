SPECIFICATION Spec
CONSTANTS
    d1 = d1
    d2 = d2
    k1 = k1
    k2 = k2
    w1 = w1
    w2 = w2
    Devices = {d1, d2}
    Racks = {k1, k2}
    None = None
    Height = 2
    Sizes = {1, 2}
    Heights = {1}
    Writers = {w1, w2}
    MaxWrites = 3
    MaxFaults = 1
SYMMETRY Symmetric
INVARIANTS TypeOK QuietListIsExact PositionsApart
CHECK_DEADLOCK FALSE
