SPECIFICATION Spec
CONSTANTS
    d1 = d1
    d2 = d2
    k1 = k1
    k2 = k2
    w1 = w1
    w2 = w2
    Devices = {d1, d2}
    Racks = {k1}
    None = None
    Height = 2
    Sizes = {1, 2}
    Heights = {1, 2}
    Writers = {w1}
    MaxWrites = 3
    MaxFaults = 0
SYMMETRY Symmetric
INVARIANT NoUnitShared
CHECK_DEADLOCK FALSE
