SPECIFICATION Spec
CONSTANTS
    plain = plain
    dated = dated
    b1 = b1
    b2 = b2
    s1 = s1
    Configs = {plain, dated}
    Volatile = {dated}
    NoText = NoText
    Backups = {b1, b2}
    Syncs = {s1}
    MaxRows = 3
    MaxFaults = 1
INVARIANTS TypeOK PreviousIsOlder ForksMeanOverlap NewestIsLastRead
CHECK_DEADLOCK FALSE
SYMMETRY Symmetric
