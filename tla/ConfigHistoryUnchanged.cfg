SPECIFICATION Spec
CONSTANTS
    plain = plain
    dated = dated
    b1 = b1
    b2 = b2
    s1 = s1
    Configs = {plain, dated}
    Volatile = {dated}
    NoText = NoText
    Backups = {b1}
    Syncs = {}
    MaxRows = 3
    MaxFaults = 0
INVARIANTS OnlyChangesStored
CHECK_DEADLOCK FALSE
