SPECIFICATION Spec
CONSTANTS
    i1 = i1
    i2 = i2
    h1 = h1
    d1 = d1
    d2 = d2
    s1 = s1
    s2 = s2
    j1 = j1
    j2 = j2
    IPs = {i1, i2}
    Hosts = {}
    NoHost = NoHost
    Given = {i1, i2}
    Answers <- NamelessAnswers
    Ranges = {i1, i2}
    Devices = {d1, d2}
    Inventory <- NoInventory
    NoDevice = NoDevice
    Scans = {s1}
    Jobs = {j1}
    None = None
    Gone = Gone
    MaxFaults = 0
    MaxRequests <- OnePage
INVARIANTS IgnoredStaysUnassigned
CHECK_DEADLOCK FALSE
