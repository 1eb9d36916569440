SPECIFICATION FairSpec
CONSTANTS
    i1 = i1
    i2 = i2
    h1 = h1
    d1 = d1
    d2 = d2
    s1 = s1
    s2 = s2
    j1 = j1
    j2 = j2
    IPs = {i1, i2}
    Hosts = {h1}
    NoHost = NoHost
    Given = {i2}
    Answers <- OneAnswer
    Ranges = {i1}
    Devices = {d1, d2}
    Inventory <- NamesakeInventory
    NoDevice = NoDevice
    Scans = {s1, s2}
    Jobs = {j1}
    None = None
    Gone = Gone
    MaxFaults = 0
    MaxRequests <- OneOfEach
INVARIANTS TypeOK MatchHasDevice SeenIsExamined
CHECK_DEADLOCK FALSE
PROPERTIES JobsEnd
