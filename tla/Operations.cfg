SPECIFICATION Spec
CONSTANTS
    None = None
    p1 = p1
    p2 = p2
    x1 = x1
    x2 = x2
    y1 = y1
    y2 = y2
    t1 = t1
    t2 = t2
    s0 = s0
    Procs = {p1, p2}
    MaxWrites = 3
    MaxDirect = 1
    MaxRuns = 3
    MaxSyncs = 3
    MaxForms = 4
    MaxOps = 4
    Tasks = {"reach", "backup", "cleanup"}
    Reach = "reach"
    Backup = "backup"
    Cleanup = "cleanup"
    Title <- MCTitle
    Rows = {1, 2, 3}
    Intervals = {0, 5}
    Devices = {x1, x2}
    Protocols = {"cdp", "lldp"}
    Entries <- MCEntries
    Names = {"gi", "po", "vlan"}
    Kind <- MCKind
    InterfaceRows = {1, 2, 3, 4}
    Types = {t1, t2}
    Reports <- MCReports
    Nets <- MCNets
    Places <- MCPlaces
    Interfaces <- MCInterfaces
    PrefixIds = {x1, x2}
    AddressIds = {y1, y2}
    AreaIds = {y1, y2, y3}
    SiteIds = {x1, x2}
    RackIds = {"rack"}
    PlacedDevices = {"device"}
SYMMETRY Symmetric
INVARIANTS TypeOK MirrorFollows OnePerTask SectionsKept MeasuredStays NeighboursFollow
           AnswersFollow AddressesApart ParentDecides AreasShown
CHECK_DEADLOCK FALSE
