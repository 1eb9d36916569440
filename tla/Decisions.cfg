SPECIFICATION Spec
CONSTANTS
    None = None
    Sizes = {"large", "small"}
    Default = "default"
    s1 = s1
    s2 = s2
    Databases <- MCDatabases
    Queries <- MCQueries
    Sites = {s1, s2}
    Tags = {"core"}
    Numbers = {"7"}
    Statuses = {"up", "err-disabled"}
    UsageAreas = {"a", "b"}
    Gone = Gone
    PageSize = 2
    MaxBlocks = 2
INVARIANTS TypeOK SizeArrives SheetIsListing OneBlock
PROPERTIES TerminalEnds
CHECK_DEADLOCK FALSE
