SPECIFICATION Spec
CONSTANTS
    d1 = d1
    d2 = d2
    d3 = d3
    s1 = s1
    s2 = s2
    p1 = p1
    p2 = p2
    Devices = {d1, d2, d3}
    Cards = {card}
    Optics = {optic}
    Serials = {s1, s2}
    Tags = {tag}
    None = None
    Procs = {p1, p2}
    Rows = {1, 2, 3}
    MaxWrites = 2
    MaxDeletes = 1
SYMMETRY Symmetric
INVARIANTS TypeOK ReplacementKeepsOne
PROPERTIES ImplementsLedger RetireKeepsChosen ImportTakesEveryLine
CHECK_DEADLOCK FALSE
