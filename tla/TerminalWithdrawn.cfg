SPECIFICATION Spec
CONSTANTS
    Labels = {c1, c2}
    Owner = none
    Terminals = {t1}
    Posts = {}
    JsonReaders = {}
    Projectors = {p1, p2}
    MaxTries = 2
    MaxLeases = 1
    MaxFaults = 0
    Star = star
    None = none
INVARIANT
    ProjectedHasRow
CHECK_DEADLOCK FALSE
