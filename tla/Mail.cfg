SPECIFICATION Spec
CONSTANTS
    Labels = {c1, c2}
    Owner = c1
    Terminals = {t1}
    Posts = {m1}
    JsonReaders = {c1}
    Projectors = {p1}
    MaxTries = 2
    MaxLeases = 1
    MaxFaults = 1
    Star = star
    None = none
INVARIANTS
    TypeOK
    OnePosition
    TerminalKept
PROPERTIES
    PassedOnlyShown
    Settled
CHECK_DEADLOCK FALSE
