\* Two dispatches compete for one slot.
CONSTANTS
    d1 = d1
    d2 = d2
    Dispatches <- TwoDispatches
    MaxTotal = 1
    Deadlines <- Expiry
    Faults <- NoFaults
SPECIFICATION Spec
SYMMETRY Symmetry
CONSTRAINT Background
INVARIANTS WithinCap
CHECK_DEADLOCK FALSE
