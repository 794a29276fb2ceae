\* Two drains, linked and unlinked dispatches, one fault of any kind.
CONSTANTS
    d1 = d1
    d2 = d2
    Drains <- TwoDrains
    Slots <- ThreeSlots
    Txns <- SixTxns
    MaxRecoveries = 1
    MaxFailures = 1
    Linkage = {TRUE, FALSE}
    Faults <- AllFaults
    MaxFaults = 1
SPECIFICATION FairSpec
INVARIANTS TypeOK OneWorker WorkKept
PROPERTIES EventuallySettled
CHECK_DEADLOCK FALSE
