\* One dispatch; launcher, watcher and repair passes may be killed anywhere,
\* and the controller comes and goes.
CONSTANTS
    d1 = d1
    d2 = d2
    Dispatches <- OneDispatch
    MaxTotal = 1
    Deadlines <- LiveDeadlines
    Faults <- CrashesAndOwner
SPECIFICATION FairSpec
PROPERTIES SlotReclaimed DispatchSettles
CHECK_DEADLOCK FALSE
