\* A launcher killed between spawn and attach.
CONSTANTS
    d1 = d1
    d2 = d2
    Dispatches <- OneDispatch
    MaxTotal = 1
    Deadlines <- EveryDeadline
    Faults <- Crashes
SPECIFICATION Spec
PROPERTIES LiveChildNeverReleased
CHECK_DEADLOCK FALSE
