\* One dispatch; crashes, failing probes, pid reuse, surviving descendants,
\* overrides of an operator, withdrawal and supersession.
CONSTANTS
    d1 = d1
    d2 = d2
    Dispatches <- OneDispatch
    MaxTotal = 1
    Deadlines <- ExpiryAndDay
    Faults <- EveryHand
SPECIFICATION Spec
CONSTRAINT LateHandsOff
INVARIANTS TypeOK MirrorNeverLeads
PROPERTIES SupersededNeverSpawns LiveWorkerKeepsSlot DescendantsKeepSlot
CHECK_DEADLOCK FALSE
