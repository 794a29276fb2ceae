\* Two waiting commands at a time, one arm after the other, crashes.
CONSTANTS
    p1 = p1
    p2 = p2
    Waiters <- TwoWaiters
    Asked <- Confirms
    Messages <- OneDecision
    MaxWaits = 2
    MaxSteers = 0
    Faults <- Crashes
SPECIFICATION Spec
INVARIANTS OneOutcome DeadlineIsFinal
PROPERTIES QuestionsKept
CHECK_DEADLOCK FALSE
CONSTRAINT OneHelper
SYMMETRY Symmetry
