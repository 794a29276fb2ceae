\* One waiter that is killed anywhere and asks again, a controller that repeats itself.
CONSTANTS
    p1 = p1
    p2 = p2
    Waiters <- OneWaiter
    Asked <- Needs
    Messages <- MixedMessages
    MaxWaits = 1
    MaxSteers = 1
    Faults <- EveryFault
SPECIFICATION FairSpec
INVARIANTS TypeOK ToldTruth
PROPERTIES ReplyReaches WaitCloses
CHECK_DEADLOCK FALSE
CONSTRAINT OneHelper
