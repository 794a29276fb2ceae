\* One seat, two dispatches and a resume; one launcher dies or one git step fails.
CONSTANTS
    d1 = d1
    d2 = d2
    r1 = r1
    None = None
    Dispatches <- Three
    Parent <- ResumesFirst
    SeatLimit = 1
    MaxEdits <- FirstEdits
    MaxFaults = 1
SPECIFICATION FairSpec
INVARIANTS TypeOK OneWriter NothingLost
PROPERTIES WorkerKeepsCheckout SeatFound
CHECK_DEADLOCK FALSE
