\* Two doorbells and a stream over one row of mail with one rewind or one mishap,
\* or over three rows one of which becomes visible below a report.
CONSTANTS
    b1 = b1
    b2 = b2
    s1 = s1
    None = None
    Streams <- OneStream
    Bells <- TwoBells
    MaxMail = 3
    MaxRewinds = 1
    Mishaps <- Deaths
    MaxMishaps = 1
SPECIFICATION FairSpec
INVARIANTS TypeOK NothingHidden StampAnswered
PROPERTIES EveryMailHeard
CONSTRAINT OneOrLate
CHECK_DEADLOCK FALSE
