CONSTANTS
    MaxFaults = 3
SPECIFICATION FairSpec
CHECK_DEADLOCK FALSE
INVARIANTS
    TypeOK
    IntactInTime
    NotSentTwice
    PostRecovers
PROPERTIES
    CallsEnd
