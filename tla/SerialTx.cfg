CONSTANTS
    Size = 4
    Byte <- const_Byte
    Zero = 0
    LateStore = TRUE
    Backlog = 2
SPECIFICATION FairSpec
INVARIANTS
    TypeOK
    NoStrandedByte
    OneSender
PROPERTIES
    FifoUnlessPreempted
    Drains
