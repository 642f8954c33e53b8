CONSTANTS
    NumReg = 2
    HalfBits = 1
SPECIFICATION FairSpec
INVARIANTS
    TypeOK
    FlushProgress
    NothingLostOverStandby
PROPERTIES
    FlushTerminates
    StoreSpec
