CONSTANTS
    MAX_ATTEMPTS = 8
    MaxStartups = 5
    MaxPdpRetries = 3
    PdpWaits = 5
    MaxFixes = 2
    Nbiot <- MCNbiot
    MaxFaults = 2
    MaxLate = 2
    MaxNoise = 1
SPECIFICATION FairSpec
INVARIANTS TypeOK InitSound OnAskedNetwork IdentityKnown
PROPERTY RunEnds
