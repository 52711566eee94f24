SPECIFICATION Spec
CONSTANTS
    Sinks <- Docks
    Requests <- Asks
    MaxSame = 1
    MaxCr = 2
    MaxEq = 2
    AuxFails = TRUE
    Faults = {"plldp", "plld2", "disb", "sequencer", "awake"}
INVARIANTS TypeOK BothEndsAgree PictureIsTrained
PROPERTIES RetrainsDescend StopUndoes
