SPECIFICATION FairSpec
CONSTANTS
    Settle = 0
    StepTimeout = 1
    HpdWait = 0
    HubDelay = 1
    IrqWait = 0
    IdWait = 1
    Kinds = {"dock"}
    MaxRuns = 1
    MaxPlugs = 1
    MaxBusy = 1
    Troubles = {"quiet"}
PROPERTY WaitsEnd
