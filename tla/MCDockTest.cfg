SPECIFICATION Spec
CONSTANTS
    Settle = 0
    StepTimeout = 1
    HpdWait = 0
    HubDelay = 0
    IrqWait = 0
    IdWait = 1
    Kinds = {"dock", "adapter", "charger", "plain"}
    MaxRuns = 1
    MaxPlugs = 1
    MaxBusy = 1
    Troubles = {"fault", "quiet"}
INVARIANTS TypeOK LineRestsLow
PROPERTIES LeavingIsClean StepsOnItsOwnCompletion SilenceIsReal ResetIsAlone
