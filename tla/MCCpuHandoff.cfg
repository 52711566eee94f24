SPECIFICATION FairSpec
CONSTANTS
    Attempts = 3
    EarlyWindow = 10
    LateWindow = 1
    Ceiling = 40
    DiagWait = 5
    BootGap = 1
    Dur <- StageDur
    Gap <- StageGap
INVARIANTS TypeOK ClusterOffAtTheEnd VerdictIsOfThisAttempt
PROPERTIES StallIsRealOrMidStep AlwaysReturns
