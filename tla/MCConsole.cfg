SPECIFICATION Spec
CONSTANTS
    NPages = 3
    Enabled = {1}
    PageName <- Names
    WifiPages = {2}
    PushbackN = 2
    NameMax = 1
    StorageUp = TRUE
    Lines <- SweepLines
    Buttons = {"up", "down", "power"}
    Polite = FALSE
    HostStalls = TRUE
    MaxSent = 4
    MaxPolls = 1
INVARIANTS VerdictSeesTheSweep SinksFollowTheJob
PROPERTY SaveIsTheLatestSweep
