SPECIFICATION FairSpec
CONSTANTS
    NPages = 3
    Enabled = {1}
    PageName <- Names
    WifiPages = {2}
    PushbackN = 4
    NameMax = 2
    StorageUp = TRUE
    Lines <- RebootLines
    Buttons = {}
    Polite = FALSE
    HostStalls = FALSE
    MaxSent = 4
    MaxPolls = 1
PROPERTY RebootHonoured
