SPECIFICATION Spec
CONSTANTS
    NPages = 3
    Enabled = {1}
    PageName <- Names
    WifiPages = {2}
    PushbackN = 16
    NameMax = 2
    StorageUp = TRUE
    Lines <- AllLines
    Buttons = {}
    Polite = FALSE
    HostStalls = FALSE
    MaxSent = 4
    MaxPolls = 1
INVARIANT NamesAreNotKeys
