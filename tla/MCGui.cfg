SPECIFICATION Spec
CONSTANTS
    Tours <- MCTours
    Frags <- MCFrags
    MaxInbox = 2
    Tries = 2
    StatusTries = 3
    MaxFrames = 1
    MaxRestarts = 1
    Chips <- MCChips
    Pages <- MCPages
    GroupOf <- MCGroupOf
    CardPages <- MCCardPages
    Keys <- MCKeys
    Outcomes <- MCOutcomes
    Rows <- MCRows
    Categories <- MCCategories
    Masks <- MCMasks
    Cap = 10
    Areas = {1, 2, 3}
    Button = 2
    MaxPage = 2
INVARIANTS
    TypeOK
    LeftAsFound
    RailsHaveOneOwner
    StreamIsConfigured
    SavedReportIsHonest
    StorageRunsSave
    ResultsTellTheVerdict
PROPERTIES
    OnlyTheRail
    CameraSettles
CHECK_DEADLOCK FALSE
