SPECIFICATION Spec
CONSTANTS
    WordBits = 4
    Regions <- MCRegions
    Protected = {{}}
    Offsets <- MCOffsets
    Salt <- MCSalt
    HiHash <- MCHiHash
    NonZero = {0, 2}
    Order <- MCOrder
    Faults <- MCFaults
    MaxErrors = 3
    KeySets <- MCKeySets
    Groups <- MCGroups
    Platforms = {"erista", "mariko", "unknown"}
INVARIANTS TypeOK GoodMemoryPasses PassIsEarned VolumeActsOnce
PROPERTIES RunsAgain
CHECK_DEADLOCK FALSE
