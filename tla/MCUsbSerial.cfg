SPECIFICATION FairSpec
CONSTANTS
    Pcs <- MCPcs
    CtrlSlots = 2
    BulkSlots = 1
    EventSlots = 3
    TxSize = 1
INVARIANTS EndsAgree FailuresAreCaused OffIsDown
PROPERTY PcGetsIn
