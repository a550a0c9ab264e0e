SPECIFICATION FairSpec
CONSTANTS
    TxDepth = 2
    RxDepth = 2
    FlowControl = TRUE
    TxTimeoutCycle <- Disabled
    RxTimeoutCycle <- Disabled
    TxFifo = 1
    RxFifo = 1
    WriteLens <- ShortWrites
    ReadLens <- NoLens
    ControlOps <- NoOps
    TxTotal = 1
    RxTotal = 0
    MaxBad = 0
    MaxCts = 3
PROPERTIES
    DrainsOnceCleared
