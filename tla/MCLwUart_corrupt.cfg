SPECIFICATION FairSpec
CONSTANTS
    TxDepth = 4
    RxDepth = 2
    FlowControl = FALSE
    TxTimeoutCycle <- Disabled
    RxTimeoutCycle <- Disabled
    TxFifo = 1
    RxFifo = 1
    WriteLens <- NoLens
    ReadLens <- Reads
    ControlOps <- NoOps
    TxTotal = 0
    RxTotal = 1
    MaxBad = 1
    MaxCts = 0
INVARIANTS
    CorruptDiscarded
