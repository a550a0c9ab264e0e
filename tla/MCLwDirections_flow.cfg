SPECIFICATION DirectedSpec
CONSTANTS
    TxDepth = 2
    RxDepth = 2
    FlowControl = TRUE
    TxTimeoutCycle = 1
    RxTimeoutCycle = 1
    TxFifo = 1
    RxFifo = 1
    WriteLens <- ShortWrites
    ReadLens <- Reads
    ControlOps <- NoOps
    TxTotal = 2
    RxTotal = 2
    MaxBad = 1
    MaxCts = 1
    Ways = {"both"}
INVARIANTS
    TxNoLoss
    RxAccounted
    RtsHeldWhileSending
    DiscardsPaidFor
