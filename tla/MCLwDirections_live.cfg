SPECIFICATION DirectedSpec
CONSTANTS
    TxDepth = 4
    RxDepth = 4
    FlowControl = FALSE
    TxTimeoutCycle <- Disabled
    RxTimeoutCycle <- Disabled
    TxFifo = 1
    RxFifo = 1
    WriteLens <- LongWrites
    ReadLens <- Reads
    ControlOps <- ThreeOps
    TxTotal = 5
    RxTotal = 5
    MaxBad = 0
    MaxCts = 0
    Ways = {"tx", "rx"}
PROPERTIES
    TxRefinesChannel
    TxDrains
    CallsReturn
    RxRefinesChannel
