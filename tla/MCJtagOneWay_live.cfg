SPECIFICATION OneWaySpec
CONSTANTS
    BufLen = 3
    IntMax = 5
    DefaultTimeout = 2
    WriteDepth = 1
    ReadDepth = 1
    WriteThreshold = 0
    WriteLens <- LongWrites
    ReadLens <- Reads
    Timeouts <- SomeTimeouts
    TxTotal = 4
    RxTotal = 4
    MaxHostChanges = 2
PROPERTIES
    TxRefinesChannel
    RxRefinesChannel
    TxDrains
    CallsReturn
