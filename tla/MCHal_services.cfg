SPECIFICATION HalSpec
CONSTANTS
    NIRQ = 2
    Isrs = {a, b}
    NULL = NULL
    Modes = {"direct", "vic"}
    EccPresent = TRUE
    MaxDepth = 2
    MaxOps = 3
    MaxRequests = 2
    PlatformLines = 5
    LevelBits = 1
    PriorityBits = 1
    Irqs = {0, 1, 4}
    MaxCalls = 2
    MaxInterfaces = 4
    Increment = 3
    MaxScans = 2
    NullBlocks = {TRUE, FALSE}
    Absolute = {0, 2}
    WordBits = 16
    Values <- SomeValues
    Widths <- SomeWidths
    Precisions <- SomePrecisions
    Descriptors = {0, 1, 3}
    Configurations <- Builds
    Freq = 64
    Baud = 2
    Speeds = {2, 4, 32}
    PutbufSize = 2
    MaxGiven = 5
    Cores = {"lw", "jtag"}
    Lengths = {0, 2}
    Depth = 2
    MaxSent = 2
    MaxTyped = 2
    MaxBad = 1
    Arcs <- TwoCallers
    EntrySize = 12
    ArcSize = 12
    Slab = 36
    TextSize = 6
    BytesPerBucket = 4
    HeapLimit = 60
    Increments = {3, 9}
    MaxBlocks = 1
    MaxIsrCalls = 2
    Word = 4
    ALT_US = 6
    Rates = {2, 4}
    Times = {0, 9}
    MaxTicks = 6
    Flags <- AllFlags
    Space = 2
    INTERVAL = 1
    JTAG_UART_TICKS = 1
    ECHO_LEN = 2
    Texts <- SomeTexts
    MaxBeats = 3
    MaxWrites = 1
    MaxInterrupts = 1
    Programs <- AllPrograms
    READ_DEPTH = 2
    Constructors = 2
    MaxBytes = 2
    MaxPrints = 2
    LINE = 4
    SETS = 2
    Memory = 3
    HandlerLine = 2
    EccLine = 1
    CodeLine = 0
    Starts = {1}
    RangeLengths = {2, 4}
    MaxStores = 2
INVARIANTS
    CriticalSections
    DflTableRight
    TextRight
    AccessKept
    SettingsAgree
    OutputExact
    CallsCounted
    BlocksDisjoint
    TimeOfDayRight
    LogRight
    EarlyInterruptsSafe
    NothingStranded
    FlushesReachMemory
PROPERTIES
    RegistryRefined
    RequestServed
    ClicRefined
CHECK_DEADLOCK FALSE
