SPECIFICATION FairSpec
CONSTANTS
    Registered <- BspDevices
    Stdio = "lw_uart"
    NullDev = "null"
    DevList = "alt_dev_list"
    NoDevice = "NULL"
    Unknown = "unknown"
    MaxFds = 5
    MainReinits = FALSE
    ProgramAccess = {"O_RDWR"}
INVARIANTS
    OneHolder
    DevicesReachable
PROPERTIES
    FailedOpenLeavesTable
    LocksRefined
