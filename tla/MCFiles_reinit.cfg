SPECIFICATION FairSpec
CONSTANTS
    Registered <- BspDevices
    Stdio = "lw_uart"
    NullDev = "null"
    DevList = "alt_dev_list"
    NoDevice = "NULL"
    Unknown = "unknown"
    MaxFds = 4
    MainReinits = TRUE
    ProgramAccess = {"O_RDWR"}
PROPERTIES
    OpenReturns
