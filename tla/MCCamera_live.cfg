SPECIFICATION FairSpec
CONSTANTS
    Apps <- BothApps
    ExpTimes <- TwoTimes
    Beyond = 65244
    StartIndex = 1
    MaxPresses = 2
    MaxErrors = 1
    Outputs = 2
INVARIANTS
    ExposureFollows
    DumpFromOneFrame
PROPERTIES
    OutputsInOrder
    LedShowsVideo
