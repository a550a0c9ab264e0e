SPECIFICATION Spec
CONSTANTS
    Apps <- MipiApp
    ExpTimes <- TwoTimes
    Beyond = 65244
    StartIndex = 1
    MaxPresses = 1
    MaxErrors = 0
    Outputs = 2
PROPERTIES
    PokeWrites
