SPECIFICATION FairSpec
CONSTANTS
    Alarms <- TwoAlarms
    AlarmList = "alt_alarm_list"
    NoAlarm = "NULL"
    Words = 4
    Delta = 2
    Delays = {0}
    Periods = {0, 2}
    Sleeps = {2}
    ResetCompare = 0
    MaxTime = 5
    MaxInits = 2
INVARIANTS
    SleptLongEnough
    AlarmOnTime
PROPERTIES
    TicksOnTime
    TickReturns
