SPECIFICATION Spec
CONSTANTS
 MaxHeight = 2
 MaxAlter = 0
 MaxFails = 0
 MaxCrashes = 1
 Batch = 2
 Interval = 9
INVARIANTS
 NoFalseAlarm
CHECK_DEADLOCK FALSE
