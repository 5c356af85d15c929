SPECIFICATION Spec
CONSTANTS
    None = None
    Records <- MCRecords
    Default <- Plain
    Day = 3
    SlowFactor = 2
    SlowCap = 3
    BackFloor = 3
    BackCap = 3
    MaxFails = 1
    MaxWait = 3
INVARIANT
    RunsWhatItMissed
