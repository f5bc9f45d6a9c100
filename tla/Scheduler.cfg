CONSTANTS
    ClockMod = 32
    TaskPeriods = {0, 3, 5}
    Capacity = 2
    MaxBoot = 1
    MaxGap = 6
    MaxPass = 2
SPECIFICATION FairSpec
INVARIANT DueWithinOnePeriod
PROPERTIES
    ImplementsCadence
    NoTaskStarves
