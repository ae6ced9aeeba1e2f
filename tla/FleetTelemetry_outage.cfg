CONSTANTS
    MaxPending = 2
    Minute = 2
    Hour = 4
    RawKept = 1
    MinuteKept = 3
    ReadingTimes = {1, 2, 3}
    MaxTime = 5
    MaxWire = 1
SPECIFICATION FairSpec
INVARIANTS OutageSurvived SummarisedUnlessLate
PROPERTIES ReadingsArrive
CHECK_DEADLOCK FALSE
