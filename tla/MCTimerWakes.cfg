SPECIFICATION Spec
CONSTANTS
    ShortRange <- MCShortRange
    WideRange <- MCWideRange
    MinDelay = 1
    NanosPerMicro = 2
    MicrosPerSecond = 1
    Whens <- MCWhens
    Intervals <- MCIntervals
    Garbage <- MCGarbage
    StartTimes <- MCStartTimes
    MaxTime <- MCMaxTime
    MaxTimers <- MCMaxTimers
    MaxCancels <- MCMaxCancels
INVARIANTS WakesInTime
CHECK_DEADLOCK FALSE
