SPECIFICATION DataSpec
CONSTANTS
    FirstYear = 1880
    LastYear = 2105
    MaxDays = 24854
    ClockTimes <- MCClockTimes
    Offsets <- MCOffsets
    ZoneFiles <- MCZoneFiles
    ZoneTimes <- MCZoneTimes
    FirstNumbers <- MCNumbers
    MostTimesTen = 99000000
    Fields <- MCFields
    Arguments <- MCArguments
    MaxArguments = 3
    Strings <- MCStrings
    Leaves <- MCLeaves
    Throws <- MCThrows
    ReadAs <- MCReadAs
    PrintedAs <- MCPrintedAs
    Numerals <- MCNumerals
    Keys <- MCKeys
    Samples <- MCSamples
    kCheapPrepend = 2
    kInitialSize = 2
    ExtraSize = 2
    Reserves <- MCReserves
    MaxLength = 3
    MaxBytes = 6
    RollSize = 3
    FlushInterval = 1
    CheckEveryN = 2
    Day = 4
    LocalTime <- MCLocalTime
    Lengths <- MCLengths
    StartTimes <- MCStartTimes
    MaxTime = 6
    MaxAppends = 4
CHECK_DEADLOCK FALSE
INVARIANTS RoomFound CalendarAgrees LocalTimeRoundTrips NumbersPrinted LineReadsBack ValueReadsBack
INVARIANTS  LongOnlyInItsSecond FileOfOneDay FlushedInTime
PROPERTIES ImplementsByteStream
