CONSTANTS
    Comma <- MCComma
    LF <- MCLF
    Nul <- MCNul
    Zero <- MCZero
    CheckSum <- MCCheckSum
    Data <- MCData
    Radix = 2
    ClockOf <- MCClockOf
    DateOf <- MCDateOf
    Valid = "A"
    Void = "V"
    Words = 3
    Value <- MCValue
    MaxIrqs = 1
    Calendars <- MCCalendars
    Late = 3
    MaxMissed = 1
    MaxCalls = 1
    None = None
SPECIFICATION TimeSpec
INVARIANTS NotTorn ShowsTrueTime RtcIsRecent
PROPERTIES RetriesOnlyIfDisturbed ShownTimeIsTrue
CHECK_DEADLOCK FALSE
