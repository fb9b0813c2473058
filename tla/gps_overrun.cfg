CONSTANTS
    Comma <- MCComma
    LF <- MCLF
    Nul <- MCNul
    Zero <- MCZero
    CheckSum <- MCCheckSum
    Data <- MCData
    Radix = 1
    ClockOf <- MCClockOf
    DateOf <- MCDateOf
    Valid = "A"
    Void = "V"
    Sentences <- OverrunSentences
    Rmc = "$GPRMC"
    Gga = "$GPGGA"
    Vtg = "$GPVTG"
    BufLen = 50
    FifoLen = 2
    HoldLen = 3
    PpsInUse = TRUE
    MaxPresses = 1
    MaxPulses = 1
    None = None
SPECIFICATION FairSpec
INVARIANTS LineTerminated PassiveHoldsLine
PROPERTIES ImplementsFeed ParseStaysPassive SentenceIsApplied
