CONSTANTS
    Comma <- MCComma
    LF <- MCLF
    Nul <- MCNul
    Zero <- MCZero
    CheckSum <- MCCheckSum
    Data <- MCData
    Radix = 1
    ClockOf <- MCClockOf
    DateOf <- MCDateOf
    Valid = "A"
    Void = "V"
    Sentences <- SerialSentences
    Rmc = "$GPRMC"
    Gga = "$GPGGA"
    Vtg = "$GPVTG"
    BufLen = 30
    FifoLen = 2
    HoldLen = 1
    PpsInUse = FALSE
    MaxPresses = 0
    MaxPulses = 0
    None = None
SPECIFICATION Spec
INVARIANTS TypeOK PassiveHoldsLine ValidTimeInRange RtcReported
PROPERTIES ImplementsFeed
