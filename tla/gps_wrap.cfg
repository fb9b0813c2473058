CONSTANTS
    Comma <- MCComma
    LF <- MCLF
    Nul <- MCNul
    Zero <- MCZero
    CheckSum <- MCCheckSum
    Data <- MCData
    Radix = 1
    ClockOf <- MCClockOf
    DateOf <- MCDateOf
    Valid = "A"
    Void = "V"
    Sentences <- OverrunSentences
    Rmc = "$GPRMC"
    Gga = "$GPGGA"
    Vtg = "$GPVTG"
    BufLen = 30
    FifoLen = 2
    HoldLen = 4
    PpsInUse = FALSE
    MaxPresses = 1
    MaxPulses = 0
    None = None
SPECIFICATION Spec
PROPERTIES ActiveUntouched
