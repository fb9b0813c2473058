CONSTANTS
    Comma <- MCComma
    LF <- MCLF
    Nul <- MCNul
    Zero <- MCZero
    CheckSum <- MCCheckSum
    Data <- MCData
    Radix = 1
    ClockOf <- MCClockOf
    DateOf <- MCDateOf
    Valid = "A"
    Void = "V"
    Sentences <- YearEnd
    Rmc = "$GPRMC"
    Gga = "$GPGGA"
    Vtg = "$GPVTG"
    BufLen = 30
    FifoLen = 2
    HoldLen = 1
    PpsInUse = TRUE
    MaxPresses = 0
    MaxPulses = 2
    None = None
SPECIFICATION Spec
PROPERTIES PulseIsOneSecond
