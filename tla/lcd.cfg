CONSTANTS
    LCDTypes <- MCTypes
    Chars <- MCChars
    Cursors = {0, 2}
    Places <- MCPlaces
    UdcRows = 2
    MaxCalls = 3
    MaxBlind = 1
    MaxStarts = 1
    MaxLosses = 1
    LastFault = 1
SPECIFICATION BusSpec
INVARIANTS TypeOK AddressFollowsCursor InStep
PROPERTIES ImplementsBytes ImplementsTerminal
CHECK_DEADLOCK FALSE
