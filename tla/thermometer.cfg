CONSTANTS
    Water = {400, 65528}
    MaxTemp = 320
    MaxNoise = 1
    Bits = 5
    FamilyBits = 2
    PulseSlots = 3
    Codes <- SomeCodes
    RomOf <- TwoRoms
SPECIFICATION SearchSpec
INVARIANTS TypeOK SearchTypeOK
PROPERTIES UndisturbedIsRight HotIsAlarmed CallReturns AcceptedIsReal ImplementsThermometer
