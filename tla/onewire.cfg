CONSTANTS
    Bits = 3
    Device <- AllDevices
    MaxDevices = 3
SPECIFICATION Spec
INVARIANTS TypeOK FoundIsDevice NextIsNew AllAreFound
