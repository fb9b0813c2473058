CONSTANTS
    Bits = 3
    Device <- FourDevices
    MaxDevices = 4
SPECIFICATION Spec
INVARIANTS NextIsNew
