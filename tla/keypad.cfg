CONSTANTS
    NRow = 2
    NCol = 3
    MaxHeld = 2
    None <- MCNone
SPECIFICATION FairSpec
INVARIANTS Listens InTable
PROPERTIES SteadyKey KeyAnswered
