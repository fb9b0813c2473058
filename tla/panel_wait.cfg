CONSTANTS
    SatsWidth = {5, 6}
    SpeedWidth = {16, 20}
SPECIFICATION FairSpec
PROPERTIES FixIsShown
