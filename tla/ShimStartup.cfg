SPECIFICATION FairSpec
CONSTANTS
    MaxMissing = 3
CHECK_DEADLOCK FALSE
INVARIANTS
    TypeOK
    PositionsAgree
    PanicsOnlyOnNil
    GivesUpOnTime
PROPERTIES
    DialingEnds
