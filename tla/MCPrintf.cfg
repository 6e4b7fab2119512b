CONSTANTS
    Families <- MCFamilies
    IntMod = 1048576
    LongMod = 16777216
    NumSize = 32
SPECIFICATION Spec
INVARIANTS
    MatchesC
    FloatsMatchC
    SinkHoldsText
CHECK_DEADLOCK FALSE
