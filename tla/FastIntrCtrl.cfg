SPECIFICATION FairSpec
CONSTANTS
    Source = {"timer_1", "timer_2", "ext_peri"}
    Pulse = {}
    ResetEnable = {"timer_1", "timer_2"}
    MaxRaise = 2
INVARIANTS
    TypeOK
    AtMostTwoRuns
PROPERTIES
    HeldLineServed
