CONSTANTS
    Argvs <- MCArgvs
    Codes <- MCCodes
    Causes <- MCCauses
    Slice = 100
    Period = 100
    Thousand = 10
    TimeMod <- MCTimeMod
SPECIFICATION Spec
INVARIANTS
    TypeOK
    ValidMeansFinal
    PassIsEarned
    LimitKept
    LaunchedByBench
PROPERTIES
    SimulationEnds
    BootsToMain
CHECK_DEADLOCK FALSE
