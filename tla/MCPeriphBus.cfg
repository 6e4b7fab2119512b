SPECIFICATION FairSpec
CONSTANTS
    Reader = {cpuR, dbgR}
    Writer = {cpuW}
    NoPort = NoPort
    NoReq = NoReq
    cpuR = cpuR
    dbgR = dbgR
    cpuW = cpuW
    Line = {1, 9}
    ReadSize = {2}
    SlaveOf <- MCSlaveOfDead
    Unmapped = "unmapped"
    DefaultSlave = "soc_ctrl"
    Dead = {"ext_reg"}
    NoReg <- MCNoReg
INVARIANTS
    TypeOK
    NoResponseLost
    ResponsesMatch
    MetaHasRoom
PROPERTIES
    WriteErrorExact
    ImplementsSerialPort
    EveryRequestAnswered
CHECK_DEADLOCK FALSE
