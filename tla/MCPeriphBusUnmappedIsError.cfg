SPECIFICATION Spec
CONSTANTS
    Reader = {cpuR}
    Writer = {cpuW}
    NoPort = NoPort
    NoReq = NoReq
    cpuR = cpuR
    cpuW = cpuW
    Line = {0, 1, 8}
    ReadSize = {2, 3}
    SlaveOf <- MCSlaveOf
    Unmapped = "unmapped"
    DefaultSlave = "soc_ctrl"
    Dead = {}
    NoReg <- MCNoReg
PROPERTIES
    UnmappedIsError
