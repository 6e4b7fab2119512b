SPECIFICATION Spec
CONSTANTS
    Nco = {2684}
    TxDepth = 2
    RxDepth = 2
    MaxSend = 2
    MaxRecv = 2
INVARIANTS
    EveryByteReturned
CHECK_DEADLOCK FALSE
