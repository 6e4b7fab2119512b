SPECIFICATION FairSpec
CONSTANTS
    Nco <- MCNco
    TxDepth = 1
    RxDepth = 2
    MaxSend = 2
    MaxRecv = 3
INVARIANTS
    TypeOK
    TxInOrder
    WriteComplete
    RxOrder
PROPERTIES
    CallsReturn
CHECK_DEADLOCK FALSE
