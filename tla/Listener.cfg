SPECIFICATION ServeSpec
CONSTANTS
    Conn = {k1, k2}
    MaxLosses = 3
INVARIANTS ServeTypeOK NoneDropped
PROPERTIES TCPTaken ServeEnds
CHECK_DEADLOCK FALSE
