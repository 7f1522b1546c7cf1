CONSTANTS
    A = A
    B = B
    c1 = c1
    c2 = c2
    c3 = c3
    None = None
    Node <- MCNode
    Conn <- MCConn
    Fragile <- MCFragile
    Dialer <- MCDialer
SPECIFICATION Spec
CHECK_DEADLOCK FALSE
PROPERTIES OneStaysOpen StoresAgree
