SPECIFICATION Spec
CONSTANTS
    MaxSockets = 1
    RxBufSize = 2
    MaxSegment = 2
    SeqWidth = 16
    MaxPorts = 2
    Isns = {11}
    PeerIsns = {14}
    PeerTotals = {0, 3}
    SendSizes = {1, 3}
    RecvSizes = {1}
    MaxSend = 4
VIEW View
INVARIANTS
    BytesInOrder
    GapsAreKnown
    SentIsReceived
    SocketsAreHeld
CHECK_DEADLOCK FALSE
