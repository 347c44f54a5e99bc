CONSTANTS
    MaxFds = 5
    MaxPipes = 2
    MaxHandles = 2
    PipeRoom = 1
    Kids = {1, 2}
    Lines <- SomeLines
SPECIFICATION Spec
CHECK_DEADLOCK FALSE
INVARIANT
    PipeEndsStayOpen
