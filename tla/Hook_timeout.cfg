SPECIFICATION Spec
CONSTANTS
    None = None
    c1 = c1
    c2 = c2
    Caller = {c1}
    Fd = {2, 3}
    InitialSize = 3
    Listener = 2
    Connected = 3
    ConcurrentClose = FALSE
    MaxCalls = 1
    MaxInput = 1
CHECK_DEADLOCK FALSE
PROPERTIES
    TimeoutWakes
