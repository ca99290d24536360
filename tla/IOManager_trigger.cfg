\* A reader and a writer of one descriptor.
CONSTANTS
    w1 = w1  w2 = w2  main = main  c1 = c1  c2 = c2  k1 = k1  f1 = f1
    d1 = d1  d2 = d2  None = None
    Worker = {w1, w2}
    Caller = main
    UseCaller = FALSE
    UserCor = {c1, c2}
    CbCor = {}
    Callback = {}
    AppPins = {}
    TaskPins = {}
    MaxSteps = 1
    MaxQueue = 3
    Fd = {d1}
    Wanted = {"READ", "WRITE"}
    Signals = {"READ", "WRITE"}
    TimerCb = {}
    MaxArrive = 2
SPECIFICATION IOSpec
SYMMETRY Symmetry
INVARIANTS
    TriggerAllowed
