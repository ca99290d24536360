\* stop() while a coroutine yields and then waits for a descriptor.
CONSTANTS
    w1 = w1  w2 = w2  main = main  c1 = c1  c2 = c2  k1 = k1  f1 = f1
    d1 = d1  d2 = d2  None = None
    Worker = {w1, w2}
    Caller = main
    UseCaller = FALSE
    UserCor = {c1}
    CbCor = {}
    Callback = {}
    AppPins = {}
    TaskPins = {}
    MaxSteps = 2
    MaxQueue = 3
    Fd = {d1}
    Wanted = {"READ"}
    Signals = {"READ"}
    TimerCb = {}
    MaxArrive = 0
SPECIFICATION IOSpec
INVARIANTS
    NothingPending
