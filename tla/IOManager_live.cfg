\* use_caller with one worker, liveness.
CONSTANTS
    w1 = w1  w2 = w2  main = main  c1 = c1  c2 = c2  k1 = k1  f1 = f1
    d1 = d1  d2 = d2  None = None
    Worker = {w1}
    Caller = main
    UseCaller = TRUE
    UserCor = {c1, c2}
    CbCor = {}
    Callback = {}
    AppPins = {}
    TaskPins = {}
    MaxSteps = 1
    MaxQueue = 3
    Fd = {d1}
    Wanted = {"READ"}
    Signals = {"READ"}
    TimerCb = {}
    MaxArrive = 1
SPECIFICATION IOSpec
PROPERTIES
    ReadyServed
    StopWhenServed
