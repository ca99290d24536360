\* use_caller with one worker: the calling thread runs tasks inside stop().
CONSTANTS
    w1 = w1  w2 = w2  main = main  c1 = c1  c2 = c2  k1 = k1  f1 = f1
    k2 = k2  f2 = f2  None = None
    Worker = {w1}
    Caller = main
    UseCaller = TRUE
    UserCor = {c1}
    CbCor = {k1}
    Callback = {f1}
    AppPins = {main}
    TaskPins = {}
    MaxSteps = 2
    MaxQueue = 3
SPECIFICATION Spec
PROPERTIES
    Dispatched
    StopReturns
    EndedStays
