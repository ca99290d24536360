\* A running task pins a task to a worker while stop() is under way.
CONSTANTS
    w1 = w1  w2 = w2  main = main  c1 = c1  c2 = c2  k1 = k1  f1 = f1
    k2 = k2  f2 = f2  None = None
    Worker = {w1, w2}
    Caller = main
    UseCaller = FALSE
    UserCor = {c1}
    CbCor = {k1}
    Callback = {f1}
    AppPins = {}
    TaskPins = {w2}
    MaxSteps = 2
    MaxQueue = 3
SPECIFICATION Spec
PROPERTIES
    PinnedTaskRuns
