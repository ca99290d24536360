\* Two workers; a coroutine that waits for a descriptor, and a function that
\* is given to an event or to a timer.
CONSTANTS
    w1 = w1  w2 = w2  main = main  c1 = c1  c2 = c2  k1 = k1  f1 = f1
    d1 = d1  d2 = d2  None = None
    Worker = {w1, w2}
    Caller = main
    UseCaller = FALSE
    UserCor = {c1}
    CbCor = {k1}
    Callback = {f1}
    AppPins = {}
    TaskPins = {}
    MaxSteps = 2
    MaxQueue = 3
    Fd = {d1}
    Wanted = {"READ"}
    Signals = {"READ", "HUP"}
    TimerCb = {f1}
    MaxArrive = 1
SPECIFICATION IOSpec
SYMMETRY Symmetry
INVARIANTS
    PendingExact
    ContextBound
    ReadyIsReported
    TriggerAllowed
