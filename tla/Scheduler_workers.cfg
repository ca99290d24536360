\* Two workers, the application thread outside the pool.
CONSTANTS
    w1 = w1  w2 = w2  main = main  c1 = c1  c2 = c2  k1 = k1  f1 = f1
    k2 = k2  f2 = f2  None = None
    Worker = {w1, w2}
    Caller = main
    UseCaller = FALSE
    UserCor = {c1, c2}
    CbCor = {k1}
    Callback = {f1}
    AppPins = {w2}
    TaskPins = {w1}
    MaxSteps = 1
    MaxQueue = 3
SPECIFICATION Spec
SYMMETRY Symmetry
INVARIANTS
    TypeOK
    OneStack
    SwapInAllowed
    ResetAllowed
    CountsExact
    ReadyHeldOnce
    NothingStranded
PROPERTY
    ImplementsTaskPool
