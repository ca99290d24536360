\* Two threads use the timers that two pollers serve.
CONSTANTS
    t1 = t1  t2 = t2  u1 = u1  u2 = u2  p1 = p1  p2 = p2  None = None
    Timer = {t1, t2}
    Recurring = {t2}
    User = {u1, u2}
    Poller = {p1, p2}
    Delay = {2}
    Hour = 1
    MaxWait = 2
    StartTime = 1
    MaxTime = 3
    MaxBack = 0
SPECIFICATION Spec
SYMMETRY Symmetry
INVARIANTS
    KeysCurrent
    FiresOnceOrCancelled
    FrontIsWatched
