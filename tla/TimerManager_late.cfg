\* A poller that reaches listExpiredCb one tick late.
CONSTANTS
    t1 = t1  t2 = t2  u1 = u1  u2 = u2  p1 = p1  p2 = p2  None = None
    Timer = {t1, t2}
    Recurring = {}
    User = {u1}
    Poller = {p1}
    Delay = {1, 2}
    Hour = 1
    MaxWait = 3
    StartTime = 2
    MaxTime = 4
    MaxBack = 0
SPECIFICATION Spec
PROPERTIES
    ExpiredFires
