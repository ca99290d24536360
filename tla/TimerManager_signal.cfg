\* A signal interrupts epoll_wait, which is called again with the full timeout.
CONSTANTS
    t1 = t1  t2 = t2  u1 = u1  u2 = u2  p1 = p1  p2 = p2  None = None
    Timer = {t1}
    Recurring = {}
    User = {u1}
    Poller = {p1}
    Delay = {2}
    Hour = 1
    MaxWait = 3
    StartTime = 2
    MaxTime = 5
    MaxBack = 0
SPECIFICATION Spec
INVARIANTS
    FrontInTime
