\* One thread resets a timer while another cancels it.
CONSTANTS
    t1 = t1  t2 = t2  u1 = u1  u2 = u2  p1 = p1  p2 = p2  None = None
    Timer = {t1, t2}
    Recurring = {t2}
    User = {u1, u2}
    Poller = {p1}
    Delay = {1, 2}
    Hour = 1
    MaxWait = 3
    StartTime = 2
    MaxTime = 4
    MaxBack = 0
SPECIFICATION Spec
INVARIANTS
    DeadTimersLeave
