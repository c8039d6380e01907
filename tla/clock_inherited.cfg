SPECIFICATION Spec
CONSTANTS
    Requests = {r1,r2}
    Tasks = {t1,t2}
    Competitions = {c1}
    None = None
    Timeout = 1
    MaxClock = 2
INVARIANT CutOnlyAfterTimeout
