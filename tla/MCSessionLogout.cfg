\* One login, one refresh and one logout, which no lost commit disturbs.
CONSTANTS
    Sessions = {s1}
    Calls = {c1, c2}
    SlidingWindow = 2
    MaxSessionWindow = 4
    AccessLifetime = 1
    TicksPerSecond = 1
    MaxTime = 0
SPECIFICATION Spec
CHECK_DEADLOCK FALSE
INVARIANT LogoutRevokes
