\* One signup or login of the browser, one of a rival, and three calls;
\* half-second ticks, an access token of one second.
CONSTANTS
    Sessions = {s1}
    Rivals = {r1}
    Calls = {c1, c2, c3}
    SlidingWindow = 2
    MaxSessionWindow = 3
    AccessLifetime = 2
    TicksPerSecond = 2
    MaxTime = 2
SPECIFICATION AccountsSpec
SYMMETRY Symmetry
CHECK_DEADLOCK FALSE
INVARIANTS
    AccountsTypeOK
    RevokedStaysRevoked
    WindowRespected
    LoggedOutTokenIsDead
    AccountIsUnique
    RefusalsNameAnAccount
    SessionsHaveTheirUser
