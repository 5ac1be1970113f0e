\* One browser with room for two sessions, some of them lost with their reply,
\* two requests at once, and sessions that expire at different times.
SPECIFICATION Spec
CONSTANTS
    b1 = b1
    q1 = q1
    q2 = q2
    Browsers <- MCBrowsers
    Requests <- MCRequests
    Keys <- MCKeys
    MAX_SESSIONS = 2
    LIFETIME = 2
    MAX_TIMER = 1
    MaxTime = 2
SYMMETRY Symmetry
INVARIANTS
    ToldAtOnce
PROPERTIES
    OnlyToValidSessions
