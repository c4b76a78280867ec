\* Three sessions, a store that keeps every write, restarts at any moment.
CONSTANTS
    SessionId = {s1, s2, s3}
    Workgroup = {default, wg}
    DefaultWg = default
    IdleTimeout = 1
    MaxSuspendAge = 2
    MaxConcurrent = 1
    Isolated = FALSE
    StoreMayFail = FALSE
SPECIFICATION Spec
INVARIANTS TypeOK
PROPERTIES RefinesLifecycle IdleSessionsCool StampedSessionsLeave
