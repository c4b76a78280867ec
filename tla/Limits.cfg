\* A window in memory and one over the log, two admissions within one unit of time.
\* Two failures lock an address for two units of time; three logins may be under way.
CONSTANTS
    InMemory = {"share"}
    Logged = {"write"}
    Limit = 2
    Window = 1
    Slot = {s1, s2, s3}
    None = none
    MaxTime = 4
    Threshold = 2
    Ttl = 2
    MaxTrying = 3
    Never = never
    MaxClock = 6
SYMMETRY Symmetry
SPECIFICATION MCSpec
INVARIANTS WindowsHold GuessesBounded
