\* Three sessions, and any write to the store may be lost.
CONSTANTS
    SessionId = {s1, s2, s3}
    Workgroup = {default, wg}
    DefaultWg = default
    IdleTimeout = 1
    MaxSuspendAge = 1
    MaxConcurrent = 1
    Isolated = FALSE
    StoreMayFail = TRUE
SYMMETRY Symmetry
SPECIFICATION Spec
INVARIANTS ConnMatchesStatus DurableAgreement RowNotAhead
PROPERTIES OnlyLostDeletesResurrect
