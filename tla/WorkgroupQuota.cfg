\* Two sessions, two workgroups, one of them called "default".
CONSTANTS
    w1 = w1
    w2 = w2
    n1 = n1
    n2 = n2
    SessionId = {s1, s2}
    Workgroup = {w1, w2}
    Namespace = {n1, n2}
    DefaultWg = default
    NoWg = none
    NamespaceOf <- MCNamespaceOf
    NamedDefault = {w1}
    MaxQuota = 1
    MaxCounter = 2
SYMMETRY Symmetry
SPECIFICATION Spec
INVARIANTS TypeOK EntriesMatchSessions CounterCoversEntries
PROPERTIES NoOverAdmission
