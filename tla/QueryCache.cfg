\* Two sessions that share every key, one statement of each kind, and a single
\* tenant: the keys of different tenants have nothing in common.
CONSTANTS
    SessionId = {s1, s2}
    Tenant = {ta}
    Read = {select}
    Recognised = {insert}
    Unrecognised = {cte}
    Registry = {d0, d1}
    NoDatasets = d0
    None = none
    TTL = 1
    MaxRows = 1
    MaxVersion = 1
SYMMETRY Symmetry
SPECIFICATION Spec
INVARIANTS TypeOK OwnEntriesFresh
PROPERTIES NeverRenewed
