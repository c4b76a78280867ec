\* Three callers, two memories, two grants; two instants.
CONSTANTS
    MemoryId = {m1, m2}
    GrantId = {g1, g2}
    Claims <- MCClaims
    MemoryBodies <- MCMemoryBodies
    GrantBodies <- MCGrantBodies
    None = none
    Blank = blank
    MaxTime = 2
    MaxRatings = 1
SYMMETRY Symmetry
SPECIFICATION Spec
INVARIANTS TypeOK KeysUnique ReadableIsFound PrivateContent CausesAcyclic
PROPERTIES DeletedIsFinal CleanupTakesTheHidden
