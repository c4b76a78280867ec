\* One retry; a token lasts twice as long as the threshold.
CONSTANTS
    Secret = {"old", "new"}
    Setup <- MCSetup
    FileContent = {"new", bad}
    Address = {"home", "away"}
    None = none
    Bad = bad
    Expiry = 4
    RefreshExpiry = 4
    MaxTime = 5
    Threshold = 2
    MaxRetries = 1
    MaxTokens = 4
SPECIFICATION Spec
INVARIANTS StaleOnlyWhenSlow DeliveriesBounded
PROPERTIES QueriesEnd ShutOutStays
