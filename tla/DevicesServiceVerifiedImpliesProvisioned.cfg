\* One device, not in the inventory at first.
CONSTANTS
    Device = {d1}
    Seeded = {}
    Key = {k1, k2}
    NoKey = NoKey
    Nonce = {n1}
    Timestamp <- MCTimestamp
    MaxSkew = 1
    NonceTtl = 2
    FailureWindow = 1
    MaxFailures = 2
    LockoutTime = 2
    TokenTtl = 2
    DryRuns = {FALSE}
    MaxTime = 2
    MaxTokens = 2
    MaxLog = 2
SPECIFICATION ServiceSpec
INVARIANT
    VerifiedImpliesProvisioned
