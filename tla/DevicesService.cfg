\* One device, not in the inventory at first.
CONSTANTS
    Device = {d1}
    Seeded = {}
    Key = {k1, k2}
    NoKey = NoKey
    Nonce = {n1}
    Timestamp <- MCTimestamp
    MaxSkew = 1
    NonceTtl = 1
    FailureWindow = 1
    MaxFailures = 2
    LockoutTime = 2
    TokenTtl = 2
    DryRuns = {FALSE, TRUE}
    MaxTime = 2
    MaxTokens = 2
    MaxLog = 2
SPECIFICATION ServiceSpec
INVARIANTS
    AuditExplainsState
    AuditMatchesEnforcement
    VerifiedUnderCurrentKey
    KeyBacksTrust
    FailuresMeanDistrust
    EventsExplainStatus
    OffersMatchPolicy
PROPERTIES
    FirstVerificationUsesToken
    DryRunInert
    AllowNeedsTrust
    ImplementsLifecycle
    ImplementsIdentity
