\* One device, not in the inventory at first; up to two crashes.
CONSTANTS
    Device = {d1}
    Seeded = {}
    Key = {k1, k2}
    NoKey = NoKey
    Nonce = {n1}
    Timestamp <- MCTimestamp
    MaxSkew = 1
    NonceTtl = 1
    FailureWindow = 1
    MaxFailures = 1
    LockoutTime = 2
    TokenTtl = 1
    DryRuns = {FALSE}
    MaxTime = 1
    MaxTokens = 2
    MaxLog = 1
    MaxCrashes = 2
SPECIFICATION CrashSpec
SYMMETRY KeySymmetry
INVARIANTS
    DiskReferences
    DiskKeyBacksTrust
    NoReplayAcrossCrashes
    EnrollmentHeals
    CrashLosesOneChange
PROPERTIES
    AllowSurvivesLostStatus
    DiskFollowsLifecycle
    TokenSpentFirst
