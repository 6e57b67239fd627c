\* Two devices that share a secret.
CONSTANTS
    Device = {d1, d2}
    Key = {k1}
    NoKey = NoKey
    Nonce = {n1}
    Timestamp <- MCTimestamp
    MaxSkew = 1
    NonceTtl = 2
    FailureWindow = 2
    MaxFailures = 2
    LockoutTime = 3
    MaxTime = 4
SPECIFICATION IdentitySpec
INVARIANTS
    NoReplayWhileKept
    FailuresBounded
PROPERTIES
    LockoutHolds
    LockoutEnds
