\* One device; among the timestamps is one whose text sorts before its instant.
CONSTANTS
    Device = {d1}
    Key = {k1}
    NoKey = NoKey
    Nonce = {n1}
    Timestamp <- MCTimestamp
    MaxSkew = 1
    NonceTtl = 2
    FailureWindow = 2
    MaxFailures = 2
    LockoutTime = 3
    MaxTime = 4
SPECIFICATION IdentitySpec
INVARIANT
    NoReplay
