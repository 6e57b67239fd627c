------------------------------ MODULE DeviceIdentity ------------------------------
(* DeviceIdentityService: the per-device keys, the nonces of accepted heartbeats     *)
(* and the failed verifications, as the three tables that hold them, with every      *)
(* method that writes one of them.  A method runs to its end before another starts   *)
(* (synchronous node:sqlite calls in one Node.js process), so each is one step, and  *)
(* the several Date.now() of a method read the same instant.                         *)
EXTENDS Integers, FiniteSets

CONSTANTS
    Device,         \* device ids
    Key,            \* secrets an operator can configure
    NoKey,          \* no row in device_identity_keys; as a signature: made with no valid key
    Nonce,          \* well-formed nonces
    Timestamp,      \* timestamps a device can write, see TimestampAssumption
    MaxSkew,        \* DEVICE_HMAC_MAX_SKEW_MS
    NonceTtl,       \* DEVICE_HMAC_NONCE_TTL_MS
    FailureWindow,  \* DEVICE_HMAC_FAILURE_WINDOW_MS
    MaxFailures,    \* DEVICE_HMAC_MAX_FAILURES
    LockoutTime,    \* DEVICE_HMAC_LOCKOUT_MS
    MaxTime         \* bound: the clock stops here

ASSUME KeyAssumption == NoKey \notin Key
ASSUME BoundAssumption ==
    /\ MaxSkew \in Nat /\ NonceTtl \in Nat /\ FailureWindow \in Nat
    /\ MaxFailures \in Nat \ {0} /\ LockoutTime \in Nat /\ MaxTime \in Nat
(* The nonce row keeps the device's own text of the timestamp, and eviction compares *)
(* it as text with a UTC ISO instant.  "at" is the instant the text denotes,         *)
(* "sortsAs" the instant whose UTC ISO text sorts where it does.  verify takes every *)
(* text that Date.parse does: toISOString() has both agree, the dashboard's example  *)
(* (no milliseconds) sorts up to a second later, and one with a UTC offset, or       *)
(* MM/DD/YYYY, may sort hours or years before its instant.                           *)
ASSUME TimestampAssumption == \A ts \in Timestamp : ts.at \in Int /\ ts.sortsAs \in Int

NonceRow == [dev : Device, nonce : Nonce, ts : Timestamp]
FailureRow == [dev : Device, at : Nat, n : Nat]  \* n tells rows of one instant apart
(* A heartbeat's signed part; key is the one its HMAC was made with.  A timestamp,   *)
(* nonce or signature that does not parse fails like one signed with NoKey.          *)
Heartbeat == [ts : Timestamp, nonce : Nonce, key : Key \cup {NoKey}]

VARIABLES
    now,        \* Date.now()
    inventory,  \* ids with a row in devices: the foreign key of every table below
    keys,       \* device_identity_keys
    nonces,     \* device_identity_nonces
    failures,   \* device_identity_failures
    accepted    \* history: how often each (device, nonce, timestamp) was found valid, up to 2

identityVars == <<now, inventory, keys, nonces, failures, accepted>>

IdentityTypeOK ==
    /\ now \in Nat
    /\ inventory \subseteq Device
    /\ keys \in [Device -> Key \cup {NoKey}]
    /\ nonces \subseteq NonceRow
    /\ failures \subseteq FailureRow
    /\ IsFiniteSet(failures)
    /\ accepted \in [NonceRow -> 0 .. 2]

-----------------------------------------------------------------------------------
(* What the queries compute.                                                         *)

(* Mutant: a nonce is kept for the skew only, and its last instant is left out.      *)
KeptNoncesForSkew(rows, t) == {r \in rows : r.ts.sortsAs + MaxSkew > t}
KeptNonces(rows, t) == {r \in rows : r.ts.sortsAs + NonceTtl >= t}
(* The nonce stays for as long as a heartbeat with this timestamp can be in time.    *)
Outlasts(ts) == ts.sortsAs + NonceTtl >= ts.at + MaxSkew

Retention == IF FailureWindow > LockoutTime THEN FailureWindow ELSE LockoutTime
KeptFailures(rows, t) == {f \in rows : f.at + Retention >= t}

FailuresOf(rows, d) == {f \in rows : f.dev = d}
RecentFailures(rows, d, t) == {f \in FailuresOf(rows, d) : f.at + FailureWindow >= t}

(* COUNT reaches the limit and the latest failure is younger than the lockout.       *)
LockedOut(rows, d, t) ==
    LET recent == RecentFailures(rows, d, t) IN
    /\ Cardinality(recent) >= MaxFailures
    /\ \E f \in recent : t < f.at + LockoutTime

(* t is before the lockoutUntil that a locked-out device is told.                    *)
BeforeLockoutUntil(rows, d, t, at) ==
    \E f \in RecentFailures(rows, d, t) : at < f.at + LockoutTime

NewFailure(rows, d, t) ==
    [dev |-> d, at |-> t,
     n |-> Cardinality({f \in rows : f.dev = d /\ f.at = t})]

NonceRowOf(d, m) == [dev |-> d, nonce |-> m.nonce, ts |-> m.ts]
NonceSeen(rows, d, m) == \E r \in rows : r.dev = d /\ r.nonce = m.nonce

InTime(m, t) == m.ts.at - t <= MaxSkew /\ t - m.ts.at <= MaxSkew

(* Every check of verify after the lockout passes, registerNonce being the last.     *)
Accepts(d, m) ==
    /\ keys[d] # NoKey
    /\ m.key = keys[d]
    /\ InTime(m, now)
    /\ ~NonceSeen(KeptNonces(nonces, now), d, m)

-----------------------------------------------------------------------------------
(* History: once, or more often than once.                                           *)
Again(n) == IF n = 0 THEN 1 ELSE 2

IdentityInit ==
    /\ now = 0
    /\ inventory \in SUBSET Device
    /\ keys = [d \in Device |-> NoKey]
    /\ nonces = {}
    /\ failures = {}
    /\ accepted = [r \in NonceRow |-> 0]

Tick ==
    /\ now < MaxTime
    /\ now' = now + 1
    /\ UNCHANGED <<inventory, keys, nonces, failures, accepted>>

(* Another service inserts the device's row, or writes columns not modelled here.    *)
AddToInventory(d) ==
    /\ inventory' = inventory \cup {d}
    /\ UNCHANGED <<now, keys, nonces, failures, accepted>>

(* Mutant: the failures under the previous key stay.                                 *)
RotateKeyKeepingFailures(d, k) ==
    /\ inventory' = inventory \cup {d}
    /\ keys' = [keys EXCEPT ![d] = k]
    /\ UNCHANGED <<now, nonces, failures, accepted>>
(* setDeviceSecret then clearSecurityState, always called together.                  *)
RotateKey(d, k) ==
    /\ inventory' = inventory \cup {d}
    /\ keys' = [keys EXCEPT ![d] = k]
    /\ failures' = failures \ FailuresOf(failures, d)
    /\ UNCHANGED <<now, nonces, accepted>>

(* getSecurityState: a query that first deletes the expired failures of all devices. *)
GetSecurityState ==
    /\ failures' = KeptFailures(failures, now)
    /\ UNCHANGED <<now, inventory, keys, nonces, accepted>>

(* Mutant: a refused heartbeat counts as one more failure and prolongs the lockout.  *)
VerifyLockedOutCounting(d, m) ==
    LET kept == KeptFailures(failures, now) IN
    /\ LockedOut(kept, d, now)
    /\ nonces' = KeptNonces(nonces, now)
    /\ failures' = kept \cup {NewFailure(kept, d, now)}
    /\ UNCHANGED <<now, inventory, keys, accepted>>
(* verify returns before it looks at the heartbeat, and records nothing.             *)
VerifyLockedOut(d, m) ==
    /\ LockedOut(KeptFailures(failures, now), d, now)
    /\ nonces' = KeptNonces(nonces, now)
    /\ failures' = KeptFailures(failures, now)
    /\ UNCHANGED <<now, inventory, keys, accepted>>

(* Mutant: the lockout is not looked at before the heartbeat.                        *)
VerifyValidAnyway(d, m) ==
    /\ d \in inventory
    /\ Accepts(d, m)
    /\ nonces' = KeptNonces(nonces, now) \cup {NonceRowOf(d, m)}
    /\ failures' = KeptFailures(failures, now) \ FailuresOf(failures, d)
    /\ accepted' = [accepted EXCEPT ![NonceRowOf(d, m)] = Again(@)]
    /\ UNCHANGED <<now, inventory, keys>>
VerifyValid(d, m) ==
    /\ d \in inventory
    /\ ~LockedOut(KeptFailures(failures, now), d, now)
    /\ Accepts(d, m)
    /\ nonces' = KeptNonces(nonces, now) \cup {NonceRowOf(d, m)}
    /\ failures' = KeptFailures(failures, now) \ FailuresOf(failures, d)
    /\ accepted' = [accepted EXCEPT ![NonceRowOf(d, m)] = Again(@)]
    /\ UNCHANGED <<now, inventory, keys>>

(* reject: recordFailure, then getSecurityState.                                     *)
VerifyRejected(d, m) ==
    LET kept == KeptFailures(failures, now) IN
    /\ d \in inventory
    /\ ~LockedOut(kept, d, now)
    /\ ~Accepts(d, m)
    /\ nonces' = KeptNonces(nonces, now)
    /\ failures' = kept \cup {NewFailure(kept, d, now)}
    /\ UNCHANGED <<now, inventory, keys, accepted>>

(* A device with no inventory row has no key either: verify rejects, recordFailure   *)
(* breaks the foreign key and throws, and only the evictions remain.                 *)
VerifyThrows(d, m) ==
    /\ d \notin inventory
    /\ nonces' = KeptNonces(nonces, now)
    /\ failures' = KeptFailures(failures, now)
    /\ UNCHANGED <<now, inventory, keys, accepted>>

Verify(d, m) ==
    \/ VerifyLockedOut(d, m)
    \/ VerifyValid(d, m)
    \/ VerifyRejected(d, m)
    \/ VerifyThrows(d, m)

IdentityNext ==
    \/ Tick
    \/ GetSecurityState
    \/ \E d \in Device :
        \/ AddToInventory(d)
        \/ \E k \in Key : RotateKey(d, k)
        \/ \E m \in Heartbeat : Verify(d, m)

IdentitySafety == IdentityInit /\ [][IdentityNext]_identityVars
(* Time passes; nothing obliges a device or an operator to act.                      *)
IdentitySpec == IdentitySafety /\ WF_identityVars(Tick)

-----------------------------------------------------------------------------------
(* No signed heartbeat is found valid twice, whatever evictions, key rotations and   *)
(* lockouts happen between its two arrivals (verify, registerNonce and               *)
(* evictExpiredNonces against the skew check), if its nonce is kept long enough: so  *)
(* is that of a text in UTC ISO form under the default settings.                     *)
NoReplayWhileKept == \A r \in NonceRow : Outlasts(r.ts) => accepted[r] <= 1

(* The failures counted against a device never pass the limit: verify stops          *)
(* recording them exactly when there are enough (device-identity.service.ts:153).    *)
FailuresBounded ==
    \A d \in Device : Cardinality(RecentFailures(failures, d, now)) <= MaxFailures

(* A device leaves its lockout only because time passed or an operator configured a  *)
(* key: no heartbeat, even a valid one, and no query ends it early.                  *)
LockoutHolds ==
    [][\A d \in Device :
        LockedOut(failures, d, now) /\ ~LockedOut(failures', d, now')
            => now' > now \/ \E k \in Key : RotateKey(d, k)]_identityVars

(* A lockout ends, however often the device retries meanwhile: retries during the    *)
(* lockout do not prolong it.  The clock must have room to reach its end.            *)
LockoutEnds ==
    \A d \in Device :
        (LockedOut(failures, d, now) /\ now + LockoutTime <= MaxTime)
            ~> ~LockedOut(failures, d, now)

(* A locked-out device stays locked out until the instant it was told, as            *)
(* device-identity.service.ts:160 and App.tsx:436 say, unless an operator            *)
(* configures a key.  It does not: the failures leave the window before.             *)
LockoutServed ==
    [][\A d \in Device :
        (/\ LockedOut(failures, d, now)
         /\ BeforeLockoutUntil(failures, d, now, now')
         /\ \A k \in Key : ~RotateKey(d, k))
            => LockedOut(failures', d, now')]_identityVars

(* A heartbeat sent again is answered "nonce replay detected"                        *)
(* (device-identity.service.ts:215), whatever the form of its timestamp.  It is not: *)
(* the nonce of a text that sorts before its instant is evicted too early            *)
(* (evictExpiredNonces).                                                             *)
NoReplay == \A r \in NonceRow : accepted[r] <= 1
=============================================================================
