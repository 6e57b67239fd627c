--------------------------- MODULE DeviceIdentityProofs ---------------------------
(* Theorems of DeviceIdentity, for every value of its constants.                     *)
EXTENDS DeviceIdentity, FiniteSetTheorems, TLAPS

-----------------------------------------------------------------------------------
(* Eviction is invisible: deleting the expired failures of all devices changes no    *)
(* device's recent ones, so neither its count nor its lockout.                       *)
LEMMA EvictionInvisible ==
    ASSUME NEW rows \in SUBSET FailureRow, NEW d \in Device, NEW t \in Nat
    PROVE  /\ RecentFailures(KeptFailures(rows, t), d, t) = RecentFailures(rows, d, t)
           /\ LockedOut(KeptFailures(rows, t), d, t) <=> LockedOut(rows, d, t)
  <1>1. \A f \in rows : f.at + FailureWindow >= t => f.at + Retention >= t
    BY BoundAssumption DEF FailureRow, Retention
  <1>2. RecentFailures(KeptFailures(rows, t), d, t) = RecentFailures(rows, d, t)
    BY <1>1 DEF RecentFailures, FailuresOf, KeptFailures
  <1> QED BY <1>2 DEF LockedOut

(* The kept failures are some of the failures there were.                            *)
LEMMA KeptFailuresType ==
    ASSUME NEW rows \in SUBSET FailureRow, IsFiniteSet(rows), NEW t \in Nat
    PROVE  /\ KeptFailures(rows, t) \in SUBSET FailureRow
           /\ IsFiniteSet(KeptFailures(rows, t))
  BY FS_Subset DEF KeptFailures

LEMMA NewFailureType ==
    ASSUME NEW rows, IsFiniteSet(rows), NEW d \in Device, NEW t \in Nat
    PROVE  NewFailure(rows, d, t) \in FailureRow
  <1> DEFINE same == {f \in rows : f.dev = d /\ f.at = t}
  <1>1. IsFiniteSet(same)
    BY FS_Subset
  <1>2. Cardinality(same) \in Nat
    BY <1>1, FS_CardinalityType
  <1> QED BY <1>2 DEF NewFailure, FailureRow

LEMMA IdentityTypeInit == IdentityInit => IdentityTypeOK
  BY FS_EmptySet DEF IdentityInit, IdentityTypeOK

LEMMA IdentityTypeStep == IdentityTypeOK /\ [IdentityNext]_identityVars => IdentityTypeOK'
  <1> SUFFICES ASSUME IdentityTypeOK, [IdentityNext]_identityVars PROVE IdentityTypeOK'
    OBVIOUS
  <1> DEFINE kept == KeptFailures(failures, now)
  <1>0. /\ kept \in SUBSET FailureRow /\ IsFiniteSet(kept)
        /\ KeptNonces(nonces, now) \in SUBSET NonceRow
    BY KeptFailuresType DEF IdentityTypeOK, KeptNonces
  <1>1. CASE Tick
    BY <1>1 DEF Tick, IdentityTypeOK
  <1>2. CASE GetSecurityState
    BY <1>0, <1>2 DEF GetSecurityState, IdentityTypeOK
  <1>3. ASSUME NEW d \in Device, AddToInventory(d) PROVE IdentityTypeOK'
    BY <1>3 DEF AddToInventory, IdentityTypeOK
  <1>4. ASSUME NEW d \in Device, NEW k \in Key, RotateKey(d, k) PROVE IdentityTypeOK'
    <2>1. IsFiniteSet(failures \ FailuresOf(failures, d))
      BY FS_Subset DEF IdentityTypeOK
    <2> QED BY <1>4, <2>1 DEF RotateKey, IdentityTypeOK
  <1>5. ASSUME NEW d \in Device, NEW m \in Heartbeat, Verify(d, m) PROVE IdentityTypeOK'
    <2>1. CASE VerifyLockedOut(d, m)
      BY <1>0, <2>1 DEF VerifyLockedOut, IdentityTypeOK
    <2>2. CASE VerifyThrows(d, m)
      BY <1>0, <2>2 DEF VerifyThrows, IdentityTypeOK
    <2>3. CASE VerifyRejected(d, m)
      <3>1. NewFailure(kept, d, now) \in FailureRow
        BY <1>0, NewFailureType DEF IdentityTypeOK
      <3>2. IsFiniteSet(kept \cup {NewFailure(kept, d, now)})
        BY <1>0, FS_AddElement
      <3> QED BY <1>0, <2>3, <3>1, <3>2 DEF VerifyRejected, IdentityTypeOK
    <2>4. CASE VerifyValid(d, m)
      <3>1. NonceRowOf(d, m) \in NonceRow
        BY DEF NonceRowOf, NonceRow, Heartbeat
      <3>2. IsFiniteSet(kept \ FailuresOf(failures, d))
        BY <1>0, FS_Subset
      <3>3. accepted' \in [NonceRow -> 0 .. 2]
        BY <2>4, <3>1 DEF VerifyValid, IdentityTypeOK, Again
      <3> QED BY <1>0, <2>4, <3>1, <3>2, <3>3 DEF VerifyValid, IdentityTypeOK
    <2> QED BY <1>5, <2>1, <2>2, <2>3, <2>4 DEF Verify
  <1>6. CASE UNCHANGED identityVars
    BY <1>6 DEF identityVars, IdentityTypeOK
  <1> QED BY <1>1, <1>2, <1>3, <1>4, <1>5, <1>6 DEF IdentityNext

(* Every table keeps its shape (the CREATE TABLE statements of sqlite.service.ts).   *)
THEOREM IdentityTypeCorrect == IdentitySafety => []IdentityTypeOK
  BY IdentityTypeInit, IdentityTypeStep, PTL DEF IdentitySafety

-----------------------------------------------------------------------------------
(* Why no heartbeat is valid twice: the nonce row of one that was is still there, or *)
(* its text was old enough to be evicted, and then, if the row was one to outlast    *)
(* the heartbeat, the timestamp is out of time for good.                             *)
ReplayInv ==
    \A r \in NonceRow :
        /\ Outlasts(r.ts) => accepted[r] <= 1
        /\ accepted[r] > 0 => r \in nonces \/ r.ts.sortsAs + NonceTtl < now

(* The default retention outlasts every text in UTC ISO form, which never sorts      *)
(* before its instant.                                                               *)
LEMMA UtcIsoOutlasts ==
    ASSUME NonceTtl >= MaxSkew, NEW ts \in Timestamp, ts.sortsAs >= ts.at
    PROVE  Outlasts(ts)
  BY TimestampAssumption, BoundAssumption DEF Outlasts

(* A heartbeat that verify accepts is one it never accepted before, if the nonce     *)
(* outlasts it.                                                                      *)
LEMMA AcceptedIsNew ==
    ASSUME IdentityTypeOK, ReplayInv, NEW d \in Device, NEW m \in Heartbeat, Accepts(d, m),
           Outlasts(m.ts)
    PROVE  accepted[NonceRowOf(d, m)] = 0
  <1> DEFINE r == NonceRowOf(d, m)
  <1>1. m.ts \in Timestamp /\ m.nonce \in Nonce
    BY DEF Heartbeat
  <1>2. r \in NonceRow /\ r.dev = d /\ r.nonce = m.nonce /\ r.ts = m.ts
    BY <1>1 DEF NonceRowOf, NonceRow
  <1> HIDE DEF r
  <1>3. accepted[r] \in 0 .. 2
    BY <1>2 DEF IdentityTypeOK
  <1>4. m.ts.sortsAs + NonceTtl >= now
    BY <1>1, TimestampAssumption, BoundAssumption DEF Accepts, InTime, Outlasts, IdentityTypeOK
  <1>5. r \notin KeptNonces(nonces, now)
    BY <1>2 DEF Accepts, NonceSeen
  <1>6. r \notin nonces
    BY <1>2, <1>4, <1>5 DEF KeptNonces
  <1>7. ~(r.ts.sortsAs + NonceTtl < now)
    BY <1>1, <1>2, <1>4, TimestampAssumption, BoundAssumption DEF IdentityTypeOK
  <1> QED BY <1>2, <1>6, <1>7, <1>3 DEF ReplayInv, r

(* Eviction takes no row whose timestamp is still in time.                           *)
LEMMA EvictionKeepsReplayInv ==
    ASSUME IdentityTypeOK, ReplayInv, NEW r \in NonceRow, accepted[r] > 0
    PROVE  r \in KeptNonces(nonces, now) \/ r.ts.sortsAs + NonceTtl < now
  <1>1. r.ts.sortsAs \in Int
    BY TimestampAssumption DEF NonceRow
  <1> QED BY <1>1, BoundAssumption DEF ReplayInv, KeptNonces, IdentityTypeOK

(* Neither a heartbeat nor an eviction brings an accepted heartbeat back.            *)
LEMMA ReplayStep == IdentityTypeOK /\ ReplayInv /\ [IdentityNext]_identityVars => ReplayInv'
  <1> SUFFICES ASSUME IdentityTypeOK, ReplayInv, [IdentityNext]_identityVars
               PROVE  ReplayInv'
    OBVIOUS
  <1>1. CASE Tick
    <2>1. \A r \in NonceRow : r.ts.sortsAs \in Int
      BY TimestampAssumption DEF NonceRow
    <2> QED BY <1>1, <2>1, BoundAssumption DEF Tick, ReplayInv, IdentityTypeOK
  <1>2. CASE GetSecurityState
    BY <1>2 DEF GetSecurityState, ReplayInv
  <1>3. ASSUME NEW d \in Device, AddToInventory(d) PROVE ReplayInv'
    BY <1>3 DEF AddToInventory, ReplayInv
  <1>4. ASSUME NEW d \in Device, NEW k \in Key, RotateKey(d, k) PROVE ReplayInv'
    BY <1>4 DEF RotateKey, ReplayInv
  <1>5. ASSUME NEW d \in Device, NEW m \in Heartbeat, Verify(d, m) PROVE ReplayInv'
    <2>1. CASE VerifyValid(d, m)
      <3> DEFINE r0 == NonceRowOf(d, m)
      <3>1. Outlasts(r0.ts) => accepted[r0] = 0
        BY <2>1, AcceptedIsNew DEF VerifyValid, NonceRowOf
      <3>2. /\ r0 \in NonceRow /\ r0 \in nonces' /\ now' = now
            /\ accepted' = [accepted EXCEPT ![r0] = Again(accepted[r0])]
        BY <2>1 DEF VerifyValid, NonceRowOf, NonceRow, Heartbeat
      <3>3. KeptNonces(nonces, now) \subseteq nonces'
        BY <2>1 DEF VerifyValid
      <3> SUFFICES ASSUME NEW r \in NonceRow
                   PROVE  /\ Outlasts(r.ts) => accepted'[r] <= 1
                          /\ accepted'[r] > 0
                              => r \in nonces' \/ r.ts.sortsAs + NonceTtl < now'
        BY DEF ReplayInv
      <3>4. CASE r = r0
        BY <3>1, <3>2, <3>4 DEF IdentityTypeOK, Again
      <3>5. CASE r # r0
        <4>1. accepted'[r] = accepted[r]
          BY <3>2, <3>5 DEF IdentityTypeOK
        <4> QED BY <3>2, <3>3, <4>1, EvictionKeepsReplayInv DEF ReplayInv
      <3> QED BY <3>4, <3>5
    <2>2. CASE VerifyLockedOut(d, m) \/ VerifyRejected(d, m) \/ VerifyThrows(d, m)
      <3>1. /\ nonces' = KeptNonces(nonces, now)
            /\ accepted' = accepted /\ now' = now
        BY <2>2 DEF VerifyLockedOut, VerifyRejected, VerifyThrows
      <3> QED BY <3>1, EvictionKeepsReplayInv DEF ReplayInv
    <2> QED BY <1>5, <2>1, <2>2 DEF Verify
  <1>6. CASE UNCHANGED identityVars
    BY <1>6 DEF identityVars, ReplayInv
  <1> QED BY <1>1, <1>2, <1>3, <1>4, <1>5, <1>6 DEF IdentityNext

(* verify, registerNonce and evictExpiredNonces never find a heartbeat valid twice   *)
(* whose nonce outlasts it, whatever the settings and the form of the timestamps.    *)
THEOREM NeverReplayedWhileKept == IdentitySafety => []NoReplayWhileKept
  <1>1. IdentityInit => ReplayInv
    BY DEF IdentityInit, ReplayInv
  <1>2. ReplayInv => NoReplayWhileKept
    BY DEF ReplayInv, NoReplayWhileKept
  <1> QED BY <1>1, <1>2, ReplayStep, IdentityTypeCorrect, PTL DEF IdentitySafety

-----------------------------------------------------------------------------------
(* With the lockout longer than the window, as by default, a device whose recent     *)
(* failures reach the limit is locked out: any recent one still forbids it.          *)
LEMMA LimitLocksOut ==
    ASSUME LockoutTime > FailureWindow,
           NEW rows \in SUBSET FailureRow, IsFiniteSet(rows), NEW d \in Device, NEW t \in Nat,
           Cardinality(RecentFailures(rows, d, t)) >= MaxFailures
    PROVE  LockedOut(rows, d, t)
  <1> DEFINE recent == RecentFailures(rows, d, t)
  <1>1. recent # {}
    BY FS_EmptySet, BoundAssumption
  <1>2. \A f \in recent : t < f.at + LockoutTime
    BY BoundAssumption DEF RecentFailures, FailuresOf, FailureRow
  <1> QED BY <1>1, <1>2 DEF LockedOut

LEMMA RecentFailuresFinite ==
    ASSUME NEW rows, IsFiniteSet(rows), NEW d, NEW t
    PROVE  /\ IsFiniteSet(RecentFailures(rows, d, t))
           /\ Cardinality(RecentFailures(rows, d, t)) \in Nat
  BY FS_Subset, FS_CardinalityType DEF RecentFailures, FailuresOf

(* Fewer rows or a later time never raise the count of recent failures.              *)
LEMMA FewerRecentFailures ==
    ASSUME NEW rows \in SUBSET FailureRow, IsFiniteSet(rows), NEW fewer \in SUBSET rows,
           NEW d \in Device, NEW t \in Nat, NEW later \in Nat, later >= t,
           Cardinality(RecentFailures(rows, d, t)) <= MaxFailures
    PROVE  Cardinality(RecentFailures(fewer, d, later)) <= MaxFailures
  <1>1. RecentFailures(fewer, d, later) \subseteq RecentFailures(rows, d, t)
    BY BoundAssumption DEF RecentFailures, FailuresOf, FailureRow
  <1>2. IsFiniteSet(fewer)
    BY FS_Subset
  <1>3. Cardinality(RecentFailures(fewer, d, later)) <= Cardinality(RecentFailures(rows, d, t))
    BY <1>1, RecentFailuresFinite, FS_Subset
  <1> QED BY <1>2, <1>3, RecentFailuresFinite, BoundAssumption

(* verify never records more failures than lock the device out.                      *)
THEOREM FailuresStayBounded ==
    ASSUME LockoutTime > FailureWindow
    PROVE  IdentitySafety => []FailuresBounded
  <1>1. IdentityInit => FailuresBounded
    <2> SUFFICES ASSUME IdentityInit, NEW d \in Device
                 PROVE  Cardinality(RecentFailures(failures, d, now)) <= MaxFailures
      BY DEF FailuresBounded
    <2>1. RecentFailures(failures, d, now) = {}
      BY DEF IdentityInit, RecentFailures, FailuresOf
    <2> QED BY <2>1, FS_EmptySet, BoundAssumption
  <1>2. IdentityTypeOK /\ FailuresBounded /\ [IdentityNext]_identityVars => FailuresBounded'
    <2> SUFFICES ASSUME IdentityTypeOK, FailuresBounded, [IdentityNext]_identityVars,
                        NEW c \in Device
                 PROVE  Cardinality(RecentFailures(failures', c, now')) <= MaxFailures
      BY DEF FailuresBounded
    <2> DEFINE kept == KeptFailures(failures, now)
    <2>0. /\ failures \in SUBSET FailureRow /\ IsFiniteSet(failures) /\ now \in Nat
          /\ Cardinality(RecentFailures(failures, c, now)) <= MaxFailures
          /\ kept \in SUBSET failures
      BY DEF IdentityTypeOK, FailuresBounded, KeptFailures
    <2>1. CASE failures' \in SUBSET failures /\ now' \in Nat /\ now' >= now
      BY <2>0, <2>1, FewerRecentFailures
    <2>2. ASSUME NEW d \in Device, NEW m \in Heartbeat, VerifyRejected(d, m)
          PROVE  Cardinality(RecentFailures(failures', c, now')) <= MaxFailures
      <3> DEFINE f == NewFailure(kept, d, now)
      <3>0. /\ failures' = kept \cup {f} /\ now' = now
            /\ ~LockedOut(kept, d, now) /\ f.dev = d
        BY <2>2 DEF VerifyRejected, NewFailure
      <3>1. /\ kept \in SUBSET FailureRow /\ IsFiniteSet(kept)
            /\ Cardinality(RecentFailures(kept, c, now)) <= MaxFailures
        BY <2>0, KeptFailuresType, FewerRecentFailures
      <3>2. RecentFailures(failures', c, now')
              \subseteq RecentFailures(kept, c, now) \cup (IF c = d THEN {f} ELSE {})
        BY <3>0 DEF RecentFailures, FailuresOf
      <3>3. CASE c # d
        <4>1. RecentFailures(failures', c, now') \subseteq RecentFailures(kept, c, now)
          BY <3>2, <3>3
        <4>2. /\ IsFiniteSet(RecentFailures(kept, c, now))
              /\ Cardinality(RecentFailures(kept, c, now)) \in Nat
          BY <3>1, RecentFailuresFinite
        <4>3. /\ IsFiniteSet(RecentFailures(failures', c, now'))
              /\ Cardinality(RecentFailures(failures', c, now'))
                   <= Cardinality(RecentFailures(kept, c, now))
          BY <4>1, <4>2, FS_Subset
        <4>4. Cardinality(RecentFailures(failures', c, now')) \in Nat
          BY <4>3, FS_CardinalityType
        <4> QED BY <3>1, <4>2, <4>3, <4>4, BoundAssumption
      <3>4. CASE c = d
        <4> DEFINE before == RecentFailures(kept, c, now)
        <4>1. IsFiniteSet(before) /\ Cardinality(before) \in Nat
          BY <3>1, RecentFailuresFinite
        <4>2. Cardinality(before) < MaxFailures
          <5>1. Cardinality(before) >= MaxFailures => LockedOut(kept, c, now)
            BY <2>0, <3>1, LimitLocksOut
          <5> QED BY <3>0, <3>4, <4>1, <5>1, BoundAssumption
        <4>3. /\ IsFiniteSet(before \cup {f})
              /\ Cardinality(before \cup {f}) \in Nat
              /\ Cardinality(before \cup {f}) <= Cardinality(before) + 1
          <5>1. /\ IsFiniteSet(before \cup {f})
                /\ Cardinality(before \cup {f})
                     = IF f \in before THEN Cardinality(before) ELSE Cardinality(before) + 1
            BY <4>1, FS_AddElement
          <5> QED BY <4>1, <5>1
        <4>4. RecentFailures(failures', c, now') \subseteq before \cup {f}
          BY <3>2, <3>4
        <4>5. /\ IsFiniteSet(RecentFailures(failures', c, now'))
              /\ Cardinality(RecentFailures(failures', c, now'))
                   <= Cardinality(before \cup {f})
          BY <4>3, <4>4, FS_Subset
        <4>6. Cardinality(RecentFailures(failures', c, now')) \in Nat
          BY <4>5, FS_CardinalityType
        <4> QED BY <4>1, <4>2, <4>3, <4>5, <4>6, BoundAssumption
      <3> QED BY <3>3, <3>4
    <2>3. ASSUME NEW d \in Device, NEW m \in Heartbeat,
                 VerifyLockedOut(d, m) \/ VerifyValid(d, m) \/ VerifyThrows(d, m)
          PROVE  failures' \in SUBSET failures /\ now' = now
      BY <2>0, <2>3 DEF VerifyLockedOut, VerifyValid, VerifyThrows
    <2>4. ASSUME Tick \/ GetSecurityState \/ UNCHANGED identityVars
                   \/ \E d \in Device : AddToInventory(d) \/ \E k \in Key : RotateKey(d, k)
          PROVE  failures' \in SUBSET failures /\ now' \in Nat /\ now' >= now
      BY <2>0, <2>4 DEF Tick, GetSecurityState, AddToInventory, RotateKey, identityVars
    <2> QED BY <2>0, <2>1, <2>2, <2>3, <2>4 DEF IdentityNext, Verify
  <1> QED BY <1>1, <1>2, IdentityTypeCorrect, PTL DEF IdentitySafety

-----------------------------------------------------------------------------------
(* No heartbeat and no query ends a lockout early.                                   *)
THEOREM LockoutsHold == IdentitySafety => LockoutHolds
  <1> DEFINE Held(d) ==
        LockedOut(failures, d, now) /\ ~LockedOut(failures', d, now')
            => now' > now \/ \E k \in Key : RotateKey(d, k)
  <1>1. IdentityTypeOK /\ [IdentityNext]_identityVars => [\A d \in Device : Held(d)]_identityVars
    <2> SUFFICES ASSUME IdentityTypeOK, IdentityNext, NEW c \in Device,
                        LockedOut(failures, c, now), ~LockedOut(failures', c, now')
                 PROVE  now' > now \/ \E k \in Key : RotateKey(c, k)
      OBVIOUS
    <2> DEFINE kept == KeptFailures(failures, now)
    <2>0. /\ failures \in SUBSET FailureRow /\ now \in Nat
          /\ LockedOut(kept, c, now)
          /\ RecentFailures(kept, c, now) = RecentFailures(failures, c, now)
      BY EvictionInvisible DEF IdentityTypeOK
    <2>1. CASE Tick
      BY <2>0, <2>1 DEF Tick
    <2>2. CASE GetSecurityState
      BY <2>0, <2>2 DEF GetSecurityState
    <2>3. ASSUME NEW d \in Device, AddToInventory(d) PROVE FALSE
      BY <2>3 DEF AddToInventory
    <2>4. ASSUME NEW d \in Device, NEW k \in Key, RotateKey(d, k)
          PROVE  \E kk \in Key : RotateKey(c, kk)
      <3>1. CASE d = c
        BY <2>4, <3>1
      <3>2. CASE d # c
        <4>1. RecentFailures(failures', c, now') = RecentFailures(failures, c, now)
          BY <2>4, <3>2 DEF RotateKey, RecentFailures, FailuresOf
        <4> QED BY <2>4, <4>1 DEF LockedOut, RotateKey
      <3> QED BY <3>1, <3>2
    <2>5. ASSUME NEW d \in Device, NEW m \in Heartbeat, Verify(d, m) PROVE FALSE
      <3>1. CASE VerifyLockedOut(d, m) \/ VerifyThrows(d, m)
        BY <2>0, <3>1 DEF VerifyLockedOut, VerifyThrows
      <3>2. CASE d = c
        BY <2>0, <2>5, <3>1, <3>2 DEF Verify, VerifyValid, VerifyRejected
      <3>3. CASE d # c /\ VerifyValid(d, m)
        <4>1. RecentFailures(failures', c, now') = RecentFailures(kept, c, now)
          BY <3>3 DEF VerifyValid, RecentFailures, FailuresOf
        <4> QED BY <2>0, <3>3, <4>1 DEF LockedOut, VerifyValid
      <3>4. CASE d # c /\ VerifyRejected(d, m)
        <4>1. NewFailure(kept, d, now).dev = d
          BY DEF NewFailure
        <4>2. RecentFailures(failures', c, now') = RecentFailures(kept, c, now)
          BY <3>4, <4>1 DEF VerifyRejected, RecentFailures, FailuresOf
        <4> QED BY <2>0, <3>4, <4>2 DEF LockedOut, VerifyRejected
      <3> QED BY <2>5, <3>1, <3>2, <3>3, <3>4 DEF Verify
    <2> QED BY <2>1, <2>2, <2>3, <2>4, <2>5 DEF IdentityNext
  <1> QED BY <1>1, IdentityTypeCorrect, PTL DEF IdentitySafety, LockoutHolds

-----------------------------------------------------------------------------------
(* Why a lockout ends: it has at most LockoutTime to go, and the instants at which   *)
(* it holds do not become more while it lasts.                                       *)

FailuresPast == \A f \in failures : f.at <= now
LockoutShort == \A d \in Device : ~LockedOut(failures, d, now + LockoutTime)
LockoutNotProlonged ==
    [][\A d \in Device, t \in Nat :
        LockedOut(failures, d, now) /\ LockedOut(failures', d, t)
            => LockedOut(failures, d, t)]_identityVars

LEMMA PastStep ==
    IdentityTypeOK /\ IdentityTypeOK' /\ FailuresPast /\ [IdentityNext]_identityVars => FailuresPast'
  <1> SUFFICES ASSUME IdentityTypeOK, IdentityTypeOK', FailuresPast, [IdentityNext]_identityVars,
                      NEW f \in failures'
               PROVE  f.at <= now'
    BY DEF FailuresPast
  <1>0. now \in Nat /\ \A g \in failures : g.at \in Nat /\ g.at <= now
    BY DEF IdentityTypeOK, FailuresPast, FailureRow
  <1>1. CASE f \in failures
    <2>1. now' = now \/ now' = now + 1
      BY DEF IdentityNext, Tick, GetSecurityState, AddToInventory, RotateKey, Verify,
         VerifyLockedOut, VerifyValid, VerifyRejected, VerifyThrows, identityVars
    <2> QED BY <1>0, <1>1, <2>1
  <1>2. CASE f \notin failures
    <2>1. PICK d \in Device, m \in Heartbeat : VerifyRejected(d, m)
      BY <1>2 DEF IdentityNext, Tick, GetSecurityState, AddToInventory, RotateKey, Verify,
         VerifyLockedOut, VerifyValid, VerifyThrows, KeptFailures, identityVars
    <2>2. f = NewFailure(KeptFailures(failures, now), d, now)
      BY <1>2, <2>1 DEF VerifyRejected, KeptFailures
    <2>3. f.at = now /\ now' = now
      BY <2>1, <2>2 DEF NewFailure, VerifyRejected
    <2> QED BY <1>0, <2>3
  <1> QED BY <1>1, <1>2

(* No lockout has more than LockoutTime to go: every failure counted lies in the     *)
(* past (recordFailure and getSecurityState of device-identity.service.ts).          *)
THEOREM LockoutsAreShort == IdentitySafety => []LockoutShort
  <1>1. IdentityInit => FailuresPast
    BY DEF IdentityInit, FailuresPast
  <1>2. IdentityTypeOK /\ FailuresPast => LockoutShort
    <2> SUFFICES ASSUME IdentityTypeOK, FailuresPast, NEW d \in Device,
                        NEW f \in failures, now + LockoutTime < f.at + LockoutTime
                 PROVE  FALSE
      BY DEF LockoutShort, LockedOut, RecentFailures, FailuresOf
    <2>1. now \in Nat /\ f.at \in Nat /\ f.at <= now
      BY DEF IdentityTypeOK, FailuresPast, FailureRow
    <2> QED BY <2>1, BoundAssumption
  <1> QED BY <1>1, <1>2, PastStep, IdentityTypeCorrect, PTL DEF IdentitySafety

LEMMA FewerFailuresLockLess ==
    ASSUME NEW rows \in SUBSET FailureRow, IsFiniteSet(rows), NEW fewer, NEW d \in Device,
           FailuresOf(fewer, d) \subseteq FailuresOf(rows, d), NEW t \in Nat,
           LockedOut(fewer, d, t)
    PROVE  LockedOut(rows, d, t)
  <1>1. RecentFailures(fewer, d, t) \subseteq RecentFailures(rows, d, t)
    BY DEF RecentFailures
  <1>2. /\ IsFiniteSet(RecentFailures(rows, d, t))
        /\ Cardinality(RecentFailures(rows, d, t)) \in Nat
    BY RecentFailuresFinite
  <1>3. /\ Cardinality(RecentFailures(fewer, d, t)) <= Cardinality(RecentFailures(rows, d, t))
        /\ IsFiniteSet(RecentFailures(fewer, d, t))
    BY <1>1, <1>2, FS_Subset
  <1>4. Cardinality(RecentFailures(fewer, d, t)) \in Nat
    BY <1>3, FS_CardinalityType
  <1> QED BY <1>1, <1>2, <1>3, <1>4, BoundAssumption DEF LockedOut

(* Whatever a locked-out device or another one sends, and whatever is evicted, the   *)
(* lockout lasts no longer for it: an instant at which it would have been over stays  *)
(* one (device-identity.service.ts:153 returns before a failure is recorded).        *)
THEOREM LockoutsNotProlonged == IdentitySafety => LockoutNotProlonged
  <1>1. IdentityTypeOK /\ IdentityTypeOK' /\ [IdentityNext]_identityVars =>
            [\A d \in Device, t \in Nat :
                LockedOut(failures, d, now) /\ LockedOut(failures', d, t)
                    => LockedOut(failures, d, t)]_identityVars
    <2> SUFFICES ASSUME IdentityTypeOK, IdentityNext, NEW c \in Device, NEW u \in Nat,
                        LockedOut(failures, c, now), LockedOut(failures', c, u)
                 PROVE  LockedOut(failures, c, u)
      OBVIOUS
    <2>1. ASSUME NEW f \in failures', f.dev = c, f \notin failures
          PROVE  FALSE
      <3>1. ASSUME NEW d \in Device, NEW m \in Heartbeat, VerifyRejected(d, m)
            PROVE  FALSE
        <4> DEFINE kept == KeptFailures(failures, now)
        <4>1. f = NewFailure(kept, d, now)
          BY <2>1, <3>1 DEF VerifyRejected, KeptFailures
        <4>2. d = c
          BY <2>1, <4>1 DEF NewFailure
        <4>3. LockedOut(kept, c, now)
          BY EvictionInvisible DEF IdentityTypeOK
        <4> QED BY <3>1, <4>2, <4>3 DEF VerifyRejected
      <3> QED BY <2>1, <3>1 DEF IdentityNext, Tick, GetSecurityState, AddToInventory, RotateKey,
                 Verify, VerifyLockedOut, VerifyValid, VerifyThrows, KeptFailures
    <2>2. FailuresOf(failures', c) \subseteq FailuresOf(failures, c)
      BY <2>1 DEF FailuresOf
    <2>3. failures \in SUBSET FailureRow /\ IsFiniteSet(failures)
      BY DEF IdentityTypeOK
    <2> QED BY <2>2, <2>3, FewerFailuresLockLess
  <1> QED BY <1>1, IdentityTypeCorrect, PTL DEF IdentitySafety, LockoutNotProlonged
=====================================================================================
