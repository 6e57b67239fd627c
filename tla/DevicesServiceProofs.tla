--------------------------- MODULE DevicesServiceProofs ---------------------------
(* Theorems of DevicesService, for every value of its constants.                     *)
EXTENDS DevicesService, DeviceIdentityProofs

-----------------------------------------------------------------------------------
(* The service over its identity tables.                                             *)

LEMMA InitIsIdentityInit == ServiceInit => IdentityInit
  BY DEF ServiceInit

(* Whatever handler runs, the identity tables take one of DeviceIdentity's steps.    *)
LEMMA StepIsIdentityStep == [ServiceNext]_serviceVars => [IdentityNext]_identityVars
  <1> SUFFICES ASSUME [ServiceNext]_serviceVars PROVE [IdentityNext]_identityVars
    OBVIOUS
  <1>1. CASE ClockTick
    BY <1>1 DEF ClockTick, IdentityNext
  <1>2. ASSUME NEW d \in Device, CreatePlaceholder(d) PROVE IdentityNext
    BY <1>2 DEF CreatePlaceholder, IdentityNext
  <1>3. ASSUME NEW d \in Device, NEW k \in Key, UpsertIdentityKey(d, k) PROVE IdentityNext
    BY <1>3 DEF UpsertIdentityKey, IdentityNext
  <1>4. ASSUME NEW d \in Device, IssueProvisioningToken(d) PROVE UNCHANGED identityVars
    BY <1>4 DEF IssueProvisioningToken
  <1>5. ASSUME NEW d \in Device, GetIdentityProfile(d) PROVE IdentityNext
    BY <1>5 DEF GetIdentityProfile, IdentityNext
  <1>6. ASSUME NEW d \in Device, NEW action \in PolicyAction, ApplyPolicy(d, action)
        PROVE  IdentityNext
    BY <1>6 DEF ApplyPolicy, Enforced, IdentityNext
  <1>7. ASSUME NEW d \in Device, ArchiveDevice(d) PROVE [IdentityNext]_identityVars
    BY <1>7 DEF ArchiveDevice, Enforced, IdentityNext
  <1>8. ASSUME NEW d \in Device, RestoreDevice(d) \/ ReportMismatched(d)
        PROVE  UNCHANGED identityVars
    BY <1>8 DEF RestoreDevice, ReportMismatched
  <1>9. ASSUME NEW d \in Device, NEW m \in Heartbeat, Report(d, m) PROVE IdentityNext
    <2>1. Verify(d, m)
      BY <1>9 DEF Report, ReportThrows, ReportRefused, ReportVerified, ReportUnprovisioned,
                  ReportProvisioned, Verify
    <2> QED BY <2>1 DEF IdentityNext
  <1>10. ASSUME NEW dry \in DryRuns, Restart(dry) PROVE UNCHANGED identityVars
    BY <1>10 DEF Restart
  <1>11. CASE UNCHANGED serviceVars
    BY <1>11 DEF serviceVars
  <1> QED BY <1>1, <1>2, <1>3, <1>4, <1>5, <1>6, <1>7, <1>8, <1>9, <1>10, <1>11
          DEF ServiceNext, Handler

THEOREM ServiceKeepsIdentity == ServiceSafety => IdentitySafety
  BY InitIsIdentityInit, StepIsIdentityStep, PTL DEF ServiceSafety, IdentitySafety

(* No heartbeat whose nonce outlasts it is found valid twice, in the whole service.  *)
THEOREM ServiceNeverReplayedWhileKept == ServiceSafety => []NoReplayWhileKept
  BY ServiceKeepsIdentity, NeverReplayedWhileKept, PTL

-----------------------------------------------------------------------------------
(* Type correctness.                                                                 *)

LEMMA StatusType ==
    ASSUME ServiceTypeOK, NEW d \in Device
    PROVE  CurrentIdentityStatus(d) \in IdentityStatus
  BY DEF ServiceTypeOK, CurrentIdentityStatus, IdentityStatus

(* What the policy engine and the enforcement decide.                                *)
LEMMA DecisionFacts ==
    ASSUME NEW action \in PolicyAction, NEW prev \in DeviceState, NEW st \in IdentityStatus,
           NEW dry \in BOOLEAN
    PROVE  LET decision == Decide(action, prev, st, dry) IN
           /\ decision.result \in {"applied", "blocked"}
           /\ decision.next \in DeviceState
           /\ decision.result = "blocked" => decision.next = prev
           /\ decision.next = "allowed" /\ prev # "allowed"
                => st \in {"enrolled", "verified"} /\ action = "allow"
           /\ decision.next \in {prev, Target(action)}
  BY DEF Decide, Evaluate, Enforce, Target, BlockCode, PolicyAction, DeviceState,
         IdentityStatus

(* A dry run keeps the state, whatever is decided.                                   *)
LEMMA DryDecision ==
    ASSUME NEW action \in PolicyAction, NEW prev \in DeviceState, NEW st \in IdentityStatus
    PROVE  Decide(action, prev, st, TRUE).next = prev
  BY DEF Decide, Evaluate, Enforce

(* Otherwise only an allow of a device in doubt is blocked.                          *)
LEMMA RealDecision ==
    ASSUME NEW action \in PolicyAction, NEW prev \in DeviceState, NEW st \in IdentityStatus
    PROVE  LET decision == Decide(action, prev, st, FALSE) IN
           IF action = "allow" /\ st \in {"pending", "invalid", "locked"}
           THEN decision.result = "blocked" /\ decision.next = prev
           ELSE decision.result = "applied" /\ decision.next = Target(action)
  BY DEF Decide, Evaluate, Enforce, BlockCode

LEMMA EnforcedType ==
    ASSUME ServiceTypeOK, NEW d \in Device, NEW action \in PolicyAction, Enforced(d, action)
    PROVE  /\ state' \in [Device -> DeviceState]
           /\ auditLog' \in [Device -> Seq(AuditRow)]
           /\ enforcementLog' \in [Device -> Seq(EnforcementRow)]
  <1> DEFINE decision == Decide(action, state[d], CurrentIdentityStatus(d), dryRun)
  <1>1. /\ decision.result \in {"applied", "blocked"} /\ decision.next \in DeviceState
        /\ state[d] \in DeviceState
    BY StatusType, DecisionFacts DEF ServiceTypeOK
  <1>2. [action |-> action, prev |-> state[d], next |-> decision.next] \in AuditRow
    BY <1>1 DEF AuditRow
  <1>3. [action |-> action, prev |-> state[d], next |-> decision.next,
         result |-> decision.result] \in EnforcementRow
    BY <1>1 DEF EnforcementRow
  <1>4. auditLog' \in [Device -> Seq(AuditRow)]
    BY <1>2 DEF Enforced, AuditAfter, ServiceTypeOK
  <1>5. enforcementLog' \in [Device -> Seq(EnforcementRow)]
    BY <1>3 DEF Enforced, ServiceTypeOK
  <1> QED BY <1>1, <1>4, <1>5 DEF Enforced, ServiceTypeOK

LEMMA IssueTokenType ==
    ASSUME ServiceTypeOK, NEW d \in Device, IssueToken(d)
    PROVE  tokens' \in [Device -> TokenRow] /\ issued' \in Nat
  BY TokenTtlAssumption
     DEF IssueToken, IssuedToken, TokenRow, ServiceTypeOK, IdentityTypeOK

LEMMA ServiceTypeStep == ServiceTypeOK /\ [ServiceNext]_serviceVars => ServiceTypeOK'
  <1> USE DEF deviceVars, tokenVars, logVars
  <1> SUFFICES ASSUME ServiceTypeOK, [ServiceNext]_serviceVars PROVE ServiceTypeOK'
    OBVIOUS
  <1>0. IdentityTypeOK' /\ dryRun' \in BOOLEAN
    <2>1. IdentityTypeOK'
      BY StepIsIdentityStep, IdentityTypeStep DEF ServiceTypeOK
    <2>2. dryRun' \in BOOLEAN
      BY DryRunAssumption DEF ServiceNext, ClockTick, Restart, serviceVars, ServiceTypeOK
    <2> QED BY <2>1, <2>2
  <1>1. CASE ClockTick
    BY <1>0, <1>1 DEF ClockTick, ServiceTypeOK
  <1>2. ASSUME NEW d \in Device,
               CreatePlaceholder(d) \/ GetIdentityProfile(d) PROVE ServiceTypeOK'
    BY <1>0, <1>2 DEF CreatePlaceholder, GetIdentityProfile, ServiceTypeOK
  <1>3. ASSUME NEW d \in Device, NEW k \in Key, UpsertIdentityKey(d, k)
        PROVE  ServiceTypeOK'
    BY <1>0, <1>3, IssueTokenType
       DEF UpsertIdentityKey, ServiceTypeOK, IdentityStatus, IdentityEvent
  <1>4. ASSUME NEW d \in Device, IssueProvisioningToken(d) PROVE ServiceTypeOK'
    BY <1>0, <1>4, IssueTokenType DEF IssueProvisioningToken, ServiceTypeOK
  <1>5. ASSUME NEW d \in Device, NEW action \in PolicyAction, ApplyPolicy(d, action)
        PROVE  ServiceTypeOK'
    BY <1>0, <1>5, EnforcedType DEF ApplyPolicy, ServiceTypeOK
  <1>6. ASSUME NEW d \in Device, ArchiveDevice(d) PROVE ServiceTypeOK'
    <2>1. /\ state' \in [Device -> DeviceState]
          /\ auditLog' \in [Device -> Seq(AuditRow)]
          /\ enforcementLog' \in [Device -> Seq(EnforcementRow)]
      BY <1>6, EnforcedType DEF ArchiveDevice, ServiceTypeOK, PolicyAction
    <2> QED BY <1>0, <1>6, <2>1 DEF ArchiveDevice, ServiceTypeOK
  <1>7. ASSUME NEW d \in Device, RestoreDevice(d) PROVE ServiceTypeOK'
    BY <1>0, <1>7 DEF RestoreDevice, ServiceTypeOK
  <1>8. ASSUME NEW d \in Device, ReportMismatched(d) PROVE ServiceTypeOK'
    BY <1>0, <1>8 DEF ReportMismatched, ServiceTypeOK, IdentityStatus, IdentityEvent
  <1>9. ASSUME NEW d \in Device, NEW m \in Heartbeat, Report(d, m) PROVE ServiceTypeOK'
    <2>1. m.key \in Key \cup {NoKey}
      BY DEF Heartbeat
    <2>2. CASE ReportThrows(d, m)
      BY <1>0, <2>2 DEF ReportThrows, ServiceTypeOK
    <2>3. CASE ReportRefused(d, m)
      BY <1>0, <2>3 DEF ReportRefused, ServiceTypeOK, IdentityStatus, IdentityEvent
    <2>4. CASE ReportVerified(d, m)
      BY <1>0, <2>1, <2>4
         DEF ReportVerified, MarkVerified, ServiceTypeOK, IdentityStatus, IdentityEvent
    <2>5. ASSUME NEW x \in 0 .. issued, ReportUnprovisioned(d, m, x) PROVE ServiceTypeOK'
      BY <1>0, <2>5 DEF ReportUnprovisioned, ServiceTypeOK, IdentityEvent
    <2>6. ASSUME NEW x \in 0 .. issued, ReportProvisioned(d, m, x) PROVE ServiceTypeOK'
      <3>1. tokens' \in [Device -> TokenRow]
        BY <2>6 DEF ReportProvisioned, Consumed, TokenRow, ServiceTypeOK
      <3> QED BY <1>0, <2>1, <2>6, <3>1
              DEF ReportProvisioned, MarkVerified, ServiceTypeOK, IdentityStatus,
                  IdentityEvent
    <2> QED BY <1>9, <2>2, <2>3, <2>4, <2>5, <2>6 DEF Report
  <1>10. ASSUME NEW dry \in DryRuns, Restart(dry) PROVE ServiceTypeOK'
    BY <1>0, <1>10 DEF Restart, ServiceTypeOK
  <1>11. CASE UNCHANGED serviceVars
    BY <1>0, <1>11 DEF serviceVars, ServiceTypeOK
  <1> QED BY <1>1, <1>2, <1>3, <1>4, <1>5, <1>6, <1>7, <1>8, <1>9, <1>10, <1>11
          DEF ServiceNext, Handler

LEMMA ServiceTypeInit == ServiceInit => ServiceTypeOK
  BY IdentityTypeInit, DryRunAssumption
     DEF ServiceInit, ServiceTypeOK, DeviceState, IdentityStatus, IdentityEvent,
         NoTokenRow, NoToken, TokenRow

(* Every column keeps to the values its CHECK constraint names.                      *)
THEOREM ServiceTypeCorrect == ServiceSafety => []ServiceTypeOK
  BY ServiceTypeInit, ServiceTypeStep, PTL DEF ServiceSafety

-----------------------------------------------------------------------------------
(* The invariant that carries the safety properties: what holds of one device, so    *)
(* that it can be lost and regained one device at a time.  Stronger than the         *)
(* properties where a handler's guard needs it: an id with no row is as good as      *)
(* pending, and a pending device has no key, so that a signature can only be valid   *)
(* once a key was configured.                                                        *)
KeyBacked(d) ==
    status[d] \in {"enrolled", "verified"} \/ state[d] = "allowed" => keys[d] # NoKey
Sincere(d) ==
    /\ d \notin inventory => status[d] = "pending" /\ state[d] = "unknown"
    /\ status[d] = "pending" => keys[d] = NoKey
    /\ UnderCurrentKey(d)
    /\ Untainted(d)
    /\ EventExplains(d)
TrustInv ==
    \A d \in Device :
        /\ KeyBacked(d)
        /\ Sincere(d)
        /\ Explains(auditLog[d], state[d])

(* The four ways of verify, as far as the invariant sees them.                       *)
LEMMA VerifyEffect ==
    ASSUME IdentityTypeOK, NEW d \in Device, NEW m \in Heartbeat, Verify(d, m)
    PROVE  /\ keys' = keys /\ inventory' = inventory
           /\ \A c \in Device \ {d} : FailuresOf(failures', c) \subseteq FailuresOf(failures, c)
           /\ VerifyThrows(d, m) => FailuresOf(failures', d) \subseteq FailuresOf(failures, d)
           /\ VerifyValid(d, m) => FailuresOf(failures', d) = {}
           /\ VerifyValid(d, m) => keys[d] # NoKey /\ m.key = keys[d]
           /\ VerifyValid(d, m) => d \in inventory
           /\ VerifyLockedOut(d, m) => FailuresOf(failures, d) # {}
  <1>1. CASE VerifyLockedOut(d, m)
    <2>1. FailuresOf(failures, d) # {}
      BY <1>1 DEF VerifyLockedOut, LockedOut, RecentFailures, FailuresOf, KeptFailures
    <2> QED BY <1>1, <2>1 DEF VerifyLockedOut, VerifyValid, KeptFailures, FailuresOf
  <1>2. CASE VerifyThrows(d, m)
    <2>1. VerifyLockedOut(d, m) => FailuresOf(failures, d) # {}
      BY DEF VerifyLockedOut, LockedOut, RecentFailures, FailuresOf, KeptFailures
    <2> QED BY <1>2, <2>1 DEF VerifyThrows, VerifyValid, KeptFailures, FailuresOf
  <1>3. CASE VerifyRejected(d, m)
    <2>1. NewFailure(KeptFailures(failures, now), d, now).dev = d
      BY DEF NewFailure
    <2> QED BY <1>3, <2>1
            DEF VerifyRejected, VerifyValid, VerifyThrows, VerifyLockedOut, KeptFailures,
                FailuresOf
  <1>4. CASE VerifyValid(d, m)
    BY <1>4 DEF VerifyValid, VerifyThrows, VerifyLockedOut, Accepts, KeptFailures, FailuresOf
  <1> QED BY <1>1, <1>2, <1>3, <1>4 DEF Verify

(* A heartbeat that is refused and not thrown out is of a device there is.           *)
LEMMA RefusedEffect ==
    ASSUME ServiceTypeOK, NEW d \in Device, NEW m \in Heartbeat, ReportRefused(d, m)
    PROVE  /\ \/ status' = [status EXCEPT ![d] = "locked"] /\ lastEvent'[d] = "failed_locked"
              \/ status' = [status EXCEPT ![d] = "invalid"] /\ lastEvent'[d] = "failed"
           /\ \A c \in Device \ {d} : lastEvent'[c] = lastEvent[c]
           /\ d \in inventory \/ FailuresOf(failures, d) # {}
  <1>1. d \in inventory \/ FailuresOf(failures, d) # {}
    <2>1. LockedOut(KeptFailures(failures, now), d, now) => FailuresOf(failures, d) # {}
      BY DEF LockedOut, RecentFailures, FailuresOf, KeptFailures
    <2> QED BY <2>1 DEF ReportRefused, VerifyLockedOut, VerifyRejected
  <1> QED BY <1>1 DEF ReportRefused, ServiceTypeOK

(* A row that starts where the log ended and is a change keeps the log a chain.      *)
LEMMA AppendExplains ==
    ASSUME NEW log \in Seq(AuditRow), NEW row \in AuditRow,
           Explains(log, row.prev), row.prev # row.next
    PROVE  Explains(Append(log, row), row.next)
  <1> DEFINE longer == Append(log, row)
  <1>1. /\ longer \in Seq(AuditRow) /\ Len(longer) = Len(log) + 1 /\ longer # <<>>
        /\ longer[Len(log) + 1] = row
        /\ \A i \in 1 .. Len(log) : longer[i] = log[i]
    OBVIOUS
  <1>2. Len(log) \in Nat /\ (log = <<>> <=> Len(log) = 0)
    OBVIOUS
  <1>3. ASSUME NEW i \in 1 .. Len(longer)
        PROVE  /\ longer[i].prev = IF i = 1 THEN "unknown" ELSE longer[i - 1].next
               /\ longer[i].prev # longer[i].next
    <2>1. CASE i \in 1 .. Len(log)
      BY <1>1, <1>2, <2>1 DEF Explains
    <2>2. CASE i = Len(log) + 1
      BY <1>1, <1>2, <2>2 DEF Explains
    <2> QED BY <1>1, <1>2, <2>1, <2>2
  <1> QED BY <1>1, <1>2, <1>3 DEF Explains

(* The audit log and the state of a device move together or not at all.              *)
Audited(d, log, st) ==
    \/ log = auditLog[d] /\ st = state[d]
    \/ \E row \in AuditRow :
        /\ row.prev = state[d] /\ row.next = st /\ row.prev # row.next
        /\ log = Append(auditLog[d], row)

(* applyPolicy: the state moves with the audit log, and to allowed only on trust.    *)
LEMMA EnforcedEffect ==
    ASSUME ServiceTypeOK, NEW d \in Device, NEW action \in PolicyAction, Enforced(d, action)
    PROVE  /\ keys' = keys /\ inventory' = inventory
           /\ \A c \in Device : FailuresOf(failures', c) \subseteq FailuresOf(failures, c)
           /\ \A c \in Device \ {d} :
                /\ state'[c] = state[c] /\ auditLog'[c] = auditLog[c]
                /\ enforcementLog'[c] = enforcementLog[c]
           /\ Audited(d, auditLog'[d], state'[d])
           /\ state'[d] = "allowed" /\ state[d] # "allowed"
                => /\ status[d] \in {"enrolled", "verified"}
                   /\ ~LockedOut(failures, d, now)
  <1> DEFINE decision == Decide(action, state[d], CurrentIdentityStatus(d), dryRun)
             row == [action |-> action, prev |-> state[d], next |-> decision.next]
  <1>1. /\ decision.next \in DeviceState /\ state[d] \in DeviceState
        /\ decision.result \in {"applied", "blocked"}
        /\ decision.result = "blocked" => decision.next = state[d]
        /\ decision.next = "allowed" /\ state[d] # "allowed"
             => CurrentIdentityStatus(d) \in {"enrolled", "verified"}
    BY StatusType, DecisionFacts DEF ServiceTypeOK
  <1>2. /\ state' = [state EXCEPT ![d] = decision.next]
        /\ auditLog' = AuditAfter(d, action, decision)
        /\ failures' = KeptFailures(failures, now)
        /\ keys' = keys /\ inventory' = inventory
    BY DEF Enforced, GetSecurityState
  <1>3. \A c \in Device \ {d} :
            /\ state'[c] = state[c] /\ auditLog'[c] = auditLog[c]
            /\ enforcementLog'[c] = enforcementLog[c]
    BY <1>2 DEF Enforced, AuditAfter, ServiceTypeOK
  <1>4. Audited(d, auditLog'[d], state'[d])
    <2>1. CASE decision.next = state[d]
      BY <1>2, <2>1 DEF AuditAfter, Audited, ServiceTypeOK
    <2>2. CASE decision.next # state[d]
      <3>1. decision.result = "applied"
        BY <1>1, <2>2
      <3>2. row \in AuditRow /\ row.prev = state[d] /\ row.next = decision.next
        BY <1>1 DEF AuditRow
      <3>3. auditLog'[d] = Append(auditLog[d], row) /\ state'[d] = row.next
        BY <1>2, <2>2, <3>1 DEF AuditAfter, ServiceTypeOK
      <3> QED BY <2>2, <3>2, <3>3 DEF Audited
    <2> QED BY <2>1, <2>2
  <1>5. CurrentIdentityStatus(d) \in {"enrolled", "verified"}
          => status[d] \in {"enrolled", "verified"} /\ ~LockedOut(failures, d, now)
    BY EvictionInvisible DEF CurrentIdentityStatus, ServiceTypeOK, IdentityTypeOK
  <1>6. state'[d] = "allowed" => decision.next = "allowed"
    BY <1>2 DEF ServiceTypeOK
  <1> QED BY <1>1, <1>2, <1>3, <1>4, <1>5, <1>6 DEF KeptFailures, FailuresOf

(* Only a policy decision touches states and audit logs.                             *)
LEMMA AuditedStep ==
    ASSUME ServiceTypeOK, [ServiceNext]_serviceVars, NEW c \in Device
    PROVE  Audited(c, auditLog'[c], state'[c])
  <1>1. ASSUME NEW d \in Device, NEW action \in PolicyAction, Enforced(d, action)
        PROVE  Audited(c, auditLog'[c], state'[c])
    <2>1. CASE c = d
      BY <1>1, <2>1, EnforcedEffect
    <2>2. CASE c # d
      BY <1>1, <2>2, EnforcedEffect DEF Audited
    <2> QED BY <2>1, <2>2
  <1>2. CASE \E d \in Device, action \in PolicyAction : Enforced(d, action)
    BY <1>1, <1>2
  <1>3. CASE UNCHANGED <<state, auditLog>>
    BY <1>3 DEF Audited
  <1> QED
    BY <1>2, <1>3
    DEF ServiceNext, Handler, Restart, ClockTick, CreatePlaceholder, UpsertIdentityKey,
        IssueProvisioningToken, GetIdentityProfile, ApplyPolicy, ArchiveDevice,
        RestoreDevice, ReportMismatched, Report, ReportThrows, ReportRefused,
        ReportVerified, ReportUnprovisioned, ReportProvisioned, MarkVerified,
        serviceVars, deviceVars, logVars, PolicyAction

(* A heartbeat that makes its device verified.                                       *)
LEMMA VerifiedEffect ==
    ASSUME ServiceTypeOK, NEW d \in Device, NEW m \in Heartbeat,
           MarkVerified(d, m), VerifyValid(d, m)
    PROVE  /\ status'[d] = "verified" /\ lastEvent'[d] = "verified"
           /\ trustedKey'[d] = keys[d] /\ keys[d] # NoKey /\ keys' = keys
           /\ d \in inventory /\ inventory' = inventory
           /\ FailuresOf(failures', d) = {}
           /\ \A c \in Device \ {d} :
                /\ status'[c] = status[c] /\ lastEvent'[c] = lastEvent[c]
                /\ trustedKey'[c] = trustedKey[c]
                /\ FailuresOf(failures', c) \subseteq FailuresOf(failures, c)
  <1>1. Verify(d, m) /\ IdentityTypeOK
    BY DEF Verify, ServiceTypeOK
  <1>2. /\ keys' = keys /\ inventory' = inventory /\ d \in inventory
        /\ FailuresOf(failures', d) = {} /\ keys[d] # NoKey /\ m.key = keys[d]
        /\ \A c \in Device \ {d} : FailuresOf(failures', c) \subseteq FailuresOf(failures, c)
    BY <1>1, VerifyEffect
  <1> QED BY <1>2 DEF MarkVerified, ServiceTypeOK

(* A handler of d leaves every other device as it was, but for expired failures.     *)
LEMMA OthersKept ==
    ASSUME ServiceTypeOK, NEW d \in Device, Handler(d), NEW c \in Device \ {d}
    PROVE  /\ c \in inventory' <=> c \in inventory
           /\ keys'[c] = keys[c] /\ status'[c] = status[c] /\ state'[c] = state[c]
           /\ trustedKey'[c] = trustedKey[c] /\ lastEvent'[c] = lastEvent[c]
           /\ auditLog'[c] = auditLog[c] /\ enforcementLog'[c] = enforcementLog[c]
           /\ tokens'[c] = tokens[c]
           /\ FailuresOf(failures', c) \subseteq FailuresOf(failures, c)
  <1> USE DEF deviceVars, tokenVars, logVars
  <1>0. IdentityTypeOK
    BY DEF ServiceTypeOK
  <1>1. CASE CreatePlaceholder(d)
    BY <1>1 DEF CreatePlaceholder, AddToInventory
  <1>2. ASSUME NEW k \in Key, UpsertIdentityKey(d, k)
        PROVE  /\ c \in inventory' <=> c \in inventory
               /\ keys'[c] = keys[c] /\ status'[c] = status[c] /\ state'[c] = state[c]
               /\ trustedKey'[c] = trustedKey[c] /\ lastEvent'[c] = lastEvent[c]
               /\ auditLog'[c] = auditLog[c] /\ enforcementLog'[c] = enforcementLog[c]
               /\ tokens'[c] = tokens[c]
               /\ FailuresOf(failures', c) \subseteq FailuresOf(failures, c)
    BY <1>2 DEF UpsertIdentityKey, RotateKey, IssueToken, FailuresOf, ServiceTypeOK,
                IdentityTypeOK
  <1>3. CASE IssueProvisioningToken(d) \/ RestoreDevice(d)
    BY <1>3 DEF IssueProvisioningToken, IssueToken, RestoreDevice, identityVars, ServiceTypeOK
  <1>4. CASE GetIdentityProfile(d)
    BY <1>4 DEF GetIdentityProfile, GetSecurityState, KeptFailures, FailuresOf
  <1>5. CASE \E action \in PolicyAction : ApplyPolicy(d, action)
    BY <1>5, EnforcedEffect DEF ApplyPolicy
  <1>6. CASE ArchiveDevice(d)
    <2>1. CASE state[d] # "denied"
      BY <1>6, <2>1, EnforcedEffect DEF ArchiveDevice, PolicyAction
    <2>2. CASE state[d] = "denied"
      BY <1>6, <2>2 DEF ArchiveDevice, identityVars
    <2> QED BY <2>1, <2>2
  <1>7. CASE ReportMismatched(d)
    BY <1>7 DEF ReportMismatched, identityVars, ServiceTypeOK
  <1>8. ASSUME NEW m \in Heartbeat, Report(d, m)
        PROVE  /\ c \in inventory' <=> c \in inventory
               /\ keys'[c] = keys[c] /\ status'[c] = status[c] /\ state'[c] = state[c]
               /\ trustedKey'[c] = trustedKey[c] /\ lastEvent'[c] = lastEvent[c]
               /\ auditLog'[c] = auditLog[c] /\ enforcementLog'[c] = enforcementLog[c]
               /\ tokens'[c] = tokens[c]
               /\ FailuresOf(failures', c) \subseteq FailuresOf(failures, c)
    <2>1. Verify(d, m)
      BY <1>8 DEF Report, ReportThrows, ReportRefused, ReportVerified, ReportUnprovisioned,
                  ReportProvisioned, Verify
    <2>2. /\ keys' = keys /\ inventory' = inventory
          /\ FailuresOf(failures', c) \subseteq FailuresOf(failures, c)
      BY <1>0, <2>1, VerifyEffect
    <2>3. /\ state' = state /\ auditLog' = auditLog /\ enforcementLog' = enforcementLog
          /\ tokens'[c] = tokens[c]
          /\ status'[c] = status[c] /\ lastEvent'[c] = lastEvent[c]
          /\ trustedKey'[c] = trustedKey[c]
      BY <1>8 DEF Report, ReportThrows, ReportRefused, ReportVerified, ReportUnprovisioned,
                  ReportProvisioned, MarkVerified, ServiceTypeOK
    <2> QED BY <2>2, <2>3
  <1> QED BY <1>1, <1>2, <1>3, <1>4, <1>5, <1>6, <1>7, <1>8 DEF Handler

(* No handler leaves its device trusted or let in without a key.                     *)
LEMMA KeyBackedByHandler ==
    ASSUME ServiceTypeOK, NEW d \in Device, KeyBacked(d), Handler(d)
    PROVE  KeyBacked(d)'
  <1> USE DEF deviceVars, tokenVars, logVars, KeyBacked
  <1>0. IdentityTypeOK
    BY DEF ServiceTypeOK
  <1>1. CASE CreatePlaceholder(d) \/ GetIdentityProfile(d)
    BY <1>1 DEF CreatePlaceholder, AddToInventory, GetIdentityProfile, GetSecurityState
  <1>2. ASSUME NEW k \in Key, UpsertIdentityKey(d, k) PROVE KeyBacked(d)'
    BY <1>2, KeyAssumption DEF UpsertIdentityKey, RotateKey, ServiceTypeOK, IdentityTypeOK
  <1>3. CASE IssueProvisioningToken(d) \/ RestoreDevice(d)
    BY <1>3 DEF IssueProvisioningToken, RestoreDevice, identityVars
  <1>4. ASSUME NEW action \in PolicyAction, Enforced(d, action), status' = status
        PROVE  KeyBacked(d)'
    BY <1>4, EnforcedEffect
  <1>5. CASE \E action \in PolicyAction : ApplyPolicy(d, action)
    BY <1>4, <1>5 DEF ApplyPolicy
  <1>6. CASE ArchiveDevice(d)
    <2>1. CASE state[d] # "denied"
      BY <1>4, <1>6, <2>1 DEF ArchiveDevice, PolicyAction
    <2>2. CASE state[d] = "denied"
      BY <1>6, <2>2 DEF ArchiveDevice, identityVars
    <2> QED BY <2>1, <2>2
  <1>7. CASE ReportMismatched(d)
    <2>1. status'[d] = "invalid"
      BY <1>7 DEF ReportMismatched, ServiceTypeOK
    <2> QED BY <1>7, <2>1 DEF ReportMismatched, identityVars
  <1>8. ASSUME NEW m \in Heartbeat, Report(d, m) PROVE KeyBacked(d)'
    <2>1. Verify(d, m) /\ state' = state
      BY <1>8 DEF Report, ReportThrows, ReportRefused, ReportVerified, ReportUnprovisioned,
                  ReportProvisioned, Verify
    <2>2. keys' = keys
      BY <1>0, <2>1, VerifyEffect
    <2>3. CASE ReportThrows(d, m) \/ \E x \in 0 .. issued : ReportUnprovisioned(d, m, x)
      BY <2>1, <2>2, <2>3 DEF ReportThrows, ReportUnprovisioned
    <2>4. CASE ReportRefused(d, m)
      <3>1. status'[d] \in {"locked", "invalid"}
        BY <2>4, RefusedEffect DEF ServiceTypeOK
      <3> QED BY <2>1, <2>2, <3>1
    <2>5. CASE MarkVerified(d, m) /\ VerifyValid(d, m)
      BY <2>2, <2>5, VerifiedEffect
    <2> QED BY <1>8, <2>3, <2>4, <2>5 DEF Report, ReportVerified, ReportProvisioned
  <1> QED BY <1>1, <1>2, <1>3, <1>5, <1>6, <1>7, <1>8 DEF Handler

(* A new key makes a device sincere, whatever it was before.                         *)
LEMMA SincereByKey ==
    ASSUME ServiceTypeOK, NEW d \in Device, NEW k \in Key, UpsertIdentityKey(d, k)
    PROVE  Sincere(d)'
  <1>1. FailuresOf(failures', d) = {}
    BY DEF UpsertIdentityKey, RotateKey, FailuresOf
  <1>2. d \in inventory' /\ status'[d] = "enrolled" /\ lastEvent'[d] = "key_rotated"
    BY DEF UpsertIdentityKey, RotateKey, ServiceTypeOK
  <1> QED BY <1>1, <1>2 DEF Sincere, UnderCurrentKey, Untainted, EventExplains

(* Every handler keeps its device sincere.                                           *)
LEMMA SincereByHandler ==
    ASSUME ServiceTypeOK, NEW d \in Device, KeyBacked(d), Sincere(d), Handler(d)
    PROVE  Sincere(d)'
  <1> USE DEF deviceVars, tokenVars, logVars, UnderCurrentKey, Untainted,
              EventExplains
  <1>0. IdentityTypeOK
    BY DEF ServiceTypeOK
  <1>1. CASE CreatePlaceholder(d)
    BY <1>1 DEF CreatePlaceholder, AddToInventory, Sincere
  <1>2. CASE IssueProvisioningToken(d) \/ RestoreDevice(d)
    BY <1>2 DEF IssueProvisioningToken, RestoreDevice, identityVars, Sincere
  <1>3. CASE GetIdentityProfile(d)
    <2>1. FailuresOf(failures', d) \subseteq FailuresOf(failures, d)
      BY <1>3 DEF GetIdentityProfile, GetSecurityState, KeptFailures, FailuresOf
    <2> QED BY <1>3, <2>1 DEF GetIdentityProfile, GetSecurityState, Sincere
  <1>4. ASSUME NEW action \in PolicyAction, Enforced(d, action),
               UNCHANGED <<status, lastEvent, trustedKey>>, d \in inventory
        PROVE  Sincere(d)'
    BY <1>4, EnforcedEffect DEF Sincere
  <1>5. CASE \E action \in PolicyAction : ApplyPolicy(d, action)
    BY <1>4, <1>5 DEF ApplyPolicy
  <1>6. CASE ArchiveDevice(d)
    <2>1. CASE state[d] # "denied"
      BY <1>4, <1>6, <2>1 DEF ArchiveDevice, PolicyAction
    <2>2. CASE state[d] = "denied"
      BY <1>6, <2>2 DEF ArchiveDevice, identityVars, Sincere
    <2> QED BY <2>1, <2>2
  <1>7. CASE ReportMismatched(d)
    <2>1. status'[d] = "invalid" /\ lastEvent'[d] = "failed"
      BY <1>7 DEF ReportMismatched, ServiceTypeOK
    <2> QED BY <1>7, <2>1 DEF ReportMismatched, identityVars, Sincere
  <1>8. ASSUME NEW m \in Heartbeat, Report(d, m) PROVE Sincere(d)'
    <2>0. Verify(d, m)
      BY <1>8 DEF Report, ReportThrows, ReportRefused, ReportVerified, ReportUnprovisioned,
                  ReportProvisioned, Verify
    <2>1. CASE ReportThrows(d, m)
      BY <1>0, <2>0, <2>1, VerifyEffect DEF ReportThrows, Sincere
    <2>2. CASE ReportRefused(d, m)
      <3>1. /\ \/ status'[d] = "locked" /\ lastEvent'[d] = "failed_locked"
               \/ status'[d] = "invalid" /\ lastEvent'[d] = "failed"
            /\ d \in inventory
        BY <2>2, RefusedEffect DEF Sincere, ServiceTypeOK
      <3> QED BY <1>0, <2>0, <2>2, <3>1, VerifyEffect DEF ReportRefused, Sincere
    <2>3. CASE MarkVerified(d, m) /\ VerifyValid(d, m)
      BY <2>3, VerifiedEffect DEF Sincere
    <2>4. ASSUME NEW x \in 0 .. issued, ReportUnprovisioned(d, m, x) PROVE Sincere(d)'
      BY <1>0, <2>0, <2>4, VerifyEffect DEF ReportUnprovisioned, Sincere, ServiceTypeOK
    <2> QED BY <1>8, <2>1, <2>2, <2>3, <2>4 DEF Report, ReportVerified, ReportProvisioned
  <1> QED BY <1>1, <1>2, <1>3, <1>5, <1>6, <1>7, <1>8, SincereByKey DEF Handler

(* The steps that are no handler's change no device.                                 *)
LEMMA DevicesKept ==
    ASSUME ServiceTypeOK, ClockTick \/ (\E dry \in DryRuns : Restart(dry)) \/ UNCHANGED serviceVars
    PROVE  UNCHANGED <<inventory, keys, status, state, trustedKey, lastEvent, auditLog, failures>>
  BY DEF ClockTick, Tick, Restart, serviceVars, identityVars, deviceVars, logVars

LEMMA KeyBackedStep ==
    ASSUME ServiceTypeOK, [ServiceNext]_serviceVars, NEW c \in Device, KeyBacked(c)
    PROVE  KeyBacked(c)'
  <1>1. ASSUME NEW d \in Device, Handler(d) PROVE KeyBacked(c)'
    <2>1. CASE c = d
      BY <1>1, <2>1, KeyBackedByHandler
    <2>2. CASE c # d
      BY <1>1, <2>2, OthersKept DEF KeyBacked
    <2> QED BY <2>1, <2>2
  <1>2. CASE UNCHANGED <<inventory, keys, status, state, trustedKey, lastEvent, auditLog, failures>>
    BY <1>2 DEF KeyBacked
  <1> QED BY <1>1, <1>2, DevicesKept DEF ServiceNext

LEMMA SincereStep ==
    ASSUME ServiceTypeOK, [ServiceNext]_serviceVars,
           NEW c \in Device, KeyBacked(c), Sincere(c)
    PROVE  Sincere(c)'
  <1> USE DEF Sincere, UnderCurrentKey, Untainted, EventExplains
  <1>1. ASSUME NEW d \in Device, Handler(d) PROVE Sincere(c)'
    <2>1. CASE c = d
      BY <1>1, <2>1, SincereByHandler
    <2>2. CASE c # d
      BY <1>1, <2>2, OthersKept
    <2> QED BY <2>1, <2>2
  <1>2. CASE UNCHANGED <<inventory, keys, status, state, trustedKey, lastEvent, auditLog, failures>>
    BY <1>2
  <1> QED BY <1>1, <1>2, DevicesKept DEF ServiceNext

LEMMA ExplainsStep ==
    ASSUME ServiceTypeOK, [ServiceNext]_serviceVars,
           NEW c \in Device, Explains(auditLog[c], state[c])
    PROVE  Explains(auditLog'[c], state'[c])
  <1>1. auditLog[c] \in Seq(AuditRow)
    BY DEF ServiceTypeOK
  <1> QED BY <1>1, AuditedStep, AppendExplains DEF Audited

LEMMA TrustInvInit == ServiceInit => TrustInv
  BY DEF ServiceInit, IdentityInit, TrustInv, KeyBacked, Sincere, UnderCurrentKey, Untainted,
         EventExplains, FailuresOf, Explains

LEMMA TrustInvStep == ServiceTypeOK /\ TrustInv /\ [ServiceNext]_serviceVars => TrustInv'
  <1> SUFFICES ASSUME ServiceTypeOK, TrustInv, [ServiceNext]_serviceVars, NEW c \in Device
               PROVE  KeyBacked(c)' /\ Sincere(c)' /\ Explains(auditLog'[c], state'[c])
    BY DEF TrustInv
  <1>1. KeyBacked(c) /\ Sincere(c) /\ Explains(auditLog[c], state[c])
    BY DEF TrustInv
  <1> QED BY <1>1, KeyBackedStep, SincereStep, ExplainsStep

LEMMA TrustCorrect == ServiceSafety => [](ServiceTypeOK /\ TrustInv)
  BY TrustInvInit, TrustInvStep, ServiceTypeCorrect, PTL DEF ServiceSafety

(* The audit log alone explains the state of every device, after any handlers.       *)
THEOREM AuditAlwaysExplains == ServiceSafety => []AuditExplainsState
  <1>1. TrustInv => AuditExplainsState
    BY DEF TrustInv, AuditExplainsState
  <1> QED BY <1>1, TrustCorrect, PTL

-----------------------------------------------------------------------------------
(* The two logs.                                                                     *)

(* A request that changed nothing is of no matter to the audit log.                  *)
LEMMA IdleRecounts ==
    ASSUME NEW audit \in Seq(AuditRow), NEW log \in Seq(EnforcementRow),
           NEW row \in EnforcementRow, Recounts(audit, log), ~Changed(row)
    PROVE  Recounts(audit, Append(log, row))
  <1> DEFINE longer == Append(log, row)
  <1>1. PICK at \in [DOMAIN audit -> DOMAIN log] :
            /\ {at[i] : i \in DOMAIN audit} = {k \in DOMAIN log : Changed(log[k])}
            /\ \A i, j \in DOMAIN audit : i < j => at[i] < at[j]
            /\ \A i \in DOMAIN audit :
                /\ audit[i].action = log[at[i]].action
                /\ audit[i].prev = log[at[i]].prev /\ audit[i].next = log[at[i]].next
    BY DEF Recounts
  <1>2. /\ DOMAIN log = 1 .. Len(log) /\ Len(log) \in Nat
        /\ DOMAIN longer = 1 .. Len(log) + 1
        /\ longer[Len(log) + 1] = row
        /\ \A k \in DOMAIN log : longer[k] = log[k]
    OBVIOUS
  <1> HIDE DEF longer
  <1>3. at \in [DOMAIN audit -> DOMAIN longer]
    BY <1>2
  <1>4. {k \in DOMAIN longer : Changed(longer[k])} = {k \in DOMAIN log : Changed(log[k])}
    BY <1>2
  <1>5. \A i \in DOMAIN audit : longer[at[i]] = log[at[i]]
    BY <1>2
  <1>6. {at[i] : i \in DOMAIN audit} = {k \in DOMAIN longer : Changed(longer[k])}
    BY <1>1, <1>4
  <1>7. \A i \in DOMAIN audit :
            /\ audit[i].action = longer[at[i]].action
            /\ audit[i].prev = longer[at[i]].prev /\ audit[i].next = longer[at[i]].next
    BY <1>1, <1>5
  <1>8. \A i, j \in DOMAIN audit : i < j => at[i] < at[j]
    BY <1>1
  <1>9. Recounts(audit, longer)
    BY <1>3, <1>6, <1>7, <1>8, Zenon DEF Recounts
  <1> QED BY <1>9 DEF longer

(* One that changed the state is recounted next.                                     *)
LEMMA ChangeRecounts ==
    ASSUME NEW audit \in Seq(AuditRow), NEW log \in Seq(EnforcementRow),
           NEW row \in EnforcementRow, NEW entry \in AuditRow,
           Recounts(audit, log), Changed(row),
           entry.action = row.action, entry.prev = row.prev, entry.next = row.next
    PROVE  Recounts(Append(audit, entry), Append(log, row))
  <1> DEFINE longer == Append(log, row)
             more == Append(audit, entry)
  <1>1. PICK at \in [DOMAIN audit -> DOMAIN log] :
            /\ {at[i] : i \in DOMAIN audit} = {k \in DOMAIN log : Changed(log[k])}
            /\ \A i, j \in DOMAIN audit : i < j => at[i] < at[j]
            /\ \A i \in DOMAIN audit :
                /\ audit[i].action = log[at[i]].action
                /\ audit[i].prev = log[at[i]].prev /\ audit[i].next = log[at[i]].next
    BY DEF Recounts
  <1>2. /\ DOMAIN log = 1 .. Len(log) /\ Len(log) \in Nat
        /\ DOMAIN longer = 1 .. Len(log) + 1
        /\ longer[Len(log) + 1] = row
        /\ \A k \in DOMAIN log : longer[k] = log[k]
    OBVIOUS
  <1>3. /\ DOMAIN audit = 1 .. Len(audit) /\ Len(audit) \in Nat
        /\ DOMAIN more = 1 .. Len(audit) + 1
        /\ more[Len(audit) + 1] = entry
        /\ \A i \in DOMAIN audit : more[i] = audit[i]
    OBVIOUS
  <1> DEFINE next == [i \in DOMAIN more |->
                        IF i \in DOMAIN audit THEN at[i] ELSE Len(log) + 1]
  <1> HIDE DEF longer, more
  <1>4. /\ next \in [DOMAIN more -> DOMAIN longer]
        /\ next[Len(audit) + 1] = Len(log) + 1
        /\ \A i \in DOMAIN audit : next[i] = at[i]
    BY <1>2, <1>3
  <1> HIDE DEF next
  <1>5. {next[i] : i \in DOMAIN more} = {k \in DOMAIN longer : Changed(longer[k])}
    <2>1. {next[i] : i \in DOMAIN more} = {at[i] : i \in DOMAIN audit} \cup {Len(log) + 1}
      BY <1>3, <1>4
    <2>2. {k \in DOMAIN longer : Changed(longer[k])}
            = {k \in DOMAIN log : Changed(log[k])} \cup {Len(log) + 1}
      BY <1>2
    <2> QED BY <1>1, <2>1, <2>2
  <1>6. ASSUME NEW i \in DOMAIN more, NEW j \in DOMAIN more, i < j PROVE next[i] < next[j]
    <2>1. i \in DOMAIN audit /\ (j \in DOMAIN audit \/ j = Len(audit) + 1)
      BY <1>3, <1>6
    <2>2. at[i] \in 1 .. Len(log)
      BY <1>2, <2>1
    <2> QED BY <1>1, <1>2, <1>4, <1>6, <2>1, <2>2
  <1>7. ASSUME NEW i \in DOMAIN more
        PROVE  /\ more[i].action = longer[next[i]].action
               /\ more[i].prev = longer[next[i]].prev /\ more[i].next = longer[next[i]].next
    <2>1. CASE i \in DOMAIN audit
      <3>1. at[i] \in DOMAIN log
        BY <2>1
      <3>2. more[i] = audit[i] /\ longer[next[i]] = log[at[i]]
        BY <1>2, <1>3, <1>4, <2>1, <3>1
      <3> QED BY <1>1, <2>1, <3>2
    <2>2. CASE i = Len(audit) + 1
      BY <1>2, <1>3, <1>4, <2>2
    <2> QED BY <1>3, <2>1, <2>2
  <1>8. Recounts(more, longer)
    BY <1>4, <1>5, <1>6, <1>7 DEF Recounts
  <1> QED BY <1>8 DEF more, longer

(* A policy decision writes both logs or the enforcement log alone.                  *)
LEMMA EnforcedRecounts ==
    ASSUME ServiceTypeOK, NEW d \in Device, NEW action \in PolicyAction, Enforced(d, action),
           Recounts(auditLog[d], enforcementLog[d])
    PROVE  Recounts(auditLog'[d], enforcementLog'[d])
  <1> DEFINE decision == Decide(action, state[d], CurrentIdentityStatus(d), dryRun)
             entry == [action |-> action, prev |-> state[d], next |-> decision.next]
             row == [action |-> action, prev |-> state[d], next |-> decision.next,
                     result |-> decision.result]
  <1>1. /\ decision.result \in {"applied", "blocked"} /\ decision.next \in DeviceState
        /\ state[d] \in DeviceState
    BY StatusType, DecisionFacts DEF ServiceTypeOK
  <1>2. entry \in AuditRow /\ row \in EnforcementRow
    BY <1>1 DEF AuditRow, EnforcementRow
  <1>3. /\ auditLog[d] \in Seq(AuditRow) /\ enforcementLog[d] \in Seq(EnforcementRow)
        /\ enforcementLog'[d] = Append(enforcementLog[d], row)
        /\ auditLog'[d] = IF Changed(row) THEN Append(auditLog[d], entry) ELSE auditLog[d]
    BY DEF Enforced, AuditAfter, Changed, ServiceTypeOK
  <1>4. entry.action = row.action /\ entry.prev = row.prev /\ entry.next = row.next
    OBVIOUS
  <1> HIDE DEF entry, row
  <1>5. CASE Changed(row)
    BY <1>2, <1>3, <1>4, <1>5, ChangeRecounts
  <1>6. CASE ~Changed(row)
    BY <1>2, <1>3, <1>6, IdleRecounts
  <1> QED BY <1>5, <1>6

LEMMA RecountsStep ==
    ASSUME ServiceTypeOK, [ServiceNext]_serviceVars, NEW c \in Device,
           Recounts(auditLog[c], enforcementLog[c])
    PROVE  Recounts(auditLog'[c], enforcementLog'[c])
  <1>1. ASSUME NEW d \in Device, NEW action \in PolicyAction, Enforced(d, action)
        PROVE  Recounts(auditLog'[c], enforcementLog'[c])
    <2>1. CASE c = d
      BY <1>1, <2>1, EnforcedRecounts
    <2>2. CASE c # d
      BY <1>1, <2>2, EnforcedEffect
    <2> QED BY <2>1, <2>2
  <1>2. CASE \E d \in Device, action \in PolicyAction : Enforced(d, action)
    BY <1>1, <1>2
  <1>3. CASE UNCHANGED <<auditLog, enforcementLog>>
    BY <1>3
  <1> QED
    BY <1>2, <1>3
    DEF ServiceNext, Handler, Restart, ClockTick, CreatePlaceholder, UpsertIdentityKey,
        IssueProvisioningToken, GetIdentityProfile, ApplyPolicy, ArchiveDevice,
        RestoreDevice, ReportMismatched, Report, ReportThrows, ReportRefused,
        ReportVerified, ReportUnprovisioned, ReportProvisioned, MarkVerified,
        serviceVars, deviceVars, logVars, PolicyAction

(* The audit log is the requests of the enforcement log that changed the state, over *)
(* blocked, repeated, dry and archive-driven requests (applyPolicy).                 *)
THEOREM LogsAgree == ServiceSafety => []AuditMatchesEnforcement
  <1>1. ServiceInit => AuditMatchesEnforcement
    <2>1. Recounts(<<>>, <<>>)
      <3>1. <<>> \in [DOMAIN <<>> -> DOMAIN <<>>] /\ DOMAIN <<>> = {}
        OBVIOUS
      <3> QED BY <3>1 DEF Recounts
    <2> QED BY <2>1 DEF ServiceInit, AuditMatchesEnforcement
  <1>2. ServiceTypeOK /\ AuditMatchesEnforcement /\ [ServiceNext]_serviceVars
            => AuditMatchesEnforcement'
    BY RecountsStep DEF AuditMatchesEnforcement
  <1> QED BY <1>1, <1>2, ServiceTypeCorrect, PTL DEF ServiceSafety

(* A verified device proved the key it has now, whatever keys it had before.         *)
THEOREM VerifiedUnderCurrent == ServiceSafety => []VerifiedUnderCurrentKey
  <1>1. TrustInv => VerifiedUnderCurrentKey
    BY DEF TrustInv, Sincere, VerifiedUnderCurrentKey
  <1> QED BY <1>1, TrustCorrect, PTL

(* Any device that is trusted or let in had a key configured.                        *)
THEOREM TrustRestsOnKeys == ServiceSafety => []KeyBacksTrust
  <1>1. TrustInv => KeyBacksTrust
    BY DEF TrustInv, KeyBacked, KeyBacksTrust
  <1> QED BY <1>1, TrustCorrect, PTL

(* A status that looks harmless goes with no failure on record.                      *)
THEOREM HarmlessIsUntainted == ServiceSafety => []FailuresMeanDistrust
  <1>1. TrustInv => FailuresMeanDistrust
    BY DEF TrustInv, Sincere, FailuresMeanDistrust
  <1> QED BY <1>1, TrustCorrect, PTL

(* The latest identity event explains the status.                                    *)
THEOREM StatusIsExplained == ServiceSafety => []EventsExplainStatus
  <1>1. TrustInv => EventsExplainStatus
    BY DEF TrustInv, Sincere, EventsExplainStatus
  <1> QED BY <1>1, TrustCorrect, PTL

(* The dashboard's copy of the policy, which sees the stored status only, offers     *)
(* exactly the requests that would change something, archived devices aside.         *)
THEOREM OffersAgree == ServiceSafety => []OffersMatchPolicy
  <1>1. ServiceTypeOK /\ TrustInv => OffersMatchPolicy
    <2> SUFFICES ASSUME ServiceTypeOK, TrustInv,
                        NEW d \in inventory, NEW action \in PolicyAction
                 PROVE  LET decision == Decide(action, state[d], CurrentIdentityStatus(d), FALSE)
                            effective == decision.result = "applied" /\ decision.next # state[d]
                        IN /\ Offered(d, action) => effective
                           /\ effective => Offered(d, action) \/ archived[d]
      BY DEF OffersMatchPolicy
    <2> DEFINE decision == Decide(action, state[d], CurrentIdentityStatus(d), FALSE)
    <2>1. d \in Device
      BY DEF ServiceTypeOK, IdentityTypeOK
    <2>2. /\ state[d] \in DeviceState /\ status[d] \in IdentityStatus
          /\ CurrentIdentityStatus(d) \in IdentityStatus
      BY <2>1, StatusType DEF ServiceTypeOK
    <2>3. IF action = "allow" /\ CurrentIdentityStatus(d) \in {"pending", "invalid", "locked"}
          THEN decision.result = "blocked" /\ decision.next = state[d]
          ELSE decision.result = "applied" /\ decision.next = Target(action)
      BY <2>2, RealDecision
    <2>4. CurrentIdentityStatus(d) \in {"pending", "invalid", "locked"}
            <=> status[d] \in {"pending", "invalid", "locked"}
      <3>1. LockedOut(KeptFailures(failures, now), d, now) => FailuresOf(failures, d) # {}
        BY DEF LockedOut, RecentFailures, FailuresOf, KeptFailures
      <3>2. status[d] \in {"pending", "enrolled", "verified"} => FailuresOf(failures, d) = {}
        BY <2>1 DEF TrustInv, Sincere, Untainted
      <3> QED BY <2>2, <3>1, <3>2 DEF CurrentIdentityStatus, IdentityStatus
    <2> QED BY <2>3, <2>4 DEF Offered
  <1> QED BY <1>1, TrustCorrect, PTL

-----------------------------------------------------------------------------------
(* What a step may do.                                                               *)

(* A device becomes allowed only while its identity is in no doubt.                  *)
THEOREM AllowsNeedTrust == ServiceSafety => AllowNeedsTrust
  <1> DEFINE Trusted(d) ==
        state[d] # "allowed" /\ state'[d] = "allowed" =>
            /\ status[d] \in {"enrolled", "verified"}
            /\ ~LockedOut(failures, d, now)
            /\ status'[d] = status[d]
  <1>1. ServiceTypeOK /\ TrustInv /\ [ServiceNext]_serviceVars
          => [\A d \in Device : Trusted(d)]_serviceVars
    <2> SUFFICES ASSUME ServiceTypeOK, TrustInv, ServiceNext, NEW c \in Device,
                        state[c] # "allowed", state'[c] = "allowed"
                 PROVE  /\ status[c] \in {"enrolled", "verified"}
                        /\ ~LockedOut(failures, c, now)
                        /\ status'[c] = status[c]
      OBVIOUS
    <2>1. PICK d \in Device, action \in PolicyAction : Enforced(d, action) /\ status' = status
      BY DEF ServiceNext, Handler, Restart, ClockTick, CreatePlaceholder, UpsertIdentityKey,
             IssueProvisioningToken, GetIdentityProfile, ApplyPolicy, ArchiveDevice,
             RestoreDevice, ReportMismatched, Report, ReportThrows, ReportRefused,
             ReportVerified, ReportUnprovisioned, ReportProvisioned, deviceVars, PolicyAction
    <2>2. c = d
      BY <2>1, EnforcedEffect
    <2> QED BY <2>1, <2>2, EnforcedEffect
  <1> QED BY <1>1, TrustCorrect, PTL DEF ServiceSafety, AllowNeedsTrust

(* An enrolled device is verified by using up the live token of its enrollment.      *)
THEOREM FirstVerificationsUseTokens == ServiceSafety => FirstVerificationUsesToken
  <1> DEFINE Provisioned(d) ==
        status[d] = "enrolled" /\ status'[d] = "verified" =>
            /\ tokens[d].token # NoToken
            /\ ~tokens[d].consumed
            /\ now < tokens[d].expiresAt
            /\ tokens'[d] = Consumed(tokens[d])
  <1>1. ServiceTypeOK /\ [ServiceNext]_serviceVars
          => [\A d \in Device : Provisioned(d)]_serviceVars
    <2> SUFFICES ASSUME ServiceTypeOK, ServiceNext, NEW c \in Device,
                        status[c] = "enrolled", status'[c] = "verified"
                 PROVE  Provisioned(c)
      OBVIOUS
    <2>1. PICK d \in Device, m \in Heartbeat :
            ReportVerified(d, m) \/ \E x \in 0 .. issued : ReportProvisioned(d, m, x)
      BY DEF ServiceNext, Handler, Restart, ClockTick, CreatePlaceholder, UpsertIdentityKey,
             IssueProvisioningToken, GetIdentityProfile, ApplyPolicy, ArchiveDevice,
             RestoreDevice, ReportMismatched, Report, ReportThrows, ReportRefused,
             ReportUnprovisioned, deviceVars, ServiceTypeOK
    <2>2. c = d
      BY <2>1 DEF ReportVerified, ReportProvisioned, MarkVerified, ServiceTypeOK
    <2>3. PICK x \in 0 .. issued : ReportProvisioned(d, m, x)
      BY <2>1, <2>2 DEF ReportVerified
    <2> QED BY <2>2, <2>3 DEF ReportProvisioned, Consumable, ServiceTypeOK
  <1> QED BY <1>1, ServiceTypeCorrect, PTL DEF ServiceSafety, FirstVerificationUsesToken

(* A dry run changes no state and claims no change in the audit log, whatever came   *)
(* before the process was started in it.                                             *)
THEOREM DryRunStaysInert == ServiceSafety => DryRunInert
  <1>1. ServiceTypeOK /\ [ServiceNext]_serviceVars
          => [dryRun => UNCHANGED <<state, auditLog>>]_serviceVars
    <2> SUFFICES ASSUME ServiceTypeOK, ServiceNext, dryRun
                 PROVE  UNCHANGED <<state, auditLog>>
      OBVIOUS
    <2>1. ASSUME NEW d \in Device, NEW action \in PolicyAction, Enforced(d, action)
          PROVE  UNCHANGED <<state, auditLog>>
      <3> DEFINE decision == Decide(action, state[d], CurrentIdentityStatus(d), dryRun)
      <3>0. dryRun = TRUE /\ state[d] \in DeviceState /\ CurrentIdentityStatus(d) \in IdentityStatus
        BY StatusType DEF ServiceTypeOK
      <3>1. decision.next = state[d]
        BY <3>0, DryDecision
      <3>2. /\ state' = [state EXCEPT ![d] = decision.next]
            /\ auditLog' = AuditAfter(d, action, decision)
        BY <2>1 DEF Enforced
      <3> QED BY <3>1, <3>2 DEF ServiceTypeOK, AuditAfter
    <2>2. CASE \E d \in Device, action \in PolicyAction : Enforced(d, action)
      BY <2>1, <2>2
    <2>3. CASE UNCHANGED <<state, logVars>>
      BY <2>3 DEF logVars
    <2> QED
      BY <2>2, <2>3
      DEF ServiceNext, Handler, Restart, ClockTick, CreatePlaceholder, UpsertIdentityKey,
          IssueProvisioningToken, GetIdentityProfile, ApplyPolicy, ArchiveDevice,
          RestoreDevice, ReportMismatched, Report, ReportThrows, ReportRefused,
          ReportVerified, ReportUnprovisioned, ReportProvisioned, MarkVerified,
          deviceVars, logVars, PolicyAction
  <1> QED BY <1>1, ServiceTypeCorrect, PTL DEF ServiceSafety, DryRunInert

-----------------------------------------------------------------------------------
(* Refinement of TrustLifecycle.                                                     *)

(* A step that keeps the rows and the statuses keeps the trust in every device.      *)
LEMMA SameTrust ==
    ASSUME UNCHANGED <<inventory, status>>
    PROVE  [d \in Device |-> Trust(d)]' = [d \in Device |-> Trust(d)]
  BY DEF Trust

(* A policy decision is an Allow, a Deny or no change at all.                        *)
LEMMA EnforcedIsAllowOrDeny ==
    ASSUME ServiceTypeOK, TrustInv, NEW d \in Device, d \in inventory,
           NEW action \in PolicyAction, Enforced(d, action), UNCHANGED <<inventory, status>>
    PROVE  [Lifecycle!Next]_(Lifecycle!vars)
  <1> DEFINE decision == Decide(action, state[d], CurrentIdentityStatus(d), dryRun)
  <1>1. /\ state' = [state EXCEPT ![d] = decision.next]
        /\ decision.next \in {state[d], Target(action)}
        /\ decision.next = "allowed" /\ state[d] # "allowed"
             => status[d] \in {"enrolled", "verified"}
    <2>1. state' = [state EXCEPT ![d] = decision.next]
      BY DEF Enforced
    <2>2. decision.next \in {state[d], Target(action)}
      BY StatusType, DecisionFacts DEF ServiceTypeOK
    <2>3. state'[d] = "allowed" /\ state[d] # "allowed" => status[d] \in {"enrolled", "verified"}
      BY EnforcedEffect
    <2>4. state'[d] = decision.next
      BY <2>1 DEF ServiceTypeOK
    <2> QED BY <2>1, <2>2, <2>3, <2>4
  <1>2. CASE decision.next = state[d]
    BY <1>1, <1>2, SameTrust DEF Lifecycle!vars, ServiceTypeOK
  <1>3. CASE decision.next # state[d] /\ action = "allow"
    <2>1. Lifecycle!Allow(d)
      BY <1>1, <1>3, SameTrust DEF Lifecycle!Allow, Trust, Target
    <2> QED BY <2>1 DEF Lifecycle!Next
  <1>4. CASE decision.next # state[d] /\ action = "deny"
    <2>1. Lifecycle!Deny(d)
      BY <1>1, <1>4, SameTrust DEF Lifecycle!Deny, Trust, Target, ServiceTypeOK, IdentityStatus
    <2> QED BY <2>1 DEF Lifecycle!Next
  <1> QED BY <1>2, <1>3, <1>4 DEF PolicyAction

LEMMA StepIsLifecycleStep ==
    ServiceTypeOK /\ TrustInv /\ [ServiceNext]_serviceVars => [Lifecycle!Next]_(Lifecycle!vars)
  <1> SUFFICES ASSUME ServiceTypeOK, TrustInv, [ServiceNext]_serviceVars
               PROVE  [Lifecycle!Next]_(Lifecycle!vars)
    OBVIOUS
  <1> USE DEF deviceVars
  <1> DEFINE trust == [d \in Device |-> Trust(d)]
  <1>0. ASSUME UNCHANGED <<inventory, state, status>> PROVE UNCHANGED Lifecycle!vars
    BY <1>0, SameTrust DEF Lifecycle!vars
  <1>1. CASE ClockTick \/ UNCHANGED serviceVars
    BY <1>0, <1>1 DEF ClockTick, Tick, serviceVars, identityVars
  <1>2. ASSUME NEW d \in Device, CreatePlaceholder(d) PROVE [Lifecycle!Next]_(Lifecycle!vars)
    <2>1. CASE d \in inventory
      BY <1>0, <1>2, <2>1 DEF CreatePlaceholder, AddToInventory
    <2>2. CASE d \notin inventory
      <3>1. status'[d] = "pending" /\ trust[d] = "absent"
        BY <1>2, <2>2 DEF CreatePlaceholder, TrustInv, Sincere, Trust
      <3>2. trust' = [trust EXCEPT ![d] = "pending"]
        BY <1>2, <2>2, <3>1 DEF CreatePlaceholder, AddToInventory, Trust
      <3>3. Lifecycle!Discover(d)
        BY <1>2, <3>1, <3>2 DEF Lifecycle!Discover, CreatePlaceholder
      <3> QED BY <3>3 DEF Lifecycle!Next
    <2> QED BY <2>1, <2>2
  <1>3. ASSUME NEW d \in Device, NEW k \in Key, UpsertIdentityKey(d, k)
        PROVE  [Lifecycle!Next]_(Lifecycle!vars)
    <2>1. trust' = [trust EXCEPT ![d] = "enrolled"]
      BY <1>3 DEF UpsertIdentityKey, RotateKey, Trust, ServiceTypeOK
    <2>2. Lifecycle!Enroll(d)
      BY <1>3, <2>1 DEF Lifecycle!Enroll, UpsertIdentityKey
    <2> QED BY <2>2 DEF Lifecycle!Next
  <1>4. ASSUME NEW d \in Device, IssueProvisioningToken(d) \/ RestoreDevice(d)
        PROVE  UNCHANGED Lifecycle!vars
    BY <1>0, <1>4 DEF IssueProvisioningToken, RestoreDevice, identityVars
  <1>5. ASSUME NEW d \in Device, GetIdentityProfile(d) PROVE UNCHANGED Lifecycle!vars
    BY <1>0, <1>5 DEF GetIdentityProfile, GetSecurityState
  <1>6. ASSUME NEW d \in Device, NEW action \in PolicyAction, ApplyPolicy(d, action)
        PROVE  [Lifecycle!Next]_(Lifecycle!vars)
    BY <1>6, EnforcedIsAllowOrDeny DEF ApplyPolicy, Enforced, GetSecurityState
  <1>7. ASSUME NEW d \in Device, ArchiveDevice(d) PROVE [Lifecycle!Next]_(Lifecycle!vars)
    <2>1. CASE state[d] # "denied"
      BY <1>7, <2>1, EnforcedIsAllowOrDeny
         DEF ArchiveDevice, Enforced, GetSecurityState, PolicyAction
    <2>2. CASE state[d] = "denied"
      BY <1>0, <1>7, <2>2 DEF ArchiveDevice, identityVars
    <2> QED BY <2>1, <2>2
  <1>8. ASSUME NEW d \in Device, d \in inventory, inventory' = inventory, state' = state,
               NEW s \in {"invalid", "locked"}, status' = [status EXCEPT ![d] = s]
        PROVE  [Lifecycle!Next]_(Lifecycle!vars)
    <2>1. trust' = [trust EXCEPT ![d] = "distrusted"]
      BY <1>8 DEF Trust, ServiceTypeOK
    <2>2. Lifecycle!Distrust(d)
      BY <1>8, <2>1 DEF Lifecycle!Distrust, Trust, ServiceTypeOK, IdentityStatus
    <2> QED BY <2>2 DEF Lifecycle!Next
  <1>9. ASSUME NEW d \in Device, ReportMismatched(d) PROVE [Lifecycle!Next]_(Lifecycle!vars)
    BY <1>8, <1>9 DEF ReportMismatched, identityVars
  <1>10. ASSUME NEW d \in Device, NEW m \in Heartbeat, Report(d, m)
         PROVE  [Lifecycle!Next]_(Lifecycle!vars)
    <2>1. CASE ReportThrows(d, m)
      BY <1>0, <2>1 DEF ReportThrows, VerifyThrows
    <2>2. CASE ReportRefused(d, m)
      <3>1. d \in inventory
        <4>1. LockedOut(KeptFailures(failures, now), d, now) => FailuresOf(failures, d) # {}
          BY DEF LockedOut, RecentFailures, FailuresOf, KeptFailures
        <4> QED BY <2>2, <4>1
                DEF ReportRefused, VerifyLockedOut, VerifyRejected, TrustInv, Sincere, Untainted
      <3>2. inventory' = inventory /\ state' = state
        BY <2>2 DEF ReportRefused, VerifyLockedOut, VerifyRejected
      <3>3. \E s \in {"invalid", "locked"} : status' = [status EXCEPT ![d] = s]
        BY <2>2 DEF ReportRefused
      <3> QED BY <1>8, <3>1, <3>2, <3>3
    <2>3. ASSUME VerifyValid(d, m), MarkVerified(d, m), state' = state
          PROVE  [Lifecycle!Next]_(Lifecycle!vars)
      <3>1. d \in inventory /\ inventory' = inventory /\ keys[d] # NoKey
        BY <2>3 DEF VerifyValid, Accepts
      <3>2. trust[d] \in {"enrolled", "verified", "distrusted"}
        BY <3>1 DEF TrustInv, Sincere, Trust, ServiceTypeOK, IdentityStatus
      <3>3. trust' = [trust EXCEPT ![d] = "verified"]
        BY <2>3, <3>1 DEF MarkVerified, Trust, ServiceTypeOK
      <3>4. Lifecycle!Verify(d)
        BY <2>3, <3>2, <3>3 DEF Lifecycle!Verify
      <3> QED BY <3>4 DEF Lifecycle!Next
    <2>4. CASE ReportVerified(d, m)
      BY <2>3, <2>4 DEF ReportVerified
    <2>5. ASSUME NEW x \in 0 .. issued, ReportProvisioned(d, m, x)
          PROVE  [Lifecycle!Next]_(Lifecycle!vars)
      BY <2>3, <2>5 DEF ReportProvisioned
    <2>6. ASSUME NEW x \in 0 .. issued, ReportUnprovisioned(d, m, x)
          PROVE  UNCHANGED Lifecycle!vars
      BY <1>0, <2>6 DEF ReportUnprovisioned, VerifyValid
    <2> QED BY <1>10, <2>1, <2>2, <2>4, <2>5, <2>6 DEF Report
  <1>11. ASSUME NEW dry \in DryRuns, Restart(dry) PROVE UNCHANGED Lifecycle!vars
    BY <1>0, <1>11 DEF Restart, identityVars
  <1> QED BY <1>1, <1>2, <1>3, <1>4, <1>5, <1>6, <1>7, <1>9, <1>10, <1>11
          DEF ServiceNext, Handler

(* The service implements the lifecycle of trust and access it promises.             *)
THEOREM ServiceImplementsLifecycle == ServiceSafety => ImplementsLifecycle
  <1>1. ServiceInit => Lifecycle!Init
    BY DEF ServiceInit, Lifecycle!Init, Trust
  <1> QED BY <1>1, StepIsLifecycleStep, TrustCorrect, PTL
          DEF ServiceSafety, ImplementsLifecycle, Lifecycle!Spec
=============================================================================
