------------------------------ MODULE DevicesService ------------------------------
(* DevicesService over the repositories and services it calls: the devices table     *)
(* (its trust and policy columns), the identity tables of DeviceIdentity, the        *)
(* provisioning tokens and the logs an operator later reads.  One action per HTTP    *)
(* handler: handlers are synchronous, so they do not interleave.                     *)
(* Rows of devices are never deleted; the columns of an id with no row hold the      *)
(* values that every handler inserts ("unknown", "pending", not archived).           *)
EXTENDS DeviceIdentity, PolicyEngine, ProvisioningTokens, Sequences

CONSTANTS
    Seeded,     \* the devices seedDefaults inserts
    DryRuns,    \* the settings of ENFORCEMENT_DRY_RUN a process is started with
    MaxTokens,  \* bound: tokens issued
    MaxLog      \* bound: policy requests per device

ASSUME SeededAssumption == Seeded \subseteq Device
ASSUME DryRunAssumption == DryRuns \subseteq BOOLEAN
ASSUME ServiceBoundAssumption == MaxTokens \in Nat /\ MaxLog \in Nat

VARIABLES
    dryRun,          \* dryRunMode, read from the environment at start
    state,           \* devices.state
    status,          \* devices.identity_status
    archived,        \* devices.archived_at is set
    tokens,          \* device_provisioning_tokens
    issued,          \* how many tokens were issued: the latest one is number issued
    auditLog,        \* audit_logs of each device, oldest first
    enforcementLog,  \* enforcement_logs of each device, oldest first
    lastEvent,       \* the latest identity event of each device in event_logs
    trustedKey       \* history: the key that signed the latest heartbeat that led to verified

deviceVars == <<state, status, archived>>
tokenVars == <<tokens, issued>>
logVars == <<auditLog, enforcementLog>>
serviceVars ==
    <<dryRun, identityVars, deviceVars, tokenVars, logVars, lastEvent, trustedKey>>

IdentityEvent == {"none", "key_rotated", "verified", "failed", "failed_locked"}
AuditRow == [action : PolicyAction, prev : DeviceState, next : DeviceState]
EnforcementRow ==
    [action : PolicyAction, prev : DeviceState, next : DeviceState,
     result : {"applied", "blocked"}]

ServiceTypeOK ==
    /\ IdentityTypeOK
    /\ dryRun \in BOOLEAN
    /\ state \in [Device -> DeviceState]
    /\ status \in [Device -> IdentityStatus]
    /\ archived \in [Device -> BOOLEAN]
    /\ tokens \in [Device -> TokenRow]
    /\ issued \in Nat
    /\ auditLog \in [Device -> Seq(AuditRow)]
    /\ enforcementLog \in [Device -> Seq(EnforcementRow)]
    /\ lastEvent \in [Device -> IdentityEvent]
    /\ trustedKey \in [Device -> Key \cup {NoKey}]

-----------------------------------------------------------------------------------
(* Inventory and enrollment.                                                         *)

(* A file that this version created and seeded; README says what an upgraded one may *)
(* hold instead.                                                                     *)
ServiceInit ==
    /\ IdentityInit
    /\ inventory = Seeded
    /\ dryRun \in DryRuns
    /\ state = [d \in Device |-> "unknown"]
    /\ status = [d \in Device |-> "pending"]
    /\ archived = [d \in Device |-> FALSE]
    /\ tokens = [d \in Device |-> NoTokenRow]
    /\ issued = 0
    /\ auditLog = [d \in Device |-> <<>>]
    /\ enforcementLog = [d \in Device |-> <<>>]
    /\ lastEvent = [d \in Device |-> "none"]
    /\ trustedKey = [d \in Device |-> NoKey]

ClockTick ==
    /\ Tick
    /\ UNCHANGED <<dryRun, deviceVars, tokenVars, logVars, lastEvent, trustedKey>>

(* Mutant: the record of a device that exists starts over.                           *)
CreatePlaceholderAfresh(d) ==
    /\ AddToInventory(d)
    /\ state' = [state EXCEPT ![d] = "unknown"]
    /\ status' = [status EXCEPT ![d] = "pending"]
    /\ UNCHANGED <<archived, tokenVars, logVars, lastEvent, trustedKey>>
(* A device that exists keeps every column modelled here.                            *)
CreatePlaceholder(d) ==
    /\ AddToInventory(d)
    /\ UNCHANGED <<deviceVars, tokenVars, logVars, lastEvent, trustedKey>>

IssueToken(d) ==
    /\ issued < MaxTokens
    /\ tokens' = [tokens EXCEPT ![d] = IssuedToken(issued + 1, now)]
    /\ issued' = issued + 1

(* Mutant: a key that only changes leaves the device as verified as it was.          *)
UpsertIdentityKeyKeepingTrust(d, k) ==
    /\ RotateKey(d, k)
    /\ IssueToken(d)
    /\ status' = [status EXCEPT ![d] = IF @ = "verified" THEN @ ELSE "enrolled"]
    /\ lastEvent' = [lastEvent EXCEPT ![d] = "key_rotated"]
    /\ UNCHANGED <<state, archived, logVars, trustedKey>>
(* enrollDevice and setIdentityKey.                                                  *)
UpsertIdentityKey(d, k) ==
    /\ RotateKey(d, k)
    /\ IssueToken(d)
    /\ status' = [status EXCEPT ![d] = "enrolled"]
    /\ lastEvent' = [lastEvent EXCEPT ![d] = "key_rotated"]
    /\ UNCHANGED <<state, archived, logVars, trustedKey>>

IssueProvisioningToken(d) ==
    /\ d \in inventory
    /\ status[d] = "enrolled"
    /\ keys[d] # NoKey
    /\ IssueToken(d)
    /\ UNCHANGED <<identityVars, deviceVars, logVars, lastEvent, trustedKey>>

(* Reads the profile, and getSecurityState deletes expired failures on the way.      *)
GetIdentityProfile(d) ==
    /\ d \in inventory
    /\ GetSecurityState
    /\ UNCHANGED <<deviceVars, tokenVars, logVars, lastEvent, trustedKey>>

-----------------------------------------------------------------------------------
(* Policy.                                                                           *)

(* Mutant: the stored status is taken for the current one.                           *)
StoredIdentityStatus(d) == status[d]
(* The status applyPolicy decides on: a lockout overrides the stored one.            *)
CurrentIdentityStatus(d) ==
    IF LockedOut(KeptFailures(failures, now), d, now) THEN "locked" ELSE status[d]

(* Mutant: an enforcement that succeeded is audited, changed or not.                 *)
AuditEveryApplied(d, action, decision) ==
    IF decision.result = "applied"
    THEN [auditLog EXCEPT ![d] =
            Append(@, [action |-> action, prev |-> state[d], next |-> decision.next])]
    ELSE auditLog
AuditAfter(d, action, decision) ==
    IF decision.result = "applied" /\ decision.next # state[d]
    THEN [auditLog EXCEPT ![d] =
            Append(@, [action |-> action, prev |-> state[d], next |-> decision.next])]
    ELSE auditLog

(* The body of applyPolicy; archiveDevice calls it too.                              *)
Enforced(d, action) ==
    LET decision == Decide(action, state[d], CurrentIdentityStatus(d), dryRun) IN
    /\ Len(enforcementLog[d]) < MaxLog
    /\ GetSecurityState
    /\ state' = [state EXCEPT ![d] = decision.next]
    /\ auditLog' = AuditAfter(d, action, decision)
    /\ enforcementLog' = [enforcementLog EXCEPT ![d] =
            Append(@, [action |-> action, prev |-> state[d], next |-> decision.next,
                       result |-> decision.result])]

ApplyPolicy(d, action) ==
    /\ d \in inventory
    /\ Enforced(d, action)
    /\ UNCHANGED <<status, archived, tokenVars, lastEvent, trustedKey>>

(* A device that is not denied yet is denied first, by the same decision.            *)
ArchiveDevice(d) ==
    /\ d \in inventory
    /\ ~archived[d]
    /\ IF state[d] # "denied" THEN Enforced(d, "deny")
       ELSE UNCHANGED <<identityVars, state, logVars>>
    /\ archived' = [archived EXCEPT ![d] = TRUE]
    /\ UNCHANGED <<status, tokenVars, lastEvent, trustedKey>>

(* Mutant: a restored device starts with a clean security state.                     *)
RestoreDeviceForgiving(d) ==
    /\ archived[d]
    /\ archived' = [archived EXCEPT ![d] = FALSE]
    /\ failures' = failures \ FailuresOf(failures, d)
    /\ UNCHANGED <<now, inventory, keys, nonces, accepted>>
    /\ UNCHANGED <<state, status, tokenVars, logVars, lastEvent, trustedKey>>
RestoreDevice(d) ==
    /\ archived[d]
    /\ archived' = [archived EXCEPT ![d] = FALSE]
    /\ UNCHANGED <<identityVars, state, status, tokenVars, logVars, lastEvent, trustedKey>>

(* The buttons of the dashboard's row: what allowDisabledReason and                  *)
(* denyDisabledReason leave enabled.                                                 *)
Offered(d, action) ==
    /\ ~archived[d]
    /\ state[d] # Target(action)
    /\ action = "allow" => status[d] \notin {"pending", "invalid", "locked"}

-----------------------------------------------------------------------------------
(* reportSignedDeviceHeartbeat for the device id d of the payload.                   *)

(* The header names another device: nothing is verified.  With no row to update, the *)
(* only trace is an event of no device.                                              *)
ReportMismatched(d) ==
    /\ d \in inventory
    /\ status' = [status EXCEPT ![d] = "invalid"]
    /\ lastEvent' = [lastEvent EXCEPT ![d] = "failed"]
    /\ UNCHANGED <<identityVars, state, archived, tokenVars, logVars, trustedKey>>

(* verify throws on the foreign key before any device is upserted.                   *)
ReportThrows(d, m) ==
    /\ VerifyThrows(d, m)
    /\ UNCHANGED <<deviceVars, tokenVars, logVars, lastEvent, trustedKey>>

(* Mutant: the lockout decides the answer's code, the row says invalid either way.   *)
ReportRefusedInvalid(d, m) ==
    /\ VerifyLockedOut(d, m) \/ VerifyRejected(d, m)
    /\ status' = [status EXCEPT ![d] = "invalid"]
    /\ lastEvent' = [lastEvent EXCEPT ![d] =
            IF LockedOut(failures', d, now) THEN "failed_locked" ELSE "failed"]
    /\ UNCHANGED <<state, archived, tokenVars, logVars, trustedKey>>
(* The refusal itself may be the failure that locks the device out.                  *)
ReportRefused(d, m) ==
    /\ VerifyLockedOut(d, m) \/ VerifyRejected(d, m)
    /\ LET locked == LockedOut(failures', d, now) IN
       /\ status' = [status EXCEPT ![d] = IF locked THEN "locked" ELSE "invalid"]
       /\ lastEvent' = [lastEvent EXCEPT ![d] = IF locked THEN "failed_locked" ELSE "failed"]
    /\ UNCHANGED <<state, archived, tokenVars, logVars, trustedKey>>

(* The signature holds, the provisioning token x of an enrolled device does not.     *)
ReportUnprovisioned(d, m, x) ==
    /\ VerifyValid(d, m)
    /\ status[d] = "enrolled"
    /\ ~Consumable(tokens[d], x, now)
    /\ lastEvent' = [lastEvent EXCEPT ![d] = "failed"]
    /\ UNCHANGED <<deviceVars, tokenVars, logVars, trustedKey>>

MarkVerified(d, m) ==
    /\ status' = [status EXCEPT ![d] = "verified"]
    /\ lastEvent' = [lastEvent EXCEPT ![d] = "verified"]
    /\ trustedKey' = [trustedKey EXCEPT ![d] = m.key]

ReportProvisioned(d, m, x) ==
    /\ VerifyValid(d, m)
    /\ status[d] = "enrolled"
    /\ Consumable(tokens[d], x, now)
    /\ tokens' = [tokens EXCEPT ![d] = Consumed(@)]
    /\ MarkVerified(d, m)
    /\ UNCHANGED <<state, archived, issued, logVars>>

(* Any other status the row has, "invalid" and "locked" too, asks for no token.      *)
ReportVerified(d, m) ==
    /\ VerifyValid(d, m)
    /\ status[d] # "enrolled"
    /\ MarkVerified(d, m)
    /\ UNCHANGED <<state, archived, tokenVars, logVars>>

Report(d, m) ==
    \/ ReportThrows(d, m)
    \/ ReportRefused(d, m)
    \/ ReportVerified(d, m)
    \/ \E x \in 0 .. issued : ReportUnprovisioned(d, m, x) \/ ReportProvisioned(d, m, x)

Handler(d) ==
    \/ CreatePlaceholder(d)
    \/ \E k \in Key : UpsertIdentityKey(d, k)
    \/ IssueProvisioningToken(d)
    \/ GetIdentityProfile(d)
    \/ \E action \in PolicyAction : ApplyPolicy(d, action)
    \/ ArchiveDevice(d)
    \/ RestoreDevice(d)
    \/ ReportMismatched(d)
    \/ \E m \in Heartbeat : Report(d, m)

(* The server is stopped between two handlers and started with another setting.      *)
Restart(dry) ==
    /\ dryRun' = dry
    /\ UNCHANGED <<identityVars, deviceVars, tokenVars, logVars, lastEvent, trustedKey>>

ServiceNext ==
    \/ ClockTick
    \/ \E d \in Device : Handler(d) /\ UNCHANGED dryRun
    \/ \E dry \in DryRuns : Restart(dry)

ServiceSafety == ServiceInit /\ [][ServiceNext]_serviceVars
(* Time passes; nothing obliges a device or an operator to act.                      *)
ServiceSpec == ServiceSafety /\ WF_serviceVars(ClockTick)

-----------------------------------------------------------------------------------
Explains(log, st) ==
    /\ \A i \in 1 .. Len(log) :
        /\ log[i].prev = IF i = 1 THEN "unknown" ELSE log[i - 1].next
        /\ log[i].prev # log[i].next
    /\ st = IF log = <<>> THEN "unknown" ELSE log[Len(log)].next
(* The audit log alone tells how a device came to its state: each row starts where   *)
(* the one before ended, every row is a change, and the last one ends in the state   *)
(* the inventory shows (applyPolicy against every handler that rewrites the row).    *)
AuditExplainsState == \A d \in Device : Explains(auditLog[d], state[d])

Changed(row) == row.result = "applied" /\ row.prev # row.next
Recounts(audit, log) ==
    \E at \in [DOMAIN audit -> DOMAIN log] :
        /\ {at[i] : i \in DOMAIN audit} = {k \in DOMAIN log : Changed(log[k])}
        /\ \A i, j \in DOMAIN audit : i < j => at[i] < at[j]
        /\ \A i \in DOMAIN audit :
            /\ audit[i].action = log[at[i]].action
            /\ audit[i].prev = log[at[i]].prev /\ audit[i].next = log[at[i]].next
(* The two logs agree: the audit log is the applied requests of the enforcement log  *)
(* that changed the state, in the same order.                                        *)
AuditMatchesEnforcement == \A d \in Device : Recounts(auditLog[d], enforcementLog[d])

UnderCurrentKey(d) ==
    status[d] = "verified" => keys[d] # NoKey /\ trustedKey[d] = keys[d]
(* A device shown as verified proved the key it has now, not one it had before       *)
(* (upsertIdentityKey resets the trust that an earlier key earned).                  *)
VerifiedUnderCurrentKey == \A d \in Device : UnderCurrentKey(d)

(* A device is allowed, enrolled or verified only if some key was configured for it, *)
(* whatever handlers ran since (the policy engine itself never looks at keys).       *)
KeyBacksTrust ==
    \A d \in Device :
        status[d] \in {"enrolled", "verified"} \/ state[d] = "allowed" => keys[d] # NoKey

Untainted(d) ==
    status[d] \in {"pending", "enrolled", "verified"} => FailuresOf(failures, d) = {}
(* A device whose stored status looks harmless has no failure on record: only then   *)
(* do the stored status and the one applyPolicy recomputes agree on allowing it.     *)
FailuresMeanDistrust == \A d \in Device : Untainted(d)

(* The dashboard repeats the policy of the server by the stored status only, and     *)
(* still never offers what the server would block, nor withholds what would change   *)
(* something, archived devices aside (App.tsx:389, policy-engine.service.ts:16).     *)
OffersMatchPolicy ==
    \A d \in inventory, action \in PolicyAction :
        LET decision == Decide(action, state[d], CurrentIdentityStatus(d), FALSE)
            effective == decision.result = "applied" /\ decision.next # state[d]
        IN /\ Offered(d, action) => effective
           /\ effective => Offered(d, action) \/ archived[d]

EventExplains(d) ==
    /\ status[d] = "pending"  => lastEvent[d] = "none"
    /\ status[d] = "enrolled" => lastEvent[d] \in {"key_rotated", "failed"}
    /\ status[d] = "verified" => lastEvent[d] = "verified"
    /\ status[d] = "invalid"  => lastEvent[d] = "failed"
    /\ status[d] = "locked"   => lastEvent[d] = "failed_locked"
(* The latest identity event an operator reads explains the status next to it.       *)
EventsExplainStatus == \A d \in Device : EventExplains(d)

(* A first verification uses up a live token of the current enrollment: an enrolled  *)
(* device becomes verified only by consuming the row it has (devices.service.ts:625). *)
FirstVerificationUsesToken ==
    [][\A d \in Device :
        status[d] = "enrolled" /\ status'[d] = "verified" =>
            /\ tokens[d].token # NoToken
            /\ ~tokens[d].consumed
            /\ now < tokens[d].expiresAt
            /\ tokens'[d] = Consumed(tokens[d])]_serviceVars

(* No request lets a device onto the network while its identity is in doubt: when it *)
(* becomes allowed its status is enrolled or verified and stays so, and it is not    *)
(* locked out (policy-engine.service.ts:20-43).                                      *)
AllowNeedsTrust ==
    [][\A d \in Device :
        state[d] # "allowed" /\ state'[d] = "allowed" =>
            /\ status[d] \in {"enrolled", "verified"}
            /\ ~LockedOut(failures, d, now)
            /\ status'[d] = status[d]]_serviceVars

(* A dry run changes the state of no device and claims none in the audit log,        *)
(* although it answers "applied", whatever real decisions came before the restart    *)
(* (enforcement.service.ts:44-61).                                                   *)
DryRunInert == [][dryRun => UNCHANGED <<state, auditLog>>]_serviceVars

(* The service implements the lifecycle it promises, "invalid" and "locked" being    *)
(* two ways to be distrusted.                                                        *)
Trust(d) ==
    IF d \notin inventory THEN "absent"
    ELSE IF status[d] \in {"invalid", "locked"} THEN "distrusted" ELSE status[d]
Lifecycle == INSTANCE TrustLifecycle
    WITH trust <- [d \in Device |-> Trust(d)], access <- state
ImplementsLifecycle == Lifecycle!Spec

(* Seen through its identity tables the service behaves as DeviceIdentity specifies. *)
ImplementsIdentity == IdentitySpec

-----------------------------------------------------------------------------------
(* Claims of the repository that the code does not keep.                             *)

(* "Archived devices stay denied until they are restored." (App.tsx:415)             *)
ArchivedStayDenied == \A d \in Device : archived[d] => state[d] = "denied"

(* "The device completed provisioning" (App.tsx:432): a verified device consumed the *)
(* token of its enrollment.                                                          *)
VerifiedImpliesProvisioned ==
    \A d \in Device : status[d] = "verified" => tokens[d].consumed
=============================================================================
