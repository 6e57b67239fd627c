---------------------------- MODULE DevicesServiceCrash ----------------------------
(* DevicesService with crashes.  No handler opens a transaction: each statement      *)
(* commits by itself, and a process that dies inside a handler leaves the first      *)
(* statements in the database and loses the rest.  The variables of DevicesService   *)
(* are what the handlers compute, "disk" is what is committed: a handler takes its   *)
(* step and lists its writes in the order of the code, and they reach the disk one   *)
(* by one.  A crash loses the writes left; the process that starts next reads the    *)
(* disk (migrate and seedDefaults change nothing in a database they made).           *)
EXTENDS DevicesService

CONSTANT MaxCrashes  \* bound: crashes
ASSUME CrashAssumption == MaxCrashes \in Nat

VARIABLES
    disk,     \* the committed tables
    todo,     \* the writes the running handler has left, in order; <<>> between handlers
    crashes,  \* how many crashes there were
    torn      \* history: devices a crash cut a handler of, since their last enrollment

crashVars == <<serviceVars, disk, todo, crashes, torn>>

(* One entry per column or table that some statement writes by itself.  History goes *)
(* with the write that makes it true: a heartbeat takes effect on the device when    *)
(* its failures are cleared, a key is trusted when the status is written.            *)
Computed ==
    [inventory |-> inventory, keys |-> keys, nonces |-> nonces,
     failures |-> <<failures, accepted>>, tokens |-> <<tokens, issued>>,
     status |-> <<status, trustedKey>>, state |-> state, archived |-> archived,
     auditLog |-> auditLog, enforcementLog |-> enforcementLog, lastEvent |-> lastEvent]

(* The DELETEs that verify starts with, each a statement of its own.                 *)
Eviction == {"expiredNonces", "expiredFailures"}

Writes(d, tables) == [i \in DOMAIN tables |-> [table |-> tables[i], dev |-> d]]

CrashTypeOK ==
    /\ ServiceTypeOK
    /\ DOMAIN disk = DOMAIN Computed
    /\ todo \in Seq([table : DOMAIN disk \cup Eviction \cup {"torn"}, dev : Device])
    /\ crashes \in 0 .. MaxCrashes
    /\ torn \subseteq Device
    /\ todo = <<>> => disk = Computed

-----------------------------------------------------------------------------------
(* The handlers' writes, in the order of the code.                                   *)

(* Mutant: the key is stored before the row it refers to.                            *)
KeyWritesKeyFirst == <<"keys", "inventory", "failures", "tokens", "status", "lastEvent", "torn">>
(* Mutant: the device is enrolled before the key is stored.                          *)
KeyWritesStatusFirst ==
    <<"inventory", "status", "keys", "failures", "tokens", "lastEvent", "torn">>
(* The row of a new device, key, failures, token, status, event; the entry "torn" is *)
(* no write but the history of a finished enrollment.                                *)
KeyWrites == <<"inventory", "keys", "failures", "tokens", "status", "lastEvent", "torn">>

PolicyWrites == <<"failures", "state", "auditLog", "enforcementLog">>
ArchiveWrites(d) == (IF state[d] # "denied" THEN PolicyWrites ELSE <<>>) \o <<"archived">>

(* Mutant: the nonce is registered once the heartbeat has had its effect.            *)
VerifyWritesNonceLast == <<"expiredNonces", "expiredFailures", "failures", "nonces">>
(* verify's own: the two evictions, registerNonce, then clearFailures or             *)
(* recordFailure.  A statement that a refusal leaves out is a write of no change.    *)
VerifyWrites == <<"expiredNonces", "expiredFailures", "nonces", "failures">>

StatusWrites == <<"status", "lastEvent">>

(* Mutant: the token is used up when the answer is sent.                             *)
ProvisionWritesTokenLast == VerifyWrites \o StatusWrites \o <<"tokens">>
(* consumeToken comes between verify and the status.                                 *)
ProvisionWrites == VerifyWrites \o <<"tokens">> \o StatusWrites

-----------------------------------------------------------------------------------
CrashInit ==
    /\ ServiceInit
    /\ disk = Computed
    /\ todo = <<>>
    /\ crashes = 0
    /\ torn = {}

(* A handler starts only when the one before has returned or died.                   *)
Handle(handler, d, tables) ==
    /\ todo = <<>>
    /\ handler
    /\ todo' = Writes(d, tables)
    /\ UNCHANGED <<dryRun, disk, crashes, torn>>

HandleOperator(d) ==
    \/ Handle(CreatePlaceholder(d), d, <<"inventory">>)
    \/ \E k \in Key : Handle(UpsertIdentityKey(d, k), d, KeyWrites)
    \/ Handle(IssueProvisioningToken(d), d, <<"tokens">>)
    \/ Handle(GetIdentityProfile(d), d, <<"failures">>)
    \/ \E action \in PolicyAction : Handle(ApplyPolicy(d, action), d, PolicyWrites)
    \/ Handle(ArchiveDevice(d), d, ArchiveWrites(d))
    \/ Handle(RestoreDevice(d), d, <<"archived">>)

HandleReport(d) ==
    \/ Handle(ReportMismatched(d), d, StatusWrites)
    \/ \E m \in Heartbeat :
        \/ Handle(ReportThrows(d, m), d, VerifyWrites)
        \/ Handle(ReportRefused(d, m), d, VerifyWrites \o StatusWrites)
        \/ Handle(ReportVerified(d, m), d, VerifyWrites \o StatusWrites)
        \/ \E x \in 0 .. issued :
            \/ Handle(ReportUnprovisioned(d, m, x), d, VerifyWrites \o <<"lastEvent">>)
            \/ Handle(ReportProvisioned(d, m, x), d, ProvisionWrites)

(* A handler takes no time the model can see.                                        *)
ClockTickBetween ==
    /\ todo = <<>>
    /\ ClockTick
    /\ UNCHANGED <<disk, todo, crashes, torn>>

(* The next statement, one that evicts rows, commits.                                *)
CommitEviction ==
    /\ todo # <<>>
    /\ \/ /\ Head(todo).table = "expiredNonces"
          /\ disk' = [disk EXCEPT !.nonces = KeptNonces(@, now)]
       \/ /\ Head(todo).table = "expiredFailures"
          /\ disk' = [disk EXCEPT !.failures = <<KeptFailures(@[1], now), @[2]>>]
    /\ todo' = Tail(todo)
    /\ UNCHANGED <<serviceVars, crashes, torn>>

(* The next statement, one that completes a table, commits.                          *)
Commit ==
    /\ todo # <<>>
    /\ Head(todo).table \notin Eviction
    /\ LET write == Head(todo) IN
       /\ disk' = [table \in DOMAIN disk |->
                    IF table = write.table THEN Computed[table] ELSE disk[table]]
       /\ torn' = IF write.table = "torn" THEN torn \ {write.dev} ELSE torn
    /\ todo' = Tail(todo)
    /\ UNCHANGED <<serviceVars, crashes>>

(* The process dies with a statement or more to go, and a new one reads the disk.    *)
Crash ==
    /\ todo # <<>>
    /\ crashes < MaxCrashes
    /\ inventory' = disk.inventory
    /\ keys' = disk.keys
    /\ nonces' = disk.nonces
    /\ failures' = disk.failures[1]
    /\ accepted' = disk.failures[2]
    /\ tokens' = disk.tokens[1]
    /\ issued' = disk.tokens[2]
    /\ status' = disk.status[1]
    /\ trustedKey' = disk.status[2]
    /\ state' = disk.state
    /\ archived' = disk.archived
    /\ auditLog' = disk.auditLog
    /\ enforcementLog' = disk.enforcementLog
    /\ lastEvent' = disk.lastEvent
    /\ todo' = <<>>
    /\ crashes' = crashes + 1
    /\ torn' = torn \cup {Head(todo).dev}
    /\ dryRun' \in DryRuns
    /\ UNCHANGED <<now, disk>>

CrashNext ==
    \/ ClockTickBetween
    \/ \E d \in Device : HandleOperator(d) \/ HandleReport(d)
    \/ CommitEviction
    \/ Commit
    \/ Crash

CrashSpec == CrashInit /\ [][CrashNext]_crashVars

-----------------------------------------------------------------------------------
(* What survives crashes.                                                            *)

(* Every committed row refers to a committed devices row, at every instant: no       *)
(* statement of a handler ever breaks a foreign key that an earlier one was to fill. *)
DiskReferences ==
    \A d \in Device \ disk.inventory :
        /\ disk.keys[d] = NoKey
        /\ disk.tokens[1][d] = NoTokenRow
        /\ FailuresOf(disk.failures[1], d) = {}
        /\ disk.auditLog[d] = <<>> /\ disk.enforcementLog[d] = <<>>
        /\ disk.lastEvent[d] = "none"

(* A crash at any statement leaves no device trusted or let in without a key: the    *)
(* key is stored before the status that relies on it.                                *)
DiskKeyBacksTrust ==
    \A d \in Device :
        disk.status[1][d] \in {"enrolled", "verified"} \/ disk.state[d] = "allowed"
            => disk.keys[d] # NoKey

(* A heartbeat that had its effect before a crash has none after it, as long as its  *)
(* nonce is kept: that was committed first (device-identity.service.ts:214-218).     *)
NoReplayAcrossCrashes == \A r \in NonceRow : Outlasts(r.ts) => disk.failures[2][r] <= 1

(* A crash between recordFailure and the status it leads to leaves a locked-out      *)
(* device with a status that reads well.  It is not let in all the same: applyPolicy *)
(* recomputes the lockout (devices.service.ts:814) and does not trust the status.    *)
AllowSurvivesLostStatus ==
    [][\A d \in Device :
        todo = <<>> /\ state[d] # "allowed" /\ state'[d] = "allowed"
            => status[d] \in {"enrolled", "verified"} /\ ~LockedOut(failures, d, now)]_crashVars

(* Enrolling a device again heals what a crash tore: its trust, failures and latest  *)
(* event fit together as if there had been no crash.                                 *)
EnrollmentHeals ==
    todo = <<>> =>
        \A d \in Device \ torn : UnderCurrentKey(d) /\ Untainted(d) /\ EventExplains(d)

(* A crash after updateState leaves a change of state that no audit row tells of     *)
(* (devices.service.ts:484), one per crash and no more: nowhere else does the audit  *)
(* log of a device fail to lead from one row to the next and on to its state.        *)
Gaps(log, st) ==
    {i \in 1 .. Len(log) + 1 :
        (IF i = 1 THEN "unknown" ELSE log[i - 1].next)
            # (IF i > Len(log) THEN st ELSE log[i].prev)}
CrashLosesOneChange ==
    todo = <<>> =>
        Cardinality(UNION {{d} \X Gaps(auditLog[d], state[d]) : d \in Device}) <= crashes

(* What the committed file says of a device.                                         *)
DiskTrust(d) ==
    IF d \notin disk.inventory THEN "absent"
    ELSE IF disk.status[1][d] \in {"invalid", "locked"} THEN "distrusted" ELSE disk.status[1][d]
DiskTrusts == [d \in Device |-> DiskTrust(d)]
DiskLifecycle == INSTANCE TrustLifecycle WITH trust <- DiskTrusts, access <- disk.state

(* The one way around the lifecycle: an enrollment cut between the key and the       *)
(* status (devices.service.ts:735) leaves a device pending with a key, and its next  *)
(* heartbeat verifies it, no token asked.                                            *)
VerifiedUnenrolled(d) ==
    /\ d \in torn
    /\ disk.keys[d] # NoKey
    /\ DiskTrust(d) = "pending"
    /\ DiskTrusts' = [DiskTrusts EXCEPT ![d] = "verified"]
    /\ UNCHANGED disk.state

(* The committed file follows the lifecycle at every statement and through every     *)
(* crash: whatever combination of trust and access a torn handler leaves, whole      *)
(* handlers could have led to it, but for VerifiedUnenrolled.                        *)
DiskFollowsLifecycle ==
    /\ DiskLifecycle!Init
    /\ [][DiskLifecycle!Next \/ \E d \in Device : VerifiedUnenrolled(d)]_(DiskLifecycle!vars)

(* An enrolled device is verified on disk only after its token is used up there: no  *)
(* crash leaves a token that a second first verification could use                   *)
(* (devices.service.ts:626 before :677).                                             *)
TokenSpentFirst ==
    [][\A d \in Device :
        disk.status[1][d] = "enrolled" /\ disk'.status[1][d] = "verified"
            => disk.tokens[1][d].consumed /\ disk.tokens[1][d].token # NoToken]_disk
=============================================================================
