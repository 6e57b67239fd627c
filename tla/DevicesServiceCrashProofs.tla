------------------------ MODULE DevicesServiceCrashProofs ------------------------
(* Theorems of DevicesServiceCrash: what is true of the committed file after a crash *)
(* at any statement of any handler, for every value of the constants.                *)
EXTENDS DevicesServiceCrash, DevicesServiceProofs

TableName ==
    {"inventory", "keys", "nonces", "failures", "tokens", "status", "state", "archived",
     "auditLog", "enforcementLog", "lastEvent"}
(* A file with the history that goes with its writes.                                *)
File ==
    [inventory : SUBSET Device,
     keys : [Device -> Key \cup {NoKey}],
     nonces : SUBSET NonceRow,
     failures : {rows \in SUBSET FailureRow : IsFiniteSet(rows)} \X [NonceRow -> 0 .. 2],
     tokens : [Device -> TokenRow] \X Nat,
     status : [Device -> IdentityStatus] \X [Device -> Key \cup {NoKey}],
     state : [Device -> DeviceState],
     archived : [Device -> BOOLEAN],
     auditLog : [Device -> Seq(AuditRow)],
     enforcementLog : [Device -> Seq(EnforcementRow)],
     lastEvent : [Device -> IdentityEvent]]
Entry == TableName \cup Eviction \cup {"torn"}
Write == [table : Entry, dev : Device]

CrashType ==
    /\ ServiceTypeOK
    /\ disk \in File
    /\ todo \in Seq(Write)
    /\ crashes \in 0 .. MaxCrashes
    /\ torn \subseteq Device

-----------------------------------------------------------------------------------
(* Files.                                                                            *)

LEMMA ComputedFields ==
    /\ Computed.inventory = inventory /\ Computed.keys = keys /\ Computed.nonces = nonces
    /\ Computed.failures = <<failures, accepted>> /\ Computed.tokens = <<tokens, issued>>
    /\ Computed.status = <<status, trustedKey>> /\ Computed.state = state
    /\ Computed.archived = archived /\ Computed.auditLog = auditLog
    /\ Computed.enforcementLog = enforcementLog /\ Computed.lastEvent = lastEvent
    /\ DOMAIN Computed = TableName
  BY DEF Computed, TableName

LEMMA ComputedType == ASSUME ServiceTypeOK PROVE Computed \in File
  BY DEF ServiceTypeOK, IdentityTypeOK, Computed, File

LEMMA FileFields ==
    ASSUME NEW f \in File
    PROVE  /\ DOMAIN f = TableName
           /\ f.inventory \in SUBSET Device /\ f.keys \in [Device -> Key \cup {NoKey}]
           /\ f.nonces \in SUBSET NonceRow
           /\ f.failures[1] \in SUBSET FailureRow /\ IsFiniteSet(f.failures[1])
           /\ f.failures[2] \in [NonceRow -> 0 .. 2]
           /\ f.failures = <<f.failures[1], f.failures[2]>>
           /\ f.tokens[1] \in [Device -> TokenRow] /\ f.tokens[2] \in Nat
           /\ f.tokens = <<f.tokens[1], f.tokens[2]>>
           /\ f.status[1] \in [Device -> IdentityStatus]
           /\ f.status[2] \in [Device -> Key \cup {NoKey}]
           /\ f.status = <<f.status[1], f.status[2]>>
           /\ f.state \in [Device -> DeviceState] /\ f.archived \in [Device -> BOOLEAN]
           /\ f.auditLog \in [Device -> Seq(AuditRow)]
           /\ f.enforcementLog \in [Device -> Seq(EnforcementRow)]
           /\ f.lastEvent \in [Device -> IdentityEvent]
  BY DEF File, TableName

(* A statement that commits replaces one table by what was computed for it.          *)
LEMMA CommitEffect ==
    ASSUME CrashType, Commit
    PROVE  LET w == Head(todo).table IN
           /\ disk' = [t \in TableName |-> IF t = w THEN Computed[t] ELSE disk[t]]
           /\ \A t \in TableName : disk'[t] = IF t = w THEN Computed[t] ELSE disk[t]
           /\ disk' \in File
  <1> DEFINE w == Head(todo).table
  <1>1. DOMAIN disk = TableName
    BY FileFields DEF CrashType
  <1>2. disk' = [t \in TableName |-> IF t = w THEN Computed[t] ELSE disk[t]]
    BY <1>1 DEF Commit
  <1>3. \A t \in TableName : disk'[t] = IF t = w THEN Computed[t] ELSE disk[t]
    BY <1>2
  <1>4. Computed \in File
    BY ComputedType DEF CrashType
  <1>5. disk' \in File
    BY <1>2, <1>4 DEF CrashType, File, TableName
  <1> QED BY <1>2, <1>3, <1>5

(* A statement that evicts rows leaves some of them, and every other table as it is. *)
LEMMA EvictionEffect ==
    ASSUME CrashType, CommitEviction
    PROVE  /\ disk' \in File
           /\ \A t \in TableName \ {"nonces", "failures"} : disk'[t] = disk[t]
           /\ disk'.failures[2] = disk.failures[2]
           /\ \/ /\ Head(todo).table = "expiredNonces"
                 /\ disk'.nonces = KeptNonces(disk.nonces, now) /\ disk'.failures = disk.failures
              \/ /\ Head(todo).table = "expiredFailures"
                 /\ disk'.nonces = disk.nonces
                 /\ disk'.failures[1] = KeptFailures(disk.failures[1], now)
  <1>1. disk \in File /\ now \in Nat
    BY DEF CrashType, ServiceTypeOK, IdentityTypeOK
  <1>2. CASE Head(todo).table = "expiredNonces"
    <2>1. disk' = [disk EXCEPT !.nonces = KeptNonces(disk.nonces, now)]
      BY <1>2 DEF CommitEviction
    <2>2. KeptNonces(disk.nonces, now) \in SUBSET NonceRow
      BY <1>1, FileFields DEF KeptNonces
    <2>3. disk' \in File
      BY <1>1, <2>1, <2>2 DEF File
    <2> QED BY <1>1, <1>2, <2>1, <2>3 DEF File, TableName
  <1>3. CASE Head(todo).table = "expiredFailures"
    <2> DEFINE kept == KeptFailures(disk.failures[1], now)
    <2>1. disk' = [disk EXCEPT !.failures = <<kept, disk.failures[2]>>]
      BY <1>3 DEF CommitEviction
    <2>2. kept \in SUBSET FailureRow /\ IsFiniteSet(kept)
      BY <1>1, FileFields, KeptFailuresType
    <2>3. disk.failures[2] \in [NonceRow -> 0 .. 2]
      BY <1>1, FileFields
    <2> HIDE DEF kept
    <2>4. disk' \in File
      BY <1>1, <2>1, <2>2, <2>3 DEF File
    <2>5. disk'.failures = <<kept, disk.failures[2]>>
      BY <1>1, <2>1 DEF File
    <2> QED BY <1>1, <1>3, <2>1, <2>4, <2>5 DEF File, TableName, kept
  <1> QED BY <1>2, <1>3 DEF CommitEviction

(* A new process computes on what it finds.                                          *)
LEMMA CrashEffect == ASSUME CrashType, Crash PROVE Computed' = disk
  <1> DEFINE g == Computed'
  <1>1. /\ DOMAIN g = TableName
        /\ g = [t \in TableName |-> g[t]]
    BY DEF Computed, TableName
  <1>2. DOMAIN disk = TableName /\ disk = [t \in TableName |-> disk[t]]
    BY FileFields DEF CrashType, File
  <1>3. \A t \in TableName : g[t] = disk[t]
    <2>1. /\ g.failures = <<disk.failures[1], disk.failures[2]>>
          /\ g.tokens = <<disk.tokens[1], disk.tokens[2]>>
          /\ g.status = <<disk.status[1], disk.status[2]>>
      BY DEF Crash, Computed
    <2>2. /\ g.failures = disk.failures /\ g.tokens = disk.tokens /\ g.status = disk.status
      BY <2>1, FileFields DEF CrashType
    <2>3. /\ g.inventory = disk.inventory /\ g.keys = disk.keys /\ g.nonces = disk.nonces
          /\ g.state = disk.state /\ g.archived = disk.archived
          /\ g.auditLog = disk.auditLog /\ g.enforcementLog = disk.enforcementLog
          /\ g.lastEvent = disk.lastEvent
      BY DEF Crash, Computed
    <2> QED BY <2>2, <2>3 DEF TableName
  <1>4. g = disk
    <2> HIDE DEF g
    <2>1. [t \in TableName |-> g[t]] = [t \in TableName |-> disk[t]]
      BY <1>3
    <2> QED BY <1>1, <1>2, <2>1
  <1> QED BY <1>4

-----------------------------------------------------------------------------------
(* Handlers and their writes.                                                        *)

(* Which table has to be written before which, when a handler writes both.           *)
Precedence ==
    ({"inventory"} \X {"keys", "failures", "tokens", "status", "state", "lastEvent",
                       "auditLog", "enforcementLog"})
        \cup ({"keys"} \X {"status", "state"})
        \cup {<<"nonces", "failures">>, <<"tokens", "status">>, <<"state", "auditLog">>,
              <<"status", "torn">>,
              <<"expiredNonces", "nonces">>, <<"expiredFailures", "failures">>}
Ordered(tables) ==
    /\ tables \in Seq(Entry)
    /\ \A i, j \in DOMAIN tables : <<tables[i], tables[j]>> \in Precedence => i < j
Listed(tables) == {tables[i] : i \in DOMAIN tables}
(* A table that is evicted from is completed later, with no row that is to go.        *)
Completed(tables) ==
    /\ "expiredNonces" \in tables => "nonces" \in tables
    /\ "expiredFailures" \in tables => "failures" \in tables
NoneExpired == \A f \in failures : f.at + Retention >= now
(* A handler writes all it computes, and ends an enrollment only if it is one.        *)
Handled(d, tables) ==
    /\ Handler(d)
    /\ Ordered(tables) /\ Listed(tables) # {}
    /\ \A t \in TableName : Computed'[t] = Computed[t] \/ t \in Listed(tables)
    /\ "torn" \in Listed(tables) => \E k \in Key : UpsertIdentityKey(d, k)
    /\ Completed(Listed(tables))
    /\ "expiredFailures" \in Listed(tables) => NoneExpired'

LEMMA ShortLists ==
    /\ \A t \in TableName : Ordered(<<t>>) /\ Listed(<<t>>) = {t}
    /\ Ordered(StatusWrites) /\ Listed(StatusWrites) = {"status", "lastEvent"}
    /\ Ordered(VerifyWrites)
    /\ Listed(VerifyWrites) = {"expiredNonces", "expiredFailures", "nonces", "failures"}
    /\ Ordered(PolicyWrites)
    /\ Listed(PolicyWrites) = {"failures", "state", "auditLog", "enforcementLog"}
  BY DEF Ordered, Listed, Precedence, Entry, Eviction, TableName, StatusWrites, VerifyWrites,
         PolicyWrites

LEMMA KeyList ==
    /\ Ordered(KeyWrites)
    /\ Listed(KeyWrites)
        = {"inventory", "keys", "failures", "tokens", "status", "lastEvent", "torn"}
  BY DEF Ordered, Listed, Precedence, Entry, Eviction, TableName, KeyWrites

LEMMA JoinedLists ==
    ASSUME NEW a, Ordered(a), NEW b, Ordered(b),
           \A x \in Listed(a), y \in Listed(b) : <<y, x>> \notin Precedence
    PROVE  Ordered(a \o b) /\ Listed(a \o b) = Listed(a) \cup Listed(b)
  <1>1. a \in Seq(Entry) /\ b \in Seq(Entry)
    BY DEF Ordered
  <1>2. /\ a \o b \in Seq(Entry)
        /\ Len(a) \in Nat /\ Len(b) \in Nat
        /\ DOMAIN a = 1 .. Len(a) /\ DOMAIN b = 1 .. Len(b)
        /\ DOMAIN (a \o b) = 1 .. Len(a) + Len(b)
        /\ \A i \in 1 .. Len(a) + Len(b) :
             (a \o b)[i] = IF i <= Len(a) THEN a[i] ELSE b[i - Len(a)]
    BY <1>1
  <1>3. Listed(a \o b) = Listed(a) \cup Listed(b)
    <2>1. ASSUME NEW i \in 1 .. Len(a) PROVE a[i] \in Listed(a \o b)
      BY <1>2, <2>1 DEF Listed
    <2>2. ASSUME NEW i \in 1 .. Len(b) PROVE b[i] \in Listed(a \o b)
      <3>1. Len(a) + i \in 1 .. Len(a) + Len(b) /\ (a \o b)[Len(a) + i] = b[i]
        BY <1>2, <2>2
      <3> QED BY <1>2, <3>1 DEF Listed
    <2>3. ASSUME NEW i \in 1 .. Len(a) + Len(b)
          PROVE  (a \o b)[i] \in Listed(a) \cup Listed(b)
      BY <1>2, <2>3 DEF Listed
    <2> QED BY <1>2, <2>1, <2>2, <2>3 DEF Listed
  <1>4. ASSUME NEW i \in 1 .. Len(a) + Len(b), NEW j \in 1 .. Len(a) + Len(b),
               <<(a \o b)[i], (a \o b)[j]>> \in Precedence
        PROVE  i < j
    <2>1. CASE i <= Len(a) /\ j <= Len(a)
      <3>1. /\ i \in DOMAIN a /\ (a \o b)[i] = a[i]
            /\ j \in DOMAIN a /\ (a \o b)[j] = a[j]
        BY <1>2, <2>1
      <3> QED BY <1>4, <3>1 DEF Ordered
    <2>2. CASE i <= Len(a) /\ ~(j <= Len(a))
      BY <1>2, <2>2
    <2>3. CASE ~(i <= Len(a)) /\ j <= Len(a)
      <3>1. /\ i - Len(a) \in DOMAIN b /\ (a \o b)[i] = b[i - Len(a)]
            /\ j \in DOMAIN a /\ (a \o b)[j] = a[j]
        BY <1>2, <2>3
      <3>2. (a \o b)[i] \in Listed(b) /\ (a \o b)[j] \in Listed(a)
        BY <3>1 DEF Listed
      <3> QED BY <1>4, <3>2
    <2>4. CASE ~(i <= Len(a)) /\ ~(j <= Len(a))
      <3>1. /\ i - Len(a) \in DOMAIN b /\ (a \o b)[i] = b[i - Len(a)]
            /\ j - Len(a) \in DOMAIN b /\ (a \o b)[j] = b[j - Len(a)]
        BY <1>2, <2>4
      <3>2. i - Len(a) < j - Len(a)
        BY <1>4, <3>1 DEF Ordered
      <3> QED BY <1>2, <3>2
    <2> QED BY <2>1, <2>2, <2>3, <2>4
  <1> QED BY <1>2, <1>3, <1>4 DEF Ordered

LEMMA LongLists ==
    /\ Ordered(PolicyWrites \o <<"archived">>)
    /\ Listed(PolicyWrites \o <<"archived">>)
        = {"failures", "state", "auditLog", "enforcementLog", "archived"}
    /\ Ordered(VerifyWrites \o StatusWrites)
    /\ Listed(VerifyWrites \o StatusWrites) = Listed(VerifyWrites) \cup {"status", "lastEvent"}
    /\ Ordered(VerifyWrites \o <<"lastEvent">>)
    /\ Listed(VerifyWrites \o <<"lastEvent">>) = Listed(VerifyWrites) \cup {"lastEvent"}
    /\ Ordered(ProvisionWrites)
    /\ Listed(ProvisionWrites) = Listed(VerifyWrites) \cup {"tokens", "status", "lastEvent"}
  <1>0. \A t \in {"archived", "lastEvent", "tokens"} : Ordered(<<t>>) /\ Listed(<<t>>) = {t}
    BY ShortLists DEF TableName
  <1>1. /\ Ordered(PolicyWrites \o <<"archived">>)
        /\ Listed(PolicyWrites \o <<"archived">>) = Listed(PolicyWrites) \cup {"archived"}
    BY <1>0, ShortLists, JoinedLists DEF Precedence
  <1>2. /\ Ordered(VerifyWrites \o StatusWrites)
        /\ Listed(VerifyWrites \o StatusWrites) = Listed(VerifyWrites) \cup Listed(StatusWrites)
    BY ShortLists, JoinedLists DEF Precedence
  <1>3. /\ Ordered(VerifyWrites \o <<"lastEvent">>)
        /\ Listed(VerifyWrites \o <<"lastEvent">>) = Listed(VerifyWrites) \cup {"lastEvent"}
    BY <1>0, ShortLists, JoinedLists DEF Precedence
  <1>4. /\ Ordered(VerifyWrites \o <<"tokens">>)
        /\ Listed(VerifyWrites \o <<"tokens">>) = Listed(VerifyWrites) \cup {"tokens"}
    BY <1>0, ShortLists, JoinedLists DEF Precedence
  <1>5. /\ Ordered(VerifyWrites \o <<"tokens">> \o StatusWrites)
        /\ Listed(VerifyWrites \o <<"tokens">> \o StatusWrites)
             = Listed(VerifyWrites) \cup {"tokens"} \cup Listed(StatusWrites)
    BY <1>4, ShortLists, JoinedLists DEF Precedence
  <1> QED BY <1>1, <1>2, <1>3, <1>5, ShortLists DEF ProvisionWrites

(* What a handler leaves alone, table by table.                                      *)
LEMMA TablesKept ==
    ASSUME NEW T,
           "inventory" \in T \/ inventory' = inventory, "keys" \in T \/ keys' = keys,
           "nonces" \in T \/ nonces' = nonces,
           "failures" \in T \/ (failures' = failures /\ accepted' = accepted),
           "tokens" \in T \/ (tokens' = tokens /\ issued' = issued),
           "status" \in T \/ (status' = status /\ trustedKey' = trustedKey),
           "state" \in T \/ state' = state, "archived" \in T \/ archived' = archived,
           "auditLog" \in T \/ auditLog' = auditLog,
           "enforcementLog" \in T \/ enforcementLog' = enforcementLog,
           "lastEvent" \in T \/ lastEvent' = lastEvent
    PROVE  \A t \in TableName : Computed'[t] = Computed[t] \/ t \in T
  BY DEF Computed, TableName

(* verify computes no failure that its eviction would delete.                        *)
LEMMA VerifyLeavesNoneExpired ==
    ASSUME IdentityTypeOK, NEW d \in Device, NEW m \in Heartbeat, Verify(d, m)
    PROVE  NoneExpired'
  <1> DEFINE kept == KeptFailures(failures, now)
  <1>1. now \in Nat /\ now' = now /\ Retention \in Nat /\ Retention' = Retention
    BY BoundAssumption
       DEF IdentityTypeOK, Verify, VerifyLockedOut, VerifyValid, VerifyRejected, VerifyThrows,
           Retention
  <1>2. \A f \in kept : f.at + Retention >= now
    BY DEF KeptFailures
  <1>3. NewFailure(kept, d, now).at = now
    BY DEF NewFailure
  <1>4. failures' \subseteq kept \cup {NewFailure(kept, d, now)}
    BY DEF Verify, VerifyLockedOut, VerifyValid, VerifyRejected, VerifyThrows
  <1> HIDE DEF kept
  <1> QED BY <1>1, <1>2, <1>3, <1>4 DEF NoneExpired

LEMMA HandledAsListed ==
    ASSUME IdentityTypeOK, NEW d \in Device, HandleOperator(d) \/ HandleReport(d)
    PROVE  /\ todo = <<>> /\ UNCHANGED <<dryRun, disk, crashes, torn>>
           /\ \E tables : todo' = Writes(d, tables) /\ Handled(d, tables)
  <1> USE DEF deviceVars, tokenVars, logVars, identityVars, Completed
  <1> DEFINE Kept(T) == \A t \in TableName : Computed'[t] = Computed[t] \/ t \in T
             Done(tables) == todo' = Writes(d, tables) /\ Handled(d, tables)
             Between == todo = <<>> /\ UNCHANGED <<dryRun, disk, crashes, torn>>
  <1>0. \A t \in {"inventory", "tokens", "failures", "archived"} :
            Ordered(<<t>>) /\ Listed(<<t>>) = {t}
    BY ShortLists DEF TableName
  <1>1. CASE Handle(CreatePlaceholder(d), d, <<"inventory">>)
    <2>1. Kept({"inventory"})
      <3>1. CreatePlaceholder(d)
        BY <1>1 DEF Handle
      <3> QED BY <3>1, TablesKept DEF CreatePlaceholder, AddToInventory
    <2>2. Done(<<"inventory">>)
      BY <1>0, <1>1, <2>1 DEF Handle, Handled, Handler
    <2> QED BY <1>1, <2>2 DEF Handle
  <1>2. ASSUME NEW k \in Key, Handle(UpsertIdentityKey(d, k), d, KeyWrites)
        PROVE  Between /\ \E tables : Done(tables)
    <2>0. UpsertIdentityKey(d, k)
      BY <1>2 DEF Handle
    <2>1. Kept({"inventory", "keys", "failures", "tokens", "status", "lastEvent", "torn"})
      BY <2>0, TablesKept DEF UpsertIdentityKey, RotateKey
    <2>2. Done(KeyWrites)
      BY <2>0, <1>2, <2>1, KeyList DEF Handle, Handled, Handler
    <2> QED BY <1>2, <2>2 DEF Handle
  <1>3. CASE Handle(IssueProvisioningToken(d), d, <<"tokens">>)
    <2>0. IssueProvisioningToken(d)
      BY <1>3 DEF Handle
    <2>1. Kept({"tokens"})
      BY <2>0, TablesKept DEF IssueProvisioningToken
    <2>2. Done(<<"tokens">>)
      BY <2>0, <1>0, <1>3, <2>1 DEF Handle, Handled, Handler
    <2> QED BY <1>3, <2>2 DEF Handle
  <1>4. CASE Handle(GetIdentityProfile(d), d, <<"failures">>)
    <2>0. GetIdentityProfile(d)
      BY <1>4 DEF Handle
    <2>1. Kept({"failures"})
      BY <2>0, TablesKept DEF GetIdentityProfile, GetSecurityState
    <2>2. Done(<<"failures">>)
      BY <2>0, <1>0, <1>4, <2>1 DEF Handle, Handled, Handler
    <2> QED BY <1>4, <2>2 DEF Handle
  <1>5. ASSUME NEW action \in PolicyAction, Handle(ApplyPolicy(d, action), d, PolicyWrites)
        PROVE  Between /\ \E tables : Done(tables)
    <2>0. ApplyPolicy(d, action)
      BY <1>5 DEF Handle
    <2>1. Kept({"failures", "state", "auditLog", "enforcementLog"})
      BY <2>0, TablesKept DEF ApplyPolicy, Enforced, GetSecurityState
    <2>2. Done(PolicyWrites)
      BY <2>0, <1>5, <2>1, ShortLists DEF Handle, Handled, Handler
    <2> QED BY <1>5, <2>2 DEF Handle
  <1>6. CASE Handle(ArchiveDevice(d), d, ArchiveWrites(d))
    <2>0. ArchiveDevice(d)
      BY <1>6 DEF Handle
    <2>1. CASE state[d] # "denied"
      <3>0. ArchiveWrites(d) = PolicyWrites \o <<"archived">>
        BY <2>1 DEF ArchiveWrites
      <3>1. Kept({"failures", "state", "auditLog", "enforcementLog", "archived"})
        BY <2>0, <2>1, TablesKept DEF ArchiveDevice, Enforced, GetSecurityState
      <3>2. Done(PolicyWrites \o <<"archived">>)
        BY <2>0, <1>6, <3>0, <3>1, LongLists DEF Handle, Handled, Handler
      <3> QED BY <1>6, <3>2 DEF Handle
    <2>2. CASE state[d] = "denied"
      <3>0. ArchiveWrites(d) = <<"archived">>
        BY <2>2 DEF ArchiveWrites
      <3>1. Kept({"archived"})
        BY <2>0, <2>2, TablesKept DEF ArchiveDevice
      <3>2. Done(<<"archived">>)
        BY <2>0, <1>0, <1>6, <3>0, <3>1 DEF Handle, Handled, Handler
      <3> QED BY <1>6, <3>2 DEF Handle
    <2> QED BY <2>1, <2>2
  <1>7. CASE Handle(RestoreDevice(d), d, <<"archived">>)
    <2>0. RestoreDevice(d)
      BY <1>7 DEF Handle
    <2>1. Kept({"archived"})
      BY <2>0, TablesKept DEF RestoreDevice
    <2>2. Done(<<"archived">>)
      BY <2>0, <1>0, <1>7, <2>1 DEF Handle, Handled, Handler
    <2> QED BY <1>7, <2>2 DEF Handle
  <1>8. CASE Handle(ReportMismatched(d), d, StatusWrites)
    <2>0. ReportMismatched(d)
      BY <1>8 DEF Handle
    <2>1. Kept({"status", "lastEvent"})
      BY <2>0, TablesKept DEF ReportMismatched
    <2>2. Done(StatusWrites)
      BY <2>0, <1>8, <2>1, ShortLists DEF Handle, Handled, Handler
    <2> QED BY <1>8, <2>2 DEF Handle
  <1>9. ASSUME NEW m \in Heartbeat, Handle(ReportThrows(d, m), d, VerifyWrites)
        PROVE  Between /\ \E tables : Done(tables)
    <2>0. ReportThrows(d, m)
      BY <1>9 DEF Handle
    <2>1. Kept({"nonces", "failures"})
      BY <2>0, TablesKept DEF ReportThrows, VerifyThrows
    <2>2. NoneExpired'
      BY <2>0, VerifyLeavesNoneExpired DEF ReportThrows, Verify
    <2>3. Done(VerifyWrites)
      BY <2>0, <1>9, <2>1, <2>2, ShortLists DEF Handle, Handled, Handler, Report
    <2> QED BY <1>9, <2>3 DEF Handle
  <1>10. ASSUME NEW m \in Heartbeat,
                \/ Handle(ReportRefused(d, m), d, VerifyWrites \o StatusWrites)
                \/ Handle(ReportVerified(d, m), d, VerifyWrites \o StatusWrites)
         PROVE  Between /\ \E tables : Done(tables)
    <2>0. ReportRefused(d, m) \/ ReportVerified(d, m)
      BY <1>10 DEF Handle
    <2>1. Kept({"nonces", "failures", "status", "lastEvent"})
      BY <2>0, TablesKept DEF ReportRefused, ReportVerified, VerifyLockedOut, VerifyRejected,
                              VerifyValid, MarkVerified
    <2>2. NoneExpired'
      BY <2>0, VerifyLeavesNoneExpired DEF ReportRefused, ReportVerified, Verify
    <2>3. Done(VerifyWrites \o StatusWrites)
      BY <2>0, <1>10, <2>1, <2>2, LongLists, ShortLists DEF Handle, Handled, Handler, Report
    <2> QED BY <1>10, <2>3 DEF Handle
  <1>11. ASSUME NEW m \in Heartbeat, NEW x \in 0 .. issued,
                Handle(ReportUnprovisioned(d, m, x), d, VerifyWrites \o <<"lastEvent">>)
         PROVE  Between /\ \E tables : Done(tables)
    <2>0. ReportUnprovisioned(d, m, x)
      BY <1>11 DEF Handle
    <2>1. Kept({"nonces", "failures", "lastEvent"})
      BY <2>0, TablesKept DEF ReportUnprovisioned, VerifyValid
    <2>2. NoneExpired'
      BY <2>0, VerifyLeavesNoneExpired DEF ReportUnprovisioned, Verify
    <2>3. Done(VerifyWrites \o <<"lastEvent">>)
      BY <2>0, <1>11, <2>1, <2>2, LongLists, ShortLists DEF Handle, Handled, Handler, Report
    <2> QED BY <1>11, <2>3 DEF Handle
  <1>12. ASSUME NEW m \in Heartbeat, NEW x \in 0 .. issued,
                Handle(ReportProvisioned(d, m, x), d, ProvisionWrites)
         PROVE  Between /\ \E tables : Done(tables)
    <2>0. ReportProvisioned(d, m, x)
      BY <1>12 DEF Handle
    <2>1. Kept({"nonces", "failures", "tokens", "status", "lastEvent"})
      BY <2>0, TablesKept DEF ReportProvisioned, VerifyValid, MarkVerified
    <2>2. NoneExpired'
      BY <2>0, VerifyLeavesNoneExpired DEF ReportProvisioned, Verify
    <2>3. Done(ProvisionWrites)
      BY <2>0, <1>12, <2>1, <2>2, LongLists, ShortLists DEF Handle, Handled, Handler, Report
    <2> QED BY <1>12, <2>3 DEF Handle
  <1> QED
    BY <1>1, <1>2, <1>3, <1>4, <1>5, <1>6, <1>7, <1>8, <1>9, <1>10, <1>11, <1>12
    DEF HandleOperator, HandleReport
-----------------------------------------------------------------------------------
(* The invariant.                                                                    *)

(* What holds of a file at every instant: rows refer to rows, trust rests on a key,  *)
(* and an accepted heartbeat is remembered or out of time (ReplayInv).               *)
References(file) ==
    \A d \in Device \ file.inventory :
        /\ file.keys[d] = NoKey
        /\ file.tokens[1][d] = NoTokenRow
        /\ FailuresOf(file.failures[1], d) = {}
        /\ file.auditLog[d] = <<>> /\ file.enforcementLog[d] = <<>>
        /\ file.lastEvent[d] = "none"
Backed(file) ==
    \A d \in Device :
        file.status[1][d] \in {"enrolled", "verified"} \/ file.state[d] = "allowed"
            => file.keys[d] # NoKey
Spent(file, t) ==
    \A r \in NonceRow :
        /\ Outlasts(r.ts) => file.failures[2][r] <= 1
        /\ file.failures[2][r] > 0 => r \in file.nonces \/ r.ts.sortsAs + NonceTtl < t
Sound(file, t) == References(file) /\ Backed(file) /\ Spent(file, t)

Left == {todo[i].table : i \in DOMAIN todo}
(* The disk lags behind what was computed by the writes left, and those come in the  *)
(* order in which the tables rely on each other.                                     *)
LagInv ==
    /\ \A t \in TableName :
        (\E i \in DOMAIN todo : todo[i].table = t) \/ disk[t] = Computed[t]
    /\ \A i, j \in DOMAIN todo : <<todo[i].table, todo[j].table>> \in Precedence => i < j
    /\ Completed(Left)
    /\ "expiredFailures" \in Left => NoneExpired
    /\ disk.inventory \subseteq inventory
    /\ \A d \in Device : disk.keys[d] # NoKey => keys[d] # NoKey
    /\ \A r \in NonceRow : disk.failures[2][r] <= accepted[r]

(* Sincere, of a file.                                                               *)
Healthy(file, d) ==
    /\ d \notin file.inventory => file.status[1][d] = "pending" /\ file.state[d] = "unknown"
    /\ file.status[1][d] = "pending" => file.keys[d] = NoKey
    /\ file.status[1][d] = "verified" => file.keys[d] # NoKey /\ file.status[2][d] = file.keys[d]
    /\ file.status[1][d] \in {"pending", "enrolled", "verified"}
        => FailuresOf(file.failures[1], d) = {}
    /\ file.status[1][d] = "pending"  => file.lastEvent[d] = "none"
    /\ file.status[1][d] = "enrolled" => file.lastEvent[d] \in {"key_rotated", "failed"}
    /\ file.status[1][d] = "verified" => file.lastEvent[d] = "verified"
    /\ file.status[1][d] = "invalid"  => file.lastEvent[d] = "failed"
    /\ file.status[1][d] = "locked"   => file.lastEvent[d] = "failed_locked"
(* Two files agree on a device, but for its failures, which the first may have more of. *)
Agree(disk1, file, d) ==
    /\ d \in disk1.inventory <=> d \in file.inventory
    /\ disk1.keys[d] = file.keys[d]
    /\ disk1.status[1][d] = file.status[1][d] /\ disk1.status[2][d] = file.status[2][d]
    /\ disk1.state[d] = file.state[d] /\ disk1.auditLog[d] = file.auditLog[d]
    /\ disk1.lastEvent[d] = file.lastEvent[d]
    /\ FailuresOf(file.failures[1], d) \subseteq FailuresOf(disk1.failures[1], d)
(* The device a handler is running for.                                              *)
Served(d) == todo # <<>> /\ Head(todo).dev = d
(* A crash tears no device but the one served, and a new key heals it.               *)
HealInv ==
    /\ \A i \in DOMAIN todo : todo[i].dev = Head(todo).dev
    /\ \A i \in DOMAIN todo : todo[i].table = "torn" => Healthy(Computed, todo[i].dev)
    /\ \A d \in Device \ torn : Healthy(Computed, d) /\ (Served(d) \/ Healthy(disk, d))
    /\ \A d \in Device : Served(d) \/ Agree(disk, Computed, d)

(* The gaps of the audit logs: at most one for each crash so far and, while a policy *)
(* decision is being written, one more at the end of its device's log.               *)
GapSet(file) == UNION {{d} \X Gaps(file.auditLog[d], file.state[d]) : d \in Device}
GapInv ==
    /\ IsFiniteSet(GapSet(Computed)) /\ Cardinality(GapSet(Computed)) <= crashes
    /\ \A d \in Device :
        Served(d) => Gaps(disk.auditLog[d], disk.state[d])
            \subseteq Gaps(auditLog[d], state[d]) \cup {Len(disk.auditLog[d]) + 1}

CrashInv ==
    /\ CrashType
    /\ Sound(Computed, now) /\ Sound(disk, now)
    /\ LagInv
    /\ HealInv
    /\ GapInv

-----------------------------------------------------------------------------------
(* Computing: what the handlers do to the file they compute.                         *)

LEMMA ComputedKept == ASSUME UNCHANGED serviceVars PROVE Computed' = Computed /\ now' = now
  BY DEF serviceVars, identityVars, deviceVars, tokenVars, logVars, Computed

LEMMA ComputedHealthy == ASSUME NEW d \in Device PROVE Healthy(Computed, d) <=> Sincere(d)
  BY ComputedFields DEF Healthy, Sincere, UnderCurrentKey, Untainted, EventExplains

LEMMA ComputedHealthyNext ==
    ASSUME NEW d \in Device PROVE Healthy(Computed', d) <=> Sincere(d)'
  BY DEF Computed, Healthy, Sincere, UnderCurrentKey, Untainted, EventExplains

LEMMA ReferencesStep ==
    ASSUME ServiceTypeOK, References(Computed), [ServiceNext]_serviceVars
    PROVE  References(Computed')
  <1> DEFINE Bare(c) == /\ keys[c] = NoKey /\ tokens[c] = NoTokenRow
                        /\ FailuresOf(failures, c) = {}
                        /\ auditLog[c] = <<>> /\ enforcementLog[c] = <<>>
                        /\ lastEvent[c] = "none"
  <1>0. /\ \A c \in Device \ inventory : Bare(c)
        /\ (\A c \in Device \ inventory' : Bare(c)') => References(Computed')
    BY DEF References, Computed
  <1> SUFFICES ASSUME NEW c \in Device \ inventory' PROVE Bare(c)'
    BY <1>0
  <1>1. ASSUME NEW d \in Device, Handler(d) PROVE Bare(c)'
    <2>0. inventory \subseteq inventory'
      <3>1. \A e \in Device \ {d} : e \in inventory' <=> e \in inventory
        BY <1>1, OthersKept
      <3>2. d \in inventory => d \in inventory'
        BY <1>1, VerifyEffect
           DEF Handler, CreatePlaceholder, AddToInventory, UpsertIdentityKey, RotateKey,
               IssueProvisioningToken, GetIdentityProfile, GetSecurityState, ApplyPolicy,
               Enforced, ArchiveDevice, RestoreDevice, ReportMismatched, Report,
               ReportThrows, ReportRefused, ReportVerified, ReportUnprovisioned,
               ReportProvisioned, VerifyLockedOut, VerifyRejected, VerifyValid,
               VerifyThrows, identityVars
      <3> QED BY <3>1, <3>2 DEF ServiceTypeOK, IdentityTypeOK
    <2>1. Bare(c)
      BY <1>0, <2>0
    <2>2. CASE c # d
      BY <1>1, <2>1, <2>2, OthersKept
    <2>3. CASE c = d
      <3>1. CASE RestoreDevice(d)
        BY <2>1, <2>3, <3>1 DEF RestoreDevice, identityVars, tokenVars, logVars
      <3>2. ASSUME NEW m \in Heartbeat, Report(d, m) PROVE Bare(c)'
        <4>0. Verify(d, m) /\ IdentityTypeOK
          BY <3>2 DEF Report, ReportThrows, ReportRefused, ReportVerified,
                      ReportUnprovisioned, ReportProvisioned, Verify, ServiceTypeOK
        <4>1. CASE ReportThrows(d, m)
          BY <2>1, <2>3, <4>0, <4>1, VerifyEffect DEF ReportThrows, tokenVars, logVars
        <4>2. CASE ReportRefused(d, m)
          <5>1. d \in inventory
            BY <2>1, <2>3, <4>2, RefusedEffect
          <5> QED BY <2>0, <2>3, <5>1
        <4>3. CASE VerifyValid(d, m)
          <5>1. d \in inventory
            BY <4>0, <4>3, VerifyEffect
          <5> QED BY <2>0, <2>3, <5>1
        <4> QED BY <3>2, <4>1, <4>2, <4>3
                DEF Report, ReportVerified, ReportUnprovisioned, ReportProvisioned
      <3>3. CASE d \in inventory'
        BY <2>3, <3>3
      <3> QED
        BY <1>1, <2>0, <3>1, <3>2, <3>3
        DEF Handler, CreatePlaceholder, AddToInventory, UpsertIdentityKey, RotateKey,
            IssueProvisioningToken, GetIdentityProfile, ApplyPolicy, ArchiveDevice,
            ReportMismatched
    <2> QED BY <2>2, <2>3
  <1>2. CASE ClockTick \/ (\E dry \in DryRuns : Restart(dry)) \/ UNCHANGED serviceVars
    BY <1>0, <1>2
       DEF ClockTick, Tick, Restart, serviceVars, identityVars, deviceVars, tokenVars, logVars
  <1> QED BY <1>1, <1>2 DEF ServiceNext

LEMMA SoundStep ==
    ASSUME ServiceTypeOK, Sound(Computed, now), [ServiceNext]_serviceVars
    PROVE  Sound(Computed', now')
  <1>1. References(Computed')
    BY ReferencesStep DEF Sound
  <1>2. Backed(Computed')
    <2>1. \A d \in Device : KeyBacked(d)
      BY ComputedFields DEF Sound, Backed, KeyBacked
    <2>2. \A d \in Device : KeyBacked(d)'
      BY <2>1, KeyBackedStep
    <2> QED BY <2>2 DEF Backed, KeyBacked, Computed
  <1>3. Spent(Computed', now')
    <2>1. ReplayInv
      BY ComputedFields DEF Sound, Spent, ReplayInv
    <2>2. ReplayInv'
      BY <2>1, StepIsIdentityStep, ReplayStep DEF ServiceTypeOK
    <2> QED BY <2>2 DEF Spent, ReplayInv, Computed
  <1> QED BY <1>1, <1>2, <1>3 DEF Sound

(* Rows, keys and accepted heartbeats do not go away.                                *)
LEMMA GrowthStep ==
    ASSUME ServiceTypeOK, [ServiceNext]_serviceVars
    PROVE  /\ inventory \subseteq inventory'
           /\ \A d \in Device : keys[d] # NoKey => keys'[d] # NoKey
           /\ \A r \in NonceRow : accepted[r] <= accepted'[r]
  <1> DEFINE Grown == /\ inventory \subseteq inventory'
                      /\ \A d \in Device : keys[d] # NoKey => keys'[d] # NoKey
                      /\ \A r \in NonceRow : accepted[r] <= accepted'[r]
  <1>0. IdentityTypeOK /\ [IdentityNext]_identityVars /\ \A r \in NonceRow : accepted[r] \in 0 .. 2
    BY StepIsIdentityStep DEF ServiceTypeOK, IdentityTypeOK
  <1>1. CASE Tick \/ GetSecurityState \/ UNCHANGED identityVars
    BY <1>0, <1>1 DEF Tick, GetSecurityState, identityVars
  <1>2. ASSUME NEW d \in Device, AddToInventory(d) PROVE Grown
    BY <1>0, <1>2 DEF AddToInventory
  <1>3. ASSUME NEW d \in Device, NEW k \in Key, RotateKey(d, k) PROVE Grown
    BY <1>0, <1>3, KeyAssumption DEF RotateKey, IdentityTypeOK
  <1>4. ASSUME NEW d \in Device, NEW m \in Heartbeat, Verify(d, m) PROVE Grown
    <2>1. CASE VerifyLockedOut(d, m) \/ VerifyRejected(d, m) \/ VerifyThrows(d, m)
      BY <1>0, <2>1 DEF VerifyLockedOut, VerifyRejected, VerifyThrows
    <2>2. CASE VerifyValid(d, m)
      <3>1. accepted' = [accepted EXCEPT ![NonceRowOf(d, m)] = Again(@)]
        BY <2>2 DEF VerifyValid
      <3>2. \A r \in NonceRow : accepted[r] <= accepted'[r]
        BY <1>0, <3>1 DEF IdentityTypeOK, Again
      <3> QED BY <2>2, <3>2 DEF VerifyValid
    <2> QED BY <1>4, <2>1, <2>2 DEF Verify
  <1> QED BY <1>0, <1>1, <1>2, <1>3, <1>4 DEF IdentityNext

(* A row that starts in the state there was adds no gap.                             *)
LEMMA AppendKeepsGaps ==
    ASSUME NEW log \in Seq(AuditRow), NEW row \in AuditRow
    PROVE  Gaps(Append(log, row), row.next) = Gaps(log, row.prev)
  <1> DEFINE longer == Append(log, row)
  <1>1. /\ Len(longer) = Len(log) + 1 /\ Len(log) \in Nat
        /\ longer[Len(log) + 1] = row
        /\ \A i \in 1 .. Len(log) : longer[i] = log[i]
    OBVIOUS
  <1> DEFINE before(i) == IF i = 1 THEN "unknown" ELSE log[i - 1].next
             Longer(i) == (IF i = 1 THEN "unknown" ELSE longer[i - 1].next)
                            # (IF i > Len(longer) THEN row.next ELSE longer[i].prev)
             Shorter(i) == before(i) # (IF i > Len(log) THEN row.prev ELSE log[i].prev)
  <1>2. ASSUME NEW i \in 1 .. Len(log) PROVE Longer(i) <=> Shorter(i)
    <2>1. i = 1 \/ i - 1 \in 1 .. Len(log)
      BY <1>1
    <2>2. ~(i > Len(log)) /\ ~(i > Len(longer)) /\ longer[i] = log[i]
      BY <1>1
    <2>3. i # 1 => longer[i - 1] = log[i - 1]
      BY <1>1, <2>1
    <2> QED BY <2>2, <2>3
  <1>3. Longer(Len(log) + 1) <=> Shorter(Len(log) + 1)
    <2>1. Len(log) + 1 # 1 => longer[Len(log)] = log[Len(log)]
      BY <1>1
    <2>2. Len(log) + 1 > Len(log) /\ ~(Len(log) + 1 > Len(longer)) /\ Len(log) + 1 - 1 = Len(log)
      BY <1>1
    <2>3. longer[Len(log) + 1].prev = row.prev
      BY <1>1
    <2>4. Longer(Len(log) + 1) <=>
            (IF Len(log) + 1 = 1 THEN "unknown" ELSE longer[Len(log)].next) # row.prev
      <3> HIDE DEF longer
      <3> QED BY <2>2, <2>3
    <2>5. Shorter(Len(log) + 1) <=>
            (IF Len(log) + 1 = 1 THEN "unknown" ELSE log[Len(log)].next) # row.prev
      BY <2>2
    <2> HIDE DEF Longer, Shorter, longer
    <2> QED BY <2>1, <2>4, <2>5
  <1>4. ~Longer(Len(log) + 2)
    <2>1. Len(log) + 2 > Len(longer) /\ Len(log) + 2 # 1 /\ Len(log) + 2 - 1 = Len(log) + 1
      BY <1>1
    <2> QED BY <1>1, <2>1
  <1>5. ASSUME NEW i \in 1 .. Len(longer) + 1, Longer(i)
        PROVE  i \in 1 .. Len(log) + 1 /\ Shorter(i)
    <2>1. i \in 1 .. Len(log) \/ i = Len(log) + 1 \/ i = Len(log) + 2
      BY <1>1
    <2> HIDE DEF Longer, Shorter
    <2> QED BY <1>1, <1>2, <1>3, <1>4, <1>5, <2>1
  <1>6. ASSUME NEW i \in 1 .. Len(log) + 1, Shorter(i)
        PROVE  i \in 1 .. Len(longer) + 1 /\ Longer(i)
    <2>1. i \in 1 .. Len(log) \/ i = Len(log) + 1
      BY <1>1
    <2> HIDE DEF Longer, Shorter
    <2> QED BY <1>1, <1>2, <1>3, <1>6, <2>1
  <1>7. Gaps(longer, row.next) = {i \in 1 .. Len(longer) + 1 : Longer(i)}
    BY DEF Gaps
  <1>8. Gaps(log, row.prev) = {i \in 1 .. Len(log) + 1 : Shorter(i)}
    BY DEF Gaps
  <1> HIDE DEF Longer, Shorter, longer
  <1> QED BY <1>5, <1>6, <1>7, <1>8 DEF longer

LEMMA GapsKept ==
    ASSUME ServiceTypeOK, [ServiceNext]_serviceVars, NEW d \in Device
    PROVE  Gaps(auditLog'[d], state'[d]) = Gaps(auditLog[d], state[d])
  <1>1. Audited(d, auditLog'[d], state'[d]) /\ auditLog[d] \in Seq(AuditRow)
    BY AuditedStep DEF ServiceTypeOK
  <1> QED BY <1>1, AppendKeepsGaps DEF Audited

-----------------------------------------------------------------------------------
(* The writes that are left.                                                         *)

LEMMA TodoFacts ==
    ASSUME todo \in Seq(Write), todo # <<>>
    PROVE  /\ 1 \in DOMAIN todo /\ Head(todo) = todo[1] /\ Head(todo) \in Write
           /\ Tail(todo) \in Seq(Write)
           /\ \A i \in DOMAIN Tail(todo) : i + 1 \in DOMAIN todo /\ Tail(todo)[i] = todo[i + 1]
           /\ \A i \in DOMAIN todo :
                i = 1 \/ (i - 1 \in DOMAIN Tail(todo) /\ Tail(todo)[i - 1] = todo[i])
           /\ Tail(todo) # <<>> => 1 \in DOMAIN Tail(todo) /\ Head(Tail(todo)) = todo[2]
  OBVIOUS

LEMMA WritesFacts ==
    ASSUME NEW d \in Device, NEW tables, Ordered(tables), Listed(tables) # {}
    PROVE  LET w == Writes(d, tables) IN
           /\ w \in Seq(Write) /\ w # <<>> /\ Head(w).dev = d
           /\ DOMAIN w = DOMAIN tables
           /\ \A i \in DOMAIN w : w[i].table = tables[i] /\ w[i].dev = d
  <1> DEFINE w == Writes(d, tables)
  <1>1. /\ tables \in Seq(Entry) /\ DOMAIN tables = 1 .. Len(tables)
        /\ Len(tables) \in Nat
    BY DEF Ordered
  <1>2. DOMAIN tables # {}
    BY DEF Listed
  <1>3. /\ DOMAIN w = DOMAIN tables
        /\ \A i \in DOMAIN w : w[i] = [table |-> tables[i], dev |-> d]
    BY DEF Writes
  <1>4. w \in [1 .. Len(tables) -> Write]
    <2>1. \A i \in 1 .. Len(tables) : [table |-> tables[i], dev |-> d] \in Write
      BY <1>1 DEF Write
    <2> QED BY <1>1, <2>1 DEF Writes
  <1> HIDE DEF w
  <1>5. w \in Seq(Write)
    BY <1>1, <1>4
  <1>6. w # <<>> /\ Head(w) = w[1] /\ 1 \in DOMAIN w
    BY <1>1, <1>2, <1>3, <1>5
  <1> QED BY <1>3, <1>5, <1>6 DEF w

(* Between handlers everything computed is on disk.                                  *)
LEMMA DiskComplete == ASSUME CrashType, LagInv, todo = <<>> PROVE disk = Computed
  <1>1. \A t \in TableName : disk[t] = Computed[t]
    BY DEF LagInv
  <1>2. /\ disk = [t \in TableName |-> disk[t]]
        /\ Computed = [t \in TableName |-> Computed[t]]
    BY ComputedType DEF CrashType, File, TableName
  <1>3. [t \in TableName |-> disk[t]] = [t \in TableName |-> Computed[t]]
    BY <1>1
  <1> QED BY <1>2, <1>3

(* A table the next one relies on is up to date on disk.                             *)
LEMMA RelianceMet ==
    ASSUME CrashType, LagInv, todo # <<>>,
           NEW t \in TableName, <<t, Head(todo).table>> \in Precedence
    PROVE  disk[t] = Computed[t]
  <1>1. 1 \in DOMAIN todo /\ Head(todo) = todo[1]
    BY TodoFacts DEF CrashType
  <1>2. \A i \in DOMAIN todo : i \in Nat /\ i >= 1
    BY DEF CrashType
  <1>3. ASSUME NEW i \in DOMAIN todo, todo[i].table = t PROVE FALSE
    <2>1. <<todo[i].table, todo[1].table>> \in Precedence
      BY <1>1, <1>3
    <2>2. i < 1
      BY <1>1, <2>1 DEF LagInv
    <2> QED BY <1>2, <2>2
  <1> QED BY <1>3 DEF LagInv

(* A handler runs only between handlers.                                             *)
LEMMA HandlerFacts ==
    ASSUME CrashInv, NEW d \in Device, HandleOperator(d) \/ HandleReport(d)
    PROVE  /\ disk = Computed /\ disk' = disk /\ todo = <<>>
           /\ UNCHANGED <<crashes, torn>> /\ now' = now
           /\ [ServiceNext]_serviceVars /\ Handler(d)
           /\ todo' \in Seq(Write) /\ todo' # <<>> /\ Head(todo').dev = d
           /\ \A i \in DOMAIN todo' : todo'[i].dev = d
           /\ \A i, j \in DOMAIN todo' :
                <<todo'[i].table, todo'[j].table>> \in Precedence => i < j
           /\ \A t \in TableName :
                Computed'[t] = Computed[t] \/ \E i \in DOMAIN todo' : todo'[i].table = t
           /\ \A i \in DOMAIN todo' :
                todo'[i].table = "torn" => \E k \in Key : UpsertIdentityKey(d, k)
           /\ Completed(Left') /\ ("expiredFailures" \in Left' => NoneExpired')
  <1>1. /\ todo = <<>> /\ UNCHANGED <<dryRun, disk, crashes, torn>>
        /\ \E tables : todo' = Writes(d, tables) /\ Handled(d, tables)
    BY HandledAsListed DEF CrashInv, CrashType, ServiceTypeOK
  <1>2. PICK tables : todo' = Writes(d, tables) /\ Handled(d, tables)
    BY <1>1
  <1>3. disk = Computed
    BY <1>1, DiskComplete DEF CrashInv
  <1>4. Handler(d) /\ Ordered(tables) /\ Listed(tables) # {}
    BY <1>2 DEF Handled
  <1>5. [ServiceNext]_serviceVars
    BY <1>1, <1>4 DEF ServiceNext
  <1>6. now' = now
    <2>1. ASSUME NEW m \in Heartbeat, Report(d, m) PROVE now' = now
      BY <2>1 DEF Report, ReportThrows, ReportRefused, ReportVerified, ReportUnprovisioned,
                  ReportProvisioned, VerifyLockedOut, VerifyRejected, VerifyValid, VerifyThrows
    <2> QED
      BY <1>4, <2>1
      DEF Handler, CreatePlaceholder, AddToInventory, UpsertIdentityKey, RotateKey,
          IssueProvisioningToken, GetIdentityProfile, GetSecurityState, ApplyPolicy, Enforced,
          ArchiveDevice, RestoreDevice, ReportMismatched, identityVars
  <1>7. /\ todo' \in Seq(Write) /\ todo' # <<>> /\ Head(todo').dev = d
        /\ DOMAIN todo' = DOMAIN tables
        /\ \A i \in DOMAIN todo' : todo'[i].table = tables[i] /\ todo'[i].dev = d
    BY <1>2, <1>4, WritesFacts
  <1>8. \A i, j \in DOMAIN todo' : <<todo'[i].table, todo'[j].table>> \in Precedence => i < j
    BY <1>4, <1>7 DEF Ordered
  <1>9. \A t \in TableName :
            Computed'[t] = Computed[t] \/ \E i \in DOMAIN todo' : todo'[i].table = t
    BY <1>2, <1>7 DEF Handled, Listed
  <1>10. \A i \in DOMAIN todo' :
            todo'[i].table = "torn" => \E k \in Key : UpsertIdentityKey(d, k)
    BY <1>2, <1>7 DEF Handled, Listed
  <1>11. Left' = Listed(tables)
    BY <1>7 DEF Left, Listed
  <1>12. Completed(Left') /\ ("expiredFailures" \in Left' => NoneExpired')
    BY <1>2, <1>11 DEF Handled
  <1> QED BY <1>1, <1>3, <1>4, <1>5, <1>6, <1>7, <1>8, <1>9, <1>10, <1>12

-----------------------------------------------------------------------------------
(* Files that agree.                                                                 *)

LEMMA AgreeHealthy ==
    ASSUME NEW f \in File, NEW g \in File, NEW d \in Device, Agree(f, g, d), Healthy(f, d)
    PROVE  Healthy(g, d)
  BY DEF Agree, Healthy

(* A commit moves the disk towards what was computed.                                *)
LEMMA CommitBetween ==
    ASSUME CrashType, Commit, NEW d \in Device, Agree(disk, Computed, d)
    PROVE  Agree(disk, disk', d) /\ Agree(disk', Computed, d)
  <1>1. \A t \in TableName : disk'[t] = disk[t] \/ disk'[t] = Computed[t]
    BY CommitEffect
  <1>2. /\ disk'.inventory = disk.inventory \/ disk'.inventory = Computed.inventory
        /\ disk'.keys = disk.keys \/ disk'.keys = Computed.keys
        /\ disk'.failures = disk.failures \/ disk'.failures = Computed.failures
        /\ disk'.status = disk.status \/ disk'.status = Computed.status
        /\ disk'.state = disk.state \/ disk'.state = Computed.state
        /\ disk'.auditLog = disk.auditLog \/ disk'.auditLog = Computed.auditLog
        /\ disk'.lastEvent = disk.lastEvent \/ disk'.lastEvent = Computed.lastEvent
    BY <1>1 DEF TableName
  <1> HIDE DEF Computed
  <1> QED BY <1>2 DEF Agree

-----------------------------------------------------------------------------------
(* A commit.                                                                         *)

LEMMA CommitKeepsType == ASSUME CrashInv, Commit PROVE CrashType'
  <1>0. CrashType
    BY DEF CrashInv
  <1>1. ServiceTypeOK'
    <2>1. [ServiceNext]_serviceVars
      BY DEF Commit
    <2> QED BY <1>0, <2>1, ServiceTypeStep DEF CrashType
  <1>2. disk' \in File
    BY <1>0, CommitEffect
  <1>3. todo' \in Seq(Write) /\ torn' \subseteq Device /\ crashes' \in 0 .. MaxCrashes
    BY <1>0, TodoFacts DEF Commit, CrashType
  <1> QED BY <1>1, <1>2, <1>3 DEF CrashType

(* The writes left after one of them: the order stays, and what is to be completed.  *)
LEMMA RestInOrder ==
    ASSUME CrashType, LagInv, todo # <<>>, todo' = Tail(todo)
    PROVE  /\ \A i, j \in DOMAIN todo' :
                <<todo'[i].table, todo'[j].table>> \in Precedence => i < j
           /\ Left' \subseteq Left /\ Left \subseteq Left' \cup {Head(todo).table}
           /\ Completed(Left')
  <1>0. /\ \A i \in DOMAIN todo' : i + 1 \in DOMAIN todo /\ todo'[i] = todo[i + 1] /\ i \in Nat
        /\ \A i \in DOMAIN todo : i = 1 \/ (i - 1 \in DOMAIN todo' /\ todo'[i - 1] = todo[i])
        /\ 1 \in DOMAIN todo /\ Head(todo) = todo[1]
    <2>1. todo \in Seq(Write) /\ Tail(todo) \in Seq(Write)
      BY TodoFacts DEF CrashType
    <2>2. \A i \in DOMAIN todo' : i \in Nat
      BY <2>1
    <2> QED BY <2>1, <2>2, TodoFacts
  <1>1. ASSUME NEW i \in DOMAIN todo', NEW j \in DOMAIN todo',
               <<todo'[i].table, todo'[j].table>> \in Precedence
        PROVE  i < j
    <2>1. i + 1 < j + 1
      BY <1>0, <1>1 DEF LagInv
    <2> QED BY <1>0, <2>1
  <1>2. Left' \subseteq Left /\ Left \subseteq Left' \cup {Head(todo).table}
    <2>1. Left' = {todo'[i].table : i \in DOMAIN todo'}
      BY DEF Left
    <2>2. ASSUME NEW i \in DOMAIN todo' PROVE todo'[i].table \in Left
      BY <1>0 DEF Left
    <2>3. ASSUME NEW i \in DOMAIN todo PROVE todo[i].table \in Left' \cup {Head(todo).table}
      <3>1. CASE i = 1
        BY <1>0, <3>1
      <3>2. CASE i # 1
        <4>1. i - 1 \in DOMAIN todo' /\ todo'[i - 1].table = todo[i].table
          BY <1>0, <2>3, <3>2
        <4> QED BY <2>1, <4>1
      <3> QED BY <3>1, <3>2
    <2> QED BY <2>1, <2>2, <2>3 DEF Left
  <1>3. ASSUME NEW y, NEW x \in Left', <<x, y>> \in Precedence, y \in Left
        PROVE  y \in Left'
    <2>1. PICK i \in DOMAIN todo' : todo'[i].table = x
      BY <1>3 DEF Left
    <2>2. ASSUME y = Head(todo).table PROVE FALSE
      <3>1. i + 1 < 1
        BY <1>0, <1>3, <2>1, <2>2 DEF LagInv
      <3> QED BY <1>0, <3>1
    <2> QED BY <1>2, <1>3, <2>2
  <1>4. Completed(Left')
    <2>1. <<"expiredNonces", "nonces">> \in Precedence
      BY DEF Precedence
    <2>2. <<"expiredFailures", "failures">> \in Precedence
      BY DEF Precedence
    <2>3. Completed(Left)
      BY DEF LagInv
    <2> QED BY <1>2, <1>3, <2>1, <2>2, <2>3 DEF Completed
  <1> QED BY <1>1, <1>2, <1>4

LEMMA CommitKeepsLag == ASSUME CrashInv, Commit PROVE LagInv'
  <1>0. CrashType /\ LagInv /\ todo # <<>> /\ todo' = Tail(todo)
    BY DEF CrashInv, Commit
  <1>1. Computed' = Computed /\ inventory' = inventory /\ keys' = keys /\ accepted' = accepted
    BY ComputedKept DEF Commit, serviceVars, identityVars
  <1>2. ASSUME NEW t \in TableName
        PROVE  (\E i \in DOMAIN todo' : todo'[i].table = t) \/ disk'[t] = Computed'[t]
    <2>1. disk'[t] = IF t = Head(todo).table THEN Computed[t] ELSE disk[t]
      BY <1>0, CommitEffect
    <2>2. CASE t = Head(todo).table
      BY <1>1, <2>1, <2>2
    <2>3. CASE t # Head(todo).table
      <3>1. ASSUME NEW i \in DOMAIN todo, todo[i].table = t
            PROVE  \E j \in DOMAIN todo' : todo'[j].table = t
        BY <1>0, <2>3, <3>1, TodoFacts DEF CrashType
      <3>2. (\E i \in DOMAIN todo : todo[i].table = t) \/ disk[t] = Computed[t]
        BY <1>0 DEF LagInv
      <3> QED BY <1>1, <2>1, <2>3, <3>1, <3>2
    <2> QED BY <2>2, <2>3
  <1>3. \A i, j \in DOMAIN todo' : <<todo'[i].table, todo'[j].table>> \in Precedence => i < j
    BY <1>0, RestInOrder
  <1>4. disk'.inventory = disk.inventory \/ disk'.inventory = inventory
    BY <1>0, CommitEffect, ComputedFields DEF TableName
  <1>5. disk'.keys = disk.keys \/ disk'.keys = keys
    BY <1>0, CommitEffect, ComputedFields DEF TableName
  <1>6. disk'.failures = disk.failures \/ disk'.failures = <<failures, accepted>>
    BY <1>0, CommitEffect, ComputedFields DEF TableName
  <1>7. \A r \in NonceRow : disk'.failures[2][r] <= accepted[r]
    <2>1. \A r \in NonceRow : accepted[r] \in 0 .. 2
      BY <1>0 DEF CrashType, ServiceTypeOK, IdentityTypeOK
    <2> QED BY <1>0, <1>6, <2>1 DEF LagInv
  <1>8. disk'.inventory \subseteq inventory /\ \A d \in Device : disk'.keys[d] # NoKey => keys[d] # NoKey
    BY <1>0, <1>4, <1>5 DEF LagInv
  <1>9. Completed(Left') /\ ("expiredFailures" \in Left' => NoneExpired')
    <2>1. NoneExpired' <=> NoneExpired
      BY DEF Commit, serviceVars, identityVars, NoneExpired, Retention
    <2> QED BY <1>0, <2>1, RestInOrder DEF LagInv
  <1> QED BY <1>1, <1>2, <1>3, <1>7, <1>8, <1>9 DEF LagInv

LEMMA CommitKeepsReferences == ASSUME CrashInv, Commit PROVE References(disk')
  <1> DEFINE w == Head(todo).table
  <1>0. /\ CrashType /\ LagInv /\ todo # <<>> /\ References(disk) /\ References(Computed)
    BY DEF CrashInv, Commit, Sound
  <1>1. \A t \in TableName : disk'[t] = IF t = w THEN Computed[t] ELSE disk[t]
    BY <1>0, CommitEffect
  <1>2. w \in {"keys", "failures", "tokens", "lastEvent", "auditLog", "enforcementLog"}
          => disk.inventory = Computed.inventory
    <2>1. w \in {"keys", "failures", "tokens", "lastEvent", "auditLog", "enforcementLog"}
            => <<"inventory", w>> \in Precedence
      BY DEF Precedence
    <2> QED BY <1>0, <2>1, RelianceMet DEF TableName
  <1>3. disk.inventory \subseteq disk'.inventory
    BY <1>0, <1>1, ComputedFields DEF LagInv, TableName
  <1> SUFFICES ASSUME NEW d \in Device \ disk'.inventory
               PROVE  /\ disk'.keys[d] = NoKey
                      /\ disk'.tokens[1][d] = NoTokenRow
                      /\ FailuresOf(disk'.failures[1], d) = {}
                      /\ disk'.auditLog[d] = <<>> /\ disk'.enforcementLog[d] = <<>>
                      /\ disk'.lastEvent[d] = "none"
    BY DEF References
  <1> HIDE DEF w
  <1>4. d \in Device \ disk.inventory
    BY <1>3
  <1>5. disk'.keys[d] = NoKey
    <2>1. disk'.keys = IF w = "keys" THEN Computed.keys ELSE disk.keys
      BY <1>1 DEF TableName
    <2> QED BY <1>0, <1>2, <1>4, <2>1 DEF References
  <1>6. disk'.tokens[1][d] = NoTokenRow
    <2>1. disk'.tokens = IF w = "tokens" THEN Computed.tokens ELSE disk.tokens
      BY <1>1 DEF TableName
    <2> QED BY <1>0, <1>2, <1>4, <2>1 DEF References
  <1>7. FailuresOf(disk'.failures[1], d) = {}
    <2>1. disk'.failures = IF w = "failures" THEN Computed.failures ELSE disk.failures
      BY <1>1 DEF TableName
    <2> QED BY <1>0, <1>2, <1>4, <2>1 DEF References
  <1>8. disk'.auditLog[d] = <<>>
    <2>1. disk'.auditLog = IF w = "auditLog" THEN Computed.auditLog ELSE disk.auditLog
      BY <1>1 DEF TableName
    <2> QED BY <1>0, <1>2, <1>4, <2>1 DEF References
  <1>9. disk'.enforcementLog[d] = <<>>
    <2>1. disk'.enforcementLog =
            IF w = "enforcementLog" THEN Computed.enforcementLog ELSE disk.enforcementLog
      BY <1>1 DEF TableName
    <2> QED BY <1>0, <1>2, <1>4, <2>1 DEF References
  <1>10. disk'.lastEvent[d] = "none"
    <2>1. disk'.lastEvent = IF w = "lastEvent" THEN Computed.lastEvent ELSE disk.lastEvent
      BY <1>1 DEF TableName
    <2> QED BY <1>0, <1>2, <1>4, <2>1 DEF References
  <1> QED BY <1>5, <1>6, <1>7, <1>8, <1>9, <1>10

LEMMA CommitKeepsSound == ASSUME CrashInv, Commit PROVE Sound(disk', now)
  <1> DEFINE w == Head(todo).table
  <1>0. /\ CrashType /\ LagInv /\ todo # <<>>
        /\ Sound(disk, now) /\ Sound(Computed, now)
    BY DEF CrashInv, Commit
  <1>1. \A t \in TableName : disk'[t] = IF t = w THEN Computed[t] ELSE disk[t]
    BY <1>0, CommitEffect
  <1>2. Backed(disk')
    <2>1. w \in {"status", "state"} => disk.keys = Computed.keys
      <3>1. w \in {"status", "state"} => <<"keys", w>> \in Precedence
        BY DEF Precedence
      <3> QED BY <1>0, <3>1, RelianceMet DEF TableName
    <2> HIDE DEF w
    <2>2. /\ disk'.keys = IF w = "keys" THEN Computed.keys ELSE disk.keys
          /\ disk'.status = IF w = "status" THEN Computed.status ELSE disk.status
          /\ disk'.state = IF w = "state" THEN Computed.state ELSE disk.state
      BY <1>1 DEF TableName
    <2>3. \A d \in Device : disk.keys[d] # NoKey => Computed.keys[d] # NoKey
      BY <1>0, ComputedFields DEF LagInv
    <2> QED BY <1>0, <2>1, <2>2, <2>3 DEF Sound, Backed
  <1>3. Spent(disk', now)
    <2>1. w = "failures" => disk.nonces = Computed.nonces
      <3>1. w = "failures" => <<"nonces", w>> \in Precedence
        BY DEF Precedence
      <3> QED BY <1>0, <3>1, RelianceMet DEF TableName
    <2> HIDE DEF w
    <2>2. /\ disk'.nonces = IF w = "nonces" THEN Computed.nonces ELSE disk.nonces
          /\ disk'.failures = IF w = "failures" THEN Computed.failures ELSE disk.failures
      BY <1>1 DEF TableName
    <2>3. \A r \in NonceRow :
            /\ disk.failures[2][r] \in 0 .. 2 /\ Computed.failures[2][r] \in 0 .. 2
            /\ disk.failures[2][r] <= Computed.failures[2][r]
      BY <1>0, ComputedFields
         DEF LagInv, CrashType, File, ServiceTypeOK, IdentityTypeOK
    <2> QED BY <1>0, <2>1, <2>2, <2>3 DEF Sound, Spent
  <1> QED BY <1>2, <1>3, CommitKeepsReferences DEF Sound

LEMMA CommitKeepsHeal == ASSUME CrashInv, Commit PROVE HealInv'
  <1>0. /\ CrashType /\ LagInv /\ HealInv /\ todo # <<>> /\ todo' = Tail(todo)
        /\ disk \in File /\ Computed \in File /\ disk' \in File
    BY ComputedType, CommitEffect DEF CrashInv, CrashType, Commit
  <1>1. Computed' = Computed
    BY ComputedKept DEF Commit
  <1>2. /\ \A i \in DOMAIN todo' : i + 1 \in DOMAIN todo /\ todo'[i] = todo[i + 1]
        /\ todo' # <<>> => 1 \in DOMAIN todo' /\ Head(todo') = todo'[1]
        /\ todo # <<>> /\ Head(todo) = todo[1] /\ 1 \in DOMAIN todo
    BY <1>0, TodoFacts, CommitKeepsType DEF CrashType
  <1>3. \A i \in DOMAIN todo' : todo'[i].dev = Head(todo).dev
    BY <1>0, <1>2 DEF HealInv
  <1>4. /\ \A i \in DOMAIN todo' : todo'[i].dev = Head(todo').dev
        /\ todo' # <<>> => Head(todo').dev = Head(todo).dev
    <2>1. todo' # <<>> => Head(todo').dev = Head(todo).dev
      BY <1>2, <1>3
    <2>2. \A i \in DOMAIN todo' : todo' # <<>>
      BY <1>0
    <2> QED BY <1>3, <2>1, <2>2
  <1>5. \A i \in DOMAIN todo' : todo'[i].table = "torn" => Healthy(Computed', todo'[i].dev)
    BY <1>0, <1>1, <1>2 DEF HealInv
  <1>6. todo' = <<>> => disk' = Computed'
    <2>1. CrashType' /\ LagInv'
      BY CommitKeepsType, CommitKeepsLag
    <2>2. ASSUME CrashType', LagInv', todo' = <<>> PROVE disk' = Computed'
      <3>1. \A t \in TableName : disk'[t] = Computed'[t]
        BY <2>2 DEF LagInv
      <3>2. /\ disk' = [t \in TableName |-> disk'[t]]
            /\ Computed' = [t \in TableName |-> Computed'[t]]
        BY <1>0, <1>1 DEF File, TableName
      <3>3. [t \in TableName |-> disk'[t]] = [t \in TableName |-> Computed'[t]]
        BY <3>1
      <3> QED BY <3>2, <3>3
    <2> QED BY <2>1, <2>2
  <1>7. ASSUME NEW d \in Device, ~Served(d)
        PROVE  Agree(disk, disk', d) /\ Agree(disk', Computed, d)
    <2>1. Agree(disk, Computed, d)
      BY <1>0, <1>7 DEF HealInv
    <2> QED BY <1>0, <2>1, CommitBetween
  <1>8. ASSUME NEW d \in Device \ torn'
        PROVE  Healthy(Computed', d) /\ (Served(d)' \/ Healthy(disk', d))
    <2>1. d \in torn => Head(todo).table = "torn" /\ Head(todo).dev = d
      BY <1>8 DEF Commit
    <2>2. Healthy(Computed, d)
      BY <1>0, <1>2, <2>1 DEF HealInv
    <2>3. CASE Served(d)
      BY <1>1, <1>4, <1>6, <2>2, <2>3 DEF Served
    <2>4. CASE ~Served(d)
      <3>1. d \notin torn
        BY <1>0, <2>1, <2>4 DEF Served
      <3>2. Healthy(disk, d)
        BY <1>0, <2>4, <3>1 DEF HealInv
      <3>3. Healthy(disk', d)
        BY <1>0, <1>7, <2>4, <3>2, AgreeHealthy
      <3> QED BY <1>1, <2>2, <3>3
    <2> QED BY <2>3, <2>4
  <1>9. ASSUME NEW d \in Device PROVE Served(d)' \/ Agree(disk', Computed', d)
    <2>1. CASE Served(d)
      <3>1. Agree(Computed, Computed, d)
        BY DEF Agree
      <3> QED BY <1>1, <1>4, <1>6, <2>1, <3>1 DEF Served
    <2>2. CASE ~Served(d)
      BY <1>1, <1>7, <2>2
    <2> QED BY <2>1, <2>2
  <1> QED BY <1>4, <1>5, <1>8, <1>9 DEF HealInv

(* A statement that evicts rows: it takes away none that a heartbeat still needs, and *)
(* none of those computed.                                                           *)
LEMMA EvictionKeeps == ASSUME CrashInv, CommitEviction PROVE CrashInv'
  <1> DEFINE e == Head(todo).table
  <1>0. /\ CrashType /\ Sound(Computed, now) /\ Sound(disk, now) /\ LagInv /\ HealInv /\ GapInv
        /\ todo # <<>> /\ todo' = Tail(todo) /\ UNCHANGED <<crashes, torn>>
        /\ disk \in File /\ Computed \in File /\ ServiceTypeOK /\ now \in Nat
    BY ComputedType DEF CrashInv, CrashType, CommitEviction, ServiceTypeOK, IdentityTypeOK
  <1>1. /\ Computed' = Computed /\ now' = now
        /\ UNCHANGED <<inventory, keys, accepted, auditLog, state>>
        /\ (NoneExpired' <=> NoneExpired)
    BY ComputedKept
       DEF CommitEviction, serviceVars, identityVars, deviceVars, logVars, NoneExpired, Retention
  <1>2. /\ disk' \in File
        /\ disk'.inventory = disk.inventory /\ disk'.keys = disk.keys
        /\ disk'.tokens = disk.tokens /\ disk'.status = disk.status /\ disk'.state = disk.state
        /\ disk'.auditLog = disk.auditLog /\ disk'.enforcementLog = disk.enforcementLog
        /\ disk'.lastEvent = disk.lastEvent /\ disk'.failures[2] = disk.failures[2]
        /\ disk'.failures[1] \subseteq disk.failures[1]
    BY <1>0, EvictionEffect DEF TableName, KeptFailures
  <1>3. CrashType'
    <2>1. ServiceTypeOK'
      BY <1>0, ServiceTypeStep DEF CommitEviction
    <2>2. todo' \in Seq(Write)
      BY <1>0, TodoFacts DEF CrashType
    <2> QED BY <1>0, <1>2, <2>1, <2>2 DEF CrashType
  <1>4. Sound(disk', now)
    <2>1. References(disk') /\ Backed(disk')
      BY <1>0, <1>2 DEF Sound, References, Backed, FailuresOf
    <2>2. ASSUME NEW r \in NonceRow, r \in disk.nonces
          PROVE  r \in disk'.nonces \/ r.ts.sortsAs + NonceTtl < now
      <3>1. r.ts.sortsAs \in Int
        BY TimestampAssumption DEF NonceRow
      <3>2. disk'.nonces = disk.nonces \/ disk'.nonces = KeptNonces(disk.nonces, now)
        BY <1>0, EvictionEffect
      <3> QED BY <1>0, <2>2, <3>1, <3>2, BoundAssumption DEF KeptNonces
    <2>3. Spent(disk', now)
      BY <1>0, <1>2, <2>2 DEF Sound, Spent
    <2> QED BY <2>1, <2>3 DEF Sound
  <1>5. LagInv'
    <2>1. /\ \A i, j \in DOMAIN todo' :
                <<todo'[i].table, todo'[j].table>> \in Precedence => i < j
          /\ Left' \subseteq Left /\ Left \subseteq Left' \cup {e} /\ Completed(Left')
      BY <1>0, RestInOrder
    <2>2. e \in Left /\ e \in {"expiredNonces", "expiredFailures"}
      BY <1>0, TodoFacts DEF Left, CrashType, CommitEviction
    <2>3. /\ e = "expiredNonces" => "nonces" \in Left'
          /\ e = "expiredFailures" => "failures" \in Left'
      BY <1>0, <2>1, <2>2 DEF LagInv, Completed
    <2>4. ASSUME NEW t \in TableName PROVE t \in Left' \/ disk'[t] = Computed'[t]
      <3>1. t \in Left \/ disk[t] = Computed[t]
        BY <1>0 DEF LagInv, Left
      <3>2. t \in Left => t \in Left'
        BY <2>1, <2>2, <2>4 DEF TableName
      <3>3. t \in Left' \/ disk'[t] = disk[t]
        <4>1. CASE e = "expiredNonces"
          <5>1. \A u \in TableName \ {"nonces"} : disk'[u] = disk[u]
            BY <1>0, <4>1, EvictionEffect DEF TableName
          <5> QED BY <2>3, <4>1, <5>1
        <4>2. CASE e = "expiredFailures"
          <5>1. \A u \in TableName \ {"failures"} : disk'[u] = disk[u]
            BY <1>0, <4>2, EvictionEffect DEF TableName
          <5> QED BY <2>3, <4>2, <5>1
        <4> QED BY <2>2, <4>1, <4>2
      <3> QED BY <1>1, <3>1, <3>2, <3>3
    <2>5. \A t \in TableName :
            (\E i \in DOMAIN todo' : todo'[i].table = t) \/ disk'[t] = Computed'[t]
      BY <2>4 DEF Left
    <2>6. "expiredFailures" \in Left' => NoneExpired'
      BY <1>0, <1>1, <2>1 DEF LagInv
    <2> QED BY <1>0, <1>1, <1>2, <2>1, <2>5, <2>6 DEF LagInv
  <1>6. HealInv'
    <2>1. /\ \A i \in DOMAIN todo' : i + 1 \in DOMAIN todo /\ todo'[i] = todo[i + 1]
          /\ 1 \in DOMAIN todo' /\ todo' # <<>> /\ Head(todo') = todo'[1]
      <3>1. \E i \in DOMAIN todo' : TRUE
        <4>1. todo # <<>> /\ Head(todo).table \in Left
          BY <1>0, TodoFacts DEF Left, CrashType
        <4>2. Left' # {}
          BY <1>0, <1>5, <4>1, RestInOrder DEF LagInv, Completed, CommitEviction
        <4> QED BY <4>2 DEF Left
      <3>2. todo' # <<>>
        BY <3>1
      <3> QED BY <1>0, <3>2, TodoFacts DEF CrashType
    <2>2. \A i \in DOMAIN todo' : todo'[i].dev = Head(todo).dev
      BY <1>0, <2>1 DEF HealInv
    <2>3. Head(todo').dev = Head(todo).dev
      BY <2>1, <2>2
    <2>4. \A d \in Device : Served(d)' <=> Served(d)
      BY <1>0, <2>1, <2>3 DEF Served
    <2>5. \A i \in DOMAIN todo' : todo'[i].table = "torn" => Healthy(Computed', todo'[i].dev)
      BY <1>0, <1>1, <2>1 DEF HealInv
    <2>6. ASSUME NEW d \in Device \ torn'
          PROVE  Healthy(Computed', d) /\ (Served(d)' \/ Healthy(disk', d))
      <3>1. Healthy(disk, d) => Healthy(disk', d)
        BY <1>2 DEF Healthy, FailuresOf
      <3> QED BY <1>0, <1>1, <2>4, <2>6, <3>1 DEF HealInv
    <2>7. ASSUME NEW d \in Device, Agree(disk, Computed, d) PROVE Agree(disk', Computed', d)
      <3>1. FailuresOf(failures, d) \subseteq FailuresOf(disk'.failures[1], d)
        <4>1. FailuresOf(failures, d) \subseteq FailuresOf(disk.failures[1], d)
          BY <2>7, ComputedFields DEF Agree
        <4>2. CASE e = "expiredNonces"
          BY <1>0, <4>1, <4>2, EvictionEffect
        <4>3. CASE e = "expiredFailures"
          <5>1. NoneExpired
            BY <1>0, <4>3, TodoFacts DEF LagInv, Left, CrashType
          <5>2. disk'.failures[1] = KeptFailures(disk.failures[1], now)
            BY <1>0, <4>3, EvictionEffect
          <5> QED BY <4>1, <5>1, <5>2 DEF NoneExpired, KeptFailures, FailuresOf
        <4> QED BY <4>2, <4>3 DEF CommitEviction
      <3> QED BY <1>1, <1>2, <2>7, <3>1, ComputedFields DEF Agree
    <2> QED BY <1>0, <2>2, <2>3, <2>4, <2>5, <2>6, <2>7 DEF HealInv
  <1>7. GapInv'
    <2>1. ASSUME NEW d \in Device, Served(d)' PROVE Served(d)
      <3>1. todo' # <<>> /\ \A i \in DOMAIN todo' : todo'[i].dev = Head(todo).dev
        <4>1. \A i \in DOMAIN todo' : i + 1 \in DOMAIN todo /\ todo'[i] = todo[i + 1]
          BY <1>0, TodoFacts DEF CrashType
        <4> QED BY <1>0, <2>1, <4>1 DEF HealInv, Served
      <3>2. Head(todo') = todo'[1] /\ 1 \in DOMAIN todo'
        BY <1>3, <3>1 DEF CrashType
      <3> QED BY <1>0, <2>1, <3>1, <3>2 DEF Served
    <2> QED BY <1>0, <1>1, <1>2, <2>1 DEF GapInv
  <1> QED BY <1>0, <1>1, <1>3, <1>4, <1>5, <1>6, <1>7 DEF CrashInv

(* Where a log ends only decides whether there is a gap at its end.                  *)
LEMMA GapsElsewhere ==
    ASSUME NEW log \in Seq(AuditRow), NEW st1, NEW st2
    PROVE  Gaps(log, st1) \subseteq Gaps(log, st2) \cup {Len(log) + 1}
  <1>1. \A i \in 1 .. Len(log) + 1 : i > Len(log) => i = Len(log) + 1
    OBVIOUS
  <1> QED BY <1>1 DEF Gaps

LEMMA CommitKeepsGaps == ASSUME CrashInv, Commit PROVE GapInv'
  <1> DEFINE w == Head(todo).table
  <1>0. /\ CrashType /\ LagInv /\ GapInv /\ todo # <<>>
        /\ HealInv /\ HealInv'
    BY CommitKeepsHeal DEF CrashInv, Commit
  <1>1. Computed' = Computed /\ auditLog' = auditLog /\ state' = state /\ crashes' = crashes
    BY ComputedKept DEF Commit, serviceVars, logVars, deviceVars
  <1>2. \A t \in TableName : disk'[t] = IF t = w THEN Computed[t] ELSE disk[t]
    BY <1>0, CommitEffect
  <1>3. w = "auditLog" => disk.state = state
    <2>1. w = "auditLog" => <<"state", w>> \in Precedence
      BY DEF Precedence
    <2> QED BY <1>0, <2>1, RelianceMet, ComputedFields DEF TableName
  <1> HIDE DEF w
  <1>4. /\ disk'.auditLog = IF w = "auditLog" THEN auditLog ELSE disk.auditLog
        /\ disk'.state = IF w = "state" THEN state ELSE disk.state
    BY <1>2, ComputedFields DEF TableName
  <1>5. ASSUME NEW d \in Device, Served(d)'
        PROVE  Gaps(disk'.auditLog[d], disk'.state[d])
                 \subseteq Gaps(auditLog[d], state[d]) \cup {Len(disk'.auditLog[d]) + 1}
    <2>1. Served(d)
      <3>1. todo' # <<>> => 1 \in DOMAIN todo' /\ Head(todo') = todo'[1]
        BY <1>0, CommitKeepsType DEF CrashType
      <3>2. /\ todo' = Tail(todo)
            /\ \A i \in DOMAIN todo' : i + 1 \in DOMAIN todo /\ todo'[i] = todo[i + 1]
        BY <1>0, TodoFacts DEF Commit, CrashType
      <3> QED BY <1>0, <1>5, <3>1, <3>2 DEF Served, HealInv
    <2>2. CASE w = "auditLog"
      BY <1>3, <1>4, <2>2
    <2>3. CASE w # "auditLog"
      <3>1. disk'.auditLog[d] = disk.auditLog[d] /\ disk.auditLog[d] \in Seq(AuditRow)
        BY <1>0, <1>4, <2>3, FileFields DEF CrashType
      <3>2. Gaps(disk'.auditLog[d], disk'.state[d])
              \subseteq Gaps(disk.auditLog[d], disk.state[d]) \cup {Len(disk.auditLog[d]) + 1}
        BY <3>1, GapsElsewhere
      <3>3. Gaps(disk.auditLog[d], disk.state[d])
              \subseteq Gaps(auditLog[d], state[d]) \cup {Len(disk.auditLog[d]) + 1}
        BY <1>0, <2>1 DEF GapInv
      <3> QED BY <3>1, <3>2, <3>3
    <2> QED BY <2>2, <2>3
  <1> QED BY <1>0, <1>1, <1>5 DEF GapInv

-----------------------------------------------------------------------------------
(* A handler.                                                                        *)

LEMMA HandlerKeeps ==
    ASSUME CrashInv, NEW d \in Device, HandleOperator(d) \/ HandleReport(d)
    PROVE  CrashInv'
  <1>0. /\ CrashType /\ ServiceTypeOK /\ Sound(Computed, now) /\ LagInv /\ HealInv /\ GapInv
        /\ disk = Computed /\ disk' = disk /\ todo = <<>>
        /\ crashes' = crashes /\ torn' = torn /\ now' = now
        /\ [ServiceNext]_serviceVars /\ Handler(d)
    BY HandlerFacts DEF CrashInv, CrashType
  <1>1. CrashType'
    BY <1>0, HandlerFacts, ServiceTypeStep DEF CrashType
  <1>2. Sound(Computed', now') /\ Sound(disk', now')
    BY <1>0, SoundStep
  <1>3. LagInv'
    <2>1. /\ disk'.inventory = inventory /\ disk'.keys = keys
          /\ disk'.failures = <<failures, accepted>>
      BY <1>0, ComputedFields
    <2>2. \A t \in TableName :
            (\E i \in DOMAIN todo' : todo'[i].table = t) \/ disk'[t] = Computed'[t]
      BY <1>0, HandlerFacts
    <2>3. \A i, j \in DOMAIN todo' : <<todo'[i].table, todo'[j].table>> \in Precedence => i < j
      BY HandlerFacts
    <2>4. Completed(Left') /\ ("expiredFailures" \in Left' => NoneExpired')
      BY HandlerFacts
    <2> QED BY <1>0, <2>1, <2>2, <2>3, <2>4, GrowthStep DEF LagInv
  <1>4. HealInv'
    <2>1. \A i \in DOMAIN todo' : todo'[i].dev = Head(todo').dev
      BY HandlerFacts
    <2>2. \A i \in DOMAIN todo' : todo'[i].table = "torn" => Healthy(Computed', todo'[i].dev)
      <3>1. (\E k \in Key : UpsertIdentityKey(d, k)) => Healthy(Computed', d)
        BY <1>0, SincereByKey, ComputedHealthyNext
      <3> QED BY <3>1, HandlerFacts
    <2>3. todo' # <<>> /\ Head(todo').dev = d
      BY HandlerFacts
    <2>4. ASSUME NEW c \in Device \ torn'
          PROVE  Healthy(Computed', c) /\ (Served(c)' \/ Healthy(disk', c))
      <3>1. Healthy(Computed, c)
        BY <1>0 DEF HealInv
      <3>2. KeyBacked(c) /\ Sincere(c)
        <4>1. KeyBacked(c)
          BY <1>0, ComputedFields DEF Sound, Backed, KeyBacked
        <4> QED BY <3>1, <4>1, ComputedHealthy
      <3>3. Sincere(c)'
        BY <1>0, <3>2, SincereStep
      <3> QED BY <1>0, <3>1, <3>3, ComputedHealthyNext
    <2>5. ASSUME NEW c \in Device PROVE Served(c)' \/ Agree(disk', Computed', c)
      <3>1. CASE c = d
        BY <2>3, <3>1 DEF Served
      <3>2. CASE c # d
        <4>1. Agree(Computed, Computed', c)
          BY <1>0, <3>2, OthersKept DEF Agree, Computed
        <4> QED BY <1>0, <4>1
      <3> QED BY <3>1, <3>2
    <2> QED BY <2>1, <2>2, <2>4, <2>5 DEF HealInv
  <1>5. GapInv'
    <2>1. GapSet(Computed') = GapSet(Computed)
      <3>1. \A c \in Device : Gaps(auditLog'[c], state'[c]) = Gaps(auditLog[c], state[c])
        BY <1>0, GapsKept
      <3> QED BY <3>1 DEF GapSet, Computed
    <2>2. ASSUME NEW c \in Device
          PROVE  Gaps(disk'.auditLog[c], disk'.state[c]) = Gaps(auditLog'[c], state'[c])
      BY <1>0, GapsKept, ComputedFields
    <2> QED BY <1>0, <2>1, <2>2 DEF GapInv
  <1> QED BY <1>1, <1>2, <1>3, <1>4, <1>5 DEF CrashInv

-----------------------------------------------------------------------------------
(* Time, and a crash.                                                                *)

LEMMA TickKeeps == ASSUME CrashInv, ClockTickBetween PROVE CrashInv'
  <1>0. /\ CrashType /\ ServiceTypeOK /\ Sound(Computed, now) /\ LagInv /\ HealInv /\ GapInv
        /\ todo = <<>> /\ disk = Computed /\ UNCHANGED <<disk, todo, crashes, torn>>
        /\ [ServiceNext]_serviceVars
    BY DiskComplete DEF CrashInv, CrashType, ClockTickBetween, ServiceNext
  <1>1. Computed' = Computed
    BY DEF ClockTickBetween, ClockTick, Tick, deviceVars, tokenVars, logVars,
           Computed
  <1>2. UNCHANGED <<inventory, keys, accepted, auditLog, state>>
    BY DEF ClockTickBetween, ClockTick, Tick, deviceVars, logVars
  <1>3. CrashType'
    BY <1>0, ServiceTypeStep DEF CrashType
  <1>4. Sound(Computed', now') /\ Sound(disk', now')
    BY <1>0, <1>1, SoundStep
  <1>5. LagInv'
    <2>1. Left' = {}
      BY <1>0 DEF Left
    <2>2. Completed(Left') /\ ("expiredFailures" \in Left' => NoneExpired')
      BY <2>1 DEF Completed
    <2> QED BY <1>0, <1>1, <1>2, <2>2 DEF LagInv
  <1>6. HealInv'
    BY <1>0, <1>1 DEF HealInv, Served
  <1>7. GapInv'
    BY <1>0, <1>1, <1>2 DEF GapInv, Served
  <1> QED BY <1>3, <1>4, <1>5, <1>6, <1>7 DEF CrashInv

LEMMA CrashKeeps == ASSUME CrashInv, Crash PROVE CrashInv'
  <1>0. /\ CrashType /\ disk \in File /\ Sound(disk, now) /\ LagInv /\ HealInv /\ GapInv
        /\ todo # <<>> /\ todo' = <<>> /\ crashes' = crashes + 1 /\ crashes < MaxCrashes
        /\ torn' = torn \cup {Head(todo).dev} /\ disk' = disk /\ now' = now
        /\ Computed' = disk /\ Head(todo) \in Write
    BY CrashEffect, TodoFacts DEF CrashInv, CrashType, Crash
  <1>1. CrashType'
    <2>1. ServiceTypeOK'
      BY <1>0, FileFields, DryRunAssumption
         DEF Crash, CrashType, ServiceTypeOK, IdentityTypeOK
    <2>2. torn' \subseteq Device /\ crashes' \in 0 .. MaxCrashes /\ todo' \in Seq(Write)
      BY <1>0, CrashAssumption DEF CrashType, Write
    <2> QED BY <1>0, <2>1, <2>2 DEF CrashType
  <1>2. Sound(Computed', now') /\ Sound(disk', now')
    BY <1>0
  <1>3. LagInv'
    <2>1. inventory' = disk.inventory /\ keys' = disk.keys /\ accepted' = disk.failures[2]
      BY DEF Crash
    <2>2. \A r \in NonceRow : disk.failures[2][r] \in 0 .. 2
      BY <1>0, FileFields
    <2>3. DOMAIN todo' = {}
      BY <1>0
    <2>4. Completed(Left') /\ ("expiredFailures" \in Left' => NoneExpired')
      BY <2>3 DEF Left, Completed
    <2> QED BY <1>0, <2>1, <2>2, <2>3, <2>4 DEF LagInv
  <1>4. HealInv'
    <2>1. DOMAIN todo' = {}
      BY <1>0
    <2>2. \A d \in Device \ torn' : Healthy(disk, d)
      BY <1>0 DEF HealInv, Served
    <2>3. \A d \in Device : Agree(disk, disk, d)
      BY DEF Agree
    <2> QED BY <1>0, <2>1, <2>2, <2>3 DEF HealInv
  <1>5. GapInv'
    <2> DEFINE dev == Head(todo).dev
               last == <<dev, Len(disk.auditLog[dev]) + 1>>
    <2>1. GapSet(disk) \subseteq GapSet(Computed) \cup {last}
      <3> SUFFICES ASSUME NEW d \in Device, NEW i \in Gaps(disk.auditLog[d], disk.state[d])
                   PROVE  i \in Gaps(auditLog[d], state[d]) \/ <<d, i>> = last
        BY ComputedFields DEF GapSet
      <3>1. CASE Served(d)
        BY <1>0, <3>1 DEF GapInv, Served
      <3>2. CASE ~Served(d)
        BY <1>0, <3>2, ComputedFields DEF HealInv, Agree
      <3> QED BY <3>1, <3>2
    <2> HIDE DEF last
    <2>2. /\ IsFiniteSet(GapSet(Computed)) /\ Cardinality(GapSet(Computed)) <= crashes
          /\ crashes \in Nat
      BY <1>0 DEF GapInv, CrashType
    <2>3. IsFiniteSet(GapSet(Computed) \cup {last})
      BY <2>2, FS_AddElement
    <2>4. Cardinality(GapSet(Computed) \cup {last}) <= crashes + 1
      <3>1. Cardinality(GapSet(Computed)) \in Nat
        BY <2>2, FS_CardinalityType
      <3>2. \/ Cardinality(GapSet(Computed) \cup {last}) = Cardinality(GapSet(Computed))
            \/ Cardinality(GapSet(Computed) \cup {last}) = Cardinality(GapSet(Computed)) + 1
        BY <2>2, FS_AddElement
      <3> QED BY <2>2, <3>1, <3>2
    <2>5. /\ IsFiniteSet(GapSet(disk))
          /\ Cardinality(GapSet(disk)) <= Cardinality(GapSet(Computed) \cup {last})
      BY <2>1, <2>3, FS_Subset
    <2>6. Cardinality(GapSet(disk)) <= crashes + 1
      <3>1. Cardinality(GapSet(disk)) \in Nat
        BY <2>5, FS_CardinalityType
      <3>2. Cardinality(GapSet(Computed) \cup {last}) \in Nat
        BY <2>3, FS_CardinalityType
      <3> QED BY <2>2, <2>4, <2>5, <3>1, <3>2
    <2>7. \A d \in Device : ~Served(d)'
      BY <1>0 DEF Served
    <2> QED BY <1>0, <2>5, <2>6, <2>7 DEF GapInv
  <1> QED BY <1>1, <1>2, <1>3, <1>4, <1>5 DEF CrashInv
-----------------------------------------------------------------------------------
(* The invariant is one.                                                             *)

LEMMA CommitKeeps == ASSUME CrashInv, Commit PROVE CrashInv'
  <1>1. Computed' = Computed /\ now' = now
    BY ComputedKept DEF Commit
  <1>2. Sound(Computed', now') /\ Sound(disk', now')
    BY <1>1, CommitKeepsSound DEF CrashInv
  <1> QED BY <1>2, CommitKeepsType, CommitKeepsLag, CommitKeepsHeal, CommitKeepsGaps
          DEF CrashInv

LEMMA CrashInvInit == CrashInit => CrashInv
  <1> SUFFICES ASSUME CrashInit PROVE CrashInv
    OBVIOUS
  <1>0. /\ ServiceInit /\ ServiceTypeOK /\ TrustInv
        /\ disk = Computed /\ todo = <<>> /\ crashes = 0 /\ torn = {}
    BY ServiceTypeInit, TrustInvInit DEF CrashInit
  <1>1. CrashType
    BY <1>0, ComputedType, CrashAssumption DEF CrashType
  <1>2. Sound(Computed, now)
    <2>1. References(Computed)
      BY <1>0, ComputedFields DEF ServiceInit, IdentityInit, References, FailuresOf
    <2>2. Backed(Computed)
      BY <1>0, ComputedFields DEF TrustInv, KeyBacked, Backed
    <2>3. Spent(Computed, now)
      BY <1>0, ComputedFields DEF ServiceInit, IdentityInit, Spent
    <2> QED BY <2>1, <2>2, <2>3 DEF Sound
  <1>3. DOMAIN todo = {}
    BY <1>0
  <1>4. LagInv
    <2>1. \A r \in NonceRow : accepted[r] \in 0 .. 2
      BY <1>0 DEF ServiceTypeOK, IdentityTypeOK
    <2>2. Completed(Left) /\ ("expiredFailures" \in Left => NoneExpired)
      BY <1>3 DEF Left, Completed
    <2> QED BY <1>0, <1>3, <2>1, <2>2, ComputedFields DEF LagInv
  <1>5. HealInv
    <2>1. \A d \in Device : Healthy(Computed, d)
      BY <1>0, ComputedHealthy DEF TrustInv
    <2>2. \A d \in Device : Agree(Computed, Computed, d)
      BY DEF Agree
    <2> QED BY <1>0, <1>3, <2>1, <2>2 DEF HealInv
  <1>6. GapInv
    <2>1. \A d \in Device : Computed.auditLog[d] = <<>> /\ Computed.state[d] = "unknown"
      BY <1>0, ComputedFields DEF ServiceInit
    <2>2. Gaps(<<>>, "unknown") = {}
      BY DEF Gaps
    <2>3. GapSet(Computed) = {}
      BY <2>1, <2>2 DEF GapSet
    <2> QED BY <1>0, <2>3, FS_EmptySet DEF GapInv, Served
  <1> QED BY <1>0, <1>1, <1>2, <1>4, <1>5, <1>6 DEF CrashInv

LEMMA StutterKeeps == ASSUME CrashInv, UNCHANGED crashVars PROVE CrashInv'
  <1>1. UNCHANGED serviceVars /\ UNCHANGED <<disk, todo, crashes, torn>>
    BY DEF crashVars
  <1>2. Computed' = Computed /\ now' = now
    BY <1>1, ComputedKept
  <1>3. UNCHANGED <<inventory, keys, accepted, auditLog, state>>
    BY <1>1 DEF serviceVars, identityVars, deviceVars, logVars
  <1>4. CrashType'
    BY <1>1, ServiceTypeStep DEF CrashInv, CrashType
  <1>5. LagInv'
    <2>1. Left' = Left /\ (NoneExpired' <=> NoneExpired)
      BY <1>1 DEF Left, NoneExpired, Retention, serviceVars, identityVars
    <2> QED BY <1>1, <1>2, <1>3, <2>1 DEF CrashInv, LagInv
  <1>6. HealInv'
    BY <1>1, <1>2 DEF CrashInv, HealInv, Served
  <1>7. GapInv'
    BY <1>1, <1>2, <1>3 DEF CrashInv, GapInv, Served
  <1> QED BY <1>1, <1>2, <1>4, <1>5, <1>6, <1>7 DEF CrashInv

LEMMA CrashCorrect == CrashSpec => []CrashInv
  <1>1. CrashInv /\ [CrashNext]_crashVars => CrashInv'
    BY HandlerKeeps, TickKeeps, EvictionKeeps, CommitKeeps, CrashKeeps, StutterKeeps DEF CrashNext
  <1> QED BY <1>1, CrashInvInit, PTL DEF CrashSpec

-----------------------------------------------------------------------------------
(* What the next statements may change of trust and access on the disk.              *)

Unlisted(file, d) ==
    d \notin file.inventory => file.status[1][d] = "pending" /\ file.state[d] = "unknown"
(* From the status on disk to the computed one.                                      *)
StatusMove(d) ==
    \/ status[d] \in {disk.status[1][d], "enrolled"}
    \/ /\ d \in disk.inventory
       /\ \/ status[d] \in {"invalid", "locked"}
          \/ /\ status[d] = "verified"
             /\ disk.status[1][d] # "pending" \/ (d \in torn /\ disk.keys[d] # NoKey)
AccessMove(d) ==
    \/ state[d] = disk.state[d]
    \/ /\ d \in disk.inventory
       /\ \/ state[d] = "denied"
          \/ /\ state[d] = "allowed"
             /\ status[d] = disk.status[1][d] /\ status[d] \in {"enrolled", "verified"}
TokenMove(d) ==
    disk.status[1][d] = "enrolled" /\ status[d] = "verified"
        => tokens[d].consumed /\ tokens[d].token # NoToken
MoveInv ==
    \A d \in Device :
        /\ Unlisted(disk, d) /\ Unlisted(Computed, d)
        /\ StatusMove(d) /\ AccessMove(d) /\ TokenMove(d)

(* What a handler changes of the trust and the access of its device.                 *)
LEMMA HandlerMoves ==
    ASSUME ServiceTypeOK, References(Computed), NEW d \in Device, Handler(d)
    PROVE  /\ \/ status'[d] = status[d]
              \/ status'[d] = "enrolled" /\ d \in inventory'
              \/ d \in inventory /\ status'[d] \in {"invalid", "locked"}
              \/ /\ d \in inventory /\ status'[d] = "verified" /\ keys[d] # NoKey
                 /\ status[d] = "enrolled"
                        => tokens'[d].consumed /\ tokens'[d].token # NoToken
           /\ \/ state'[d] = state[d]
              \/ /\ d \in inventory /\ status' = status
                 /\ \/ state'[d] = "denied"
                    \/ state'[d] = "allowed" /\ status[d] \in {"enrolled", "verified"}
  <1> USE DEF deviceVars, tokenVars, logVars
  <1>0. /\ IdentityTypeOK /\ d \in DOMAIN status /\ d \in DOMAIN state /\ d \in DOMAIN tokens
        /\ tokens[d] \in TokenRow
    BY DEF ServiceTypeOK
  <1>1. CASE CreatePlaceholder(d) \/ IssueProvisioningToken(d) \/ GetIdentityProfile(d)
               \/ RestoreDevice(d)
    BY <1>1 DEF CreatePlaceholder, IssueProvisioningToken, GetIdentityProfile, RestoreDevice
  <1>2. ASSUME NEW k \in Key, UpsertIdentityKey(d, k)
        PROVE  status'[d] = "enrolled" /\ d \in inventory' /\ state' = state
    BY <1>0, <1>2 DEF UpsertIdentityKey, RotateKey
  <1>3. ASSUME NEW action \in PolicyAction, Enforced(d, action), d \in inventory,
               status' = status
        PROVE  \/ state'[d] \in {state[d], "denied"}
               \/ state'[d] = "allowed" /\ status[d] \in {"enrolled", "verified"}
    <2>1. state'[d] \in {state[d], "allowed", "denied"}
      BY <1>0, <1>3 DEF Enforced, Decide, Evaluate, Enforce, Target
    <2>2. state'[d] = "allowed" /\ state[d] # "allowed" => status[d] \in {"enrolled", "verified"}
      BY <1>3, EnforcedEffect
    <2> QED BY <2>1, <2>2
  <1>4. ASSUME NEW action \in PolicyAction, ApplyPolicy(d, action)
        PROVE  /\ status' = status
               /\ \/ state'[d] = state[d]
                  \/ /\ d \in inventory
                     /\ \/ state'[d] = "denied"
                        \/ state'[d] = "allowed" /\ status[d] \in {"enrolled", "verified"}
    BY <1>3, <1>4 DEF ApplyPolicy
  <1>5. CASE ArchiveDevice(d)
    <2>1. "deny" \in PolicyAction
      BY DEF PolicyAction
    <2> QED BY <1>3, <1>5, <2>1 DEF ArchiveDevice
  <1>6. CASE ReportMismatched(d)
    BY <1>0, <1>6 DEF ReportMismatched
  <1>7. ASSUME NEW m \in Heartbeat, Report(d, m)
        PROVE  /\ state' = state
               /\ \/ status'[d] = status[d]
                  \/ d \in inventory /\ status'[d] \in {"invalid", "locked"}
                  \/ /\ d \in inventory /\ status'[d] = "verified" /\ keys[d] # NoKey
                     /\ status[d] = "enrolled"
                            => tokens'[d].consumed /\ tokens'[d].token # NoToken
    <2>0. state' = state
      BY <1>7 DEF Report, ReportThrows, ReportRefused, ReportVerified, ReportUnprovisioned,
                  ReportProvisioned
    <2>1. CASE ReportThrows(d, m) \/ (\E x \in 0 .. issued : ReportUnprovisioned(d, m, x))
      BY <2>0, <2>1 DEF ReportThrows, ReportUnprovisioned
    <2>2. CASE ReportRefused(d, m)
      <3>1. d \in inventory
        BY <2>2, RefusedEffect, ComputedFields DEF References
      <3> QED BY <1>0, <2>0, <2>2, <3>1, RefusedEffect
    <2>3. ASSUME VerifyValid(d, m), MarkVerified(d, m)
          PROVE  status'[d] = "verified" /\ d \in inventory /\ keys[d] # NoKey
      BY <2>3, VerifiedEffect
    <2>4. CASE ReportVerified(d, m)
      BY <2>0, <2>3, <2>4 DEF ReportVerified
    <2>5. ASSUME NEW x \in 0 .. issued, ReportProvisioned(d, m, x)
          PROVE  /\ status'[d] = "verified" /\ d \in inventory /\ keys[d] # NoKey
                 /\ tokens'[d].consumed /\ tokens'[d].token # NoToken
      BY <1>0, <2>3, <2>5 DEF ReportProvisioned, Consumable, Consumed, TokenRow
    <2> QED BY <1>7, <2>0, <2>1, <2>2, <2>4, <2>5 DEF Report
  <1> QED BY <1>1, <1>2, <1>4, <1>5, <1>6, <1>7 DEF Handler

LEMMA HandlerKeepsMoves ==
    ASSUME CrashInv, MoveInv, NEW d \in Device, HandleOperator(d) \/ HandleReport(d)
    PROVE  MoveInv'
  <1>0. /\ ServiceTypeOK /\ Sound(Computed, now) /\ References(Computed) /\ HealInv
        /\ disk = Computed /\ disk' = disk /\ torn' = torn
        /\ [ServiceNext]_serviceVars /\ Handler(d)
    BY HandlerFacts DEF CrashInv, CrashType, Sound
  <1>1. inventory \subseteq inventory'
    BY <1>0, GrowthStep
  <1>2. /\ disk.inventory = inventory /\ disk.status[1] = status /\ disk.state = state
        /\ disk.keys = keys
        /\ disk'.inventory = inventory /\ disk'.status[1] = status /\ disk'.state = state
        /\ disk'.keys = keys
    BY <1>0, ComputedFields
  <1>3. \A c \in Device : c \notin inventory => status[c] = "pending" /\ state[c] = "unknown"
    BY <1>2 DEF MoveInv, Unlisted
  <1>4. ASSUME NEW c \in Device \ {d}
        PROVE  status'[c] = status[c] /\ state'[c] = state[c] /\ (c \in inventory' <=> c \in inventory)
    BY <1>0, <1>4, OthersKept
  <1>5. ASSUME NEW c \in Device PROVE Unlisted(disk, c)' /\ Unlisted(Computed, c)'
    <2>1. c \notin inventory' => status'[c] = "pending" /\ state'[c] = "unknown"
      <3>1. CASE c # d
        BY <1>3, <1>4, <3>1
      <3>2. CASE c = d
        BY <1>0, <1>1, <1>3, <3>2, HandlerMoves
      <3> QED BY <3>1, <3>2
    <2> QED BY <1>2, <1>3, <2>1 DEF Unlisted, Computed
  <1>6. ASSUME NEW c \in Device PROVE StatusMove(c)' /\ AccessMove(c)' /\ TokenMove(c)'
    <2>1. CASE c # d
      BY <1>2, <1>4, <2>1 DEF StatusMove, AccessMove, TokenMove
    <2>2. CASE c = d
      <3>1. status[d] = "pending" /\ keys[d] # NoKey => d \in torn
        BY <1>0, ComputedFields DEF HealInv, Healthy
      <3> QED BY <1>0, <1>2, <2>2, <3>1, HandlerMoves DEF StatusMove, AccessMove, TokenMove
    <2> QED BY <2>1, <2>2
  <1> QED BY <1>5, <1>6 DEF MoveInv

(* The committed statement, as far as trust and access can see it.                   *)
LEMMA CommitColumns ==
    ASSUME CrashInv, Commit
    PROVE  LET w == Head(todo).table IN
           /\ Computed' = Computed
           /\ disk'.inventory = IF w = "inventory" THEN inventory ELSE disk.inventory
           /\ disk'.keys = IF w = "keys" THEN keys ELSE disk.keys
           /\ disk'.status[1] = IF w = "status" THEN status ELSE disk.status[1]
           /\ disk'.state = IF w = "state" THEN state ELSE disk.state
           /\ w \in {"status", "state"} => disk.inventory = inventory
           /\ w = "status" => disk.tokens[1] = tokens
           /\ w = "torn" => disk.status[1] = status
           /\ disk.inventory \subseteq inventory
           /\ \A d \in Device : disk.keys[d] # NoKey => keys[d] # NoKey
           /\ \A d \in Device : d \in torn => d \in torn' \/ w = "torn"
  <1> DEFINE w == Head(todo).table
  <1>0. CrashType /\ LagInv /\ todo # <<>> /\ Computed' = Computed
    BY ComputedKept DEF CrashInv, Commit
  <1>1. \A t \in TableName : disk'[t] = IF t = w THEN Computed[t] ELSE disk[t]
    BY <1>0, CommitEffect
  <1> HIDE DEF w
  <1>2. /\ disk'.inventory = IF w = "inventory" THEN Computed.inventory ELSE disk.inventory
        /\ disk'.keys = IF w = "keys" THEN Computed.keys ELSE disk.keys
        /\ disk'.status = IF w = "status" THEN Computed.status ELSE disk.status
        /\ disk'.state = IF w = "state" THEN Computed.state ELSE disk.state
    BY <1>1 DEF TableName
  <1>3. w \in {"status", "state"} => disk.inventory = Computed.inventory
    <2>1. w \in {"status", "state"} => <<"inventory", w>> \in Precedence
      BY DEF Precedence
    <2> QED BY <1>0, <2>1, RelianceMet DEF TableName, w
  <1>4. w = "status" => disk.tokens = Computed.tokens
    <2>1. w = "status" => <<"tokens", w>> \in Precedence
      BY DEF Precedence
    <2> QED BY <1>0, <2>1, RelianceMet DEF TableName, w
  <1>5. w = "torn" => disk.status = Computed.status
    <2>1. w = "torn" => <<"status", w>> \in Precedence
      BY DEF Precedence
    <2> QED BY <1>0, <2>1, RelianceMet DEF TableName, w
  <1>6. \A d \in Device : d \in torn => d \in torn' \/ w = "torn"
    BY DEF Commit, w
  <1> QED BY <1>0, <1>2, <1>3, <1>4, <1>5, <1>6, ComputedFields DEF LagInv, w

LEMMA CommitKeepsMoves == ASSUME CrashInv, MoveInv, Commit PROVE MoveInv'
  <1> DEFINE w == Head(todo).table
  <1>0. /\ Computed' = Computed
        /\ disk'.inventory = IF w = "inventory" THEN inventory ELSE disk.inventory
        /\ disk'.keys = IF w = "keys" THEN keys ELSE disk.keys
        /\ disk'.status[1] = IF w = "status" THEN status ELSE disk.status[1]
        /\ disk'.state = IF w = "state" THEN state ELSE disk.state
        /\ w \in {"status", "state"} => disk.inventory = inventory
        /\ w = "torn" => disk.status[1] = status
        /\ disk.inventory \subseteq inventory
        /\ \A d \in Device : disk.keys[d] # NoKey => keys[d] # NoKey
        /\ \A d \in Device : d \in torn => d \in torn' \/ w = "torn"
    BY CommitColumns
  <1>1. status' = status /\ state' = state /\ tokens' = tokens
    BY DEF Commit, serviceVars, deviceVars, tokenVars
  <1> HIDE DEF w
  <1> SUFFICES ASSUME NEW d \in Device
               PROVE  /\ Unlisted(disk, d)' /\ Unlisted(Computed, d)'
                      /\ StatusMove(d)' /\ AccessMove(d)' /\ TokenMove(d)'
    BY DEF MoveInv
  <1>2. /\ Unlisted(disk, d) /\ Unlisted(Computed, d)
        /\ StatusMove(d) /\ AccessMove(d) /\ TokenMove(d)
    BY DEF MoveInv
  <1>3. d \notin inventory => status[d] = "pending" /\ state[d] = "unknown"
    BY <1>2, ComputedFields DEF Unlisted
  <1>4. Unlisted(disk, d)' /\ Unlisted(Computed, d)'
    BY <1>0, <1>2, <1>3 DEF Unlisted
  <1>5. StatusMove(d)'
    BY <1>0, <1>1, <1>2 DEF StatusMove
  <1>6. AccessMove(d)'
    BY <1>0, <1>1, <1>2 DEF AccessMove
  <1>7. TokenMove(d)'
    BY <1>0, <1>1, <1>2 DEF TokenMove
  <1> QED BY <1>4, <1>5, <1>6, <1>7

(* An eviction changes none of the columns that trust and access can see.            *)
LEMMA EvictionColumns ==
    ASSUME CrashInv, CommitEviction
    PROVE  /\ Computed' = Computed
           /\ disk'.inventory = disk.inventory /\ disk'.keys = disk.keys
           /\ disk'.status = disk.status /\ disk'.state = disk.state
           /\ UNCHANGED <<torn, status, state, tokens>>
  BY EvictionEffect, ComputedKept
     DEF CrashInv, CommitEviction, TableName, serviceVars, deviceVars, tokenVars

LEMMA EvictionKeepsMoves == ASSUME CrashInv, MoveInv, CommitEviction PROVE MoveInv'
  BY EvictionColumns DEF MoveInv, Unlisted, StatusMove, AccessMove, TokenMove

LEMMA MovesInit == CrashInit => MoveInv
  <1> SUFFICES ASSUME CrashInit PROVE MoveInv
    OBVIOUS
  <1>1. /\ disk.inventory = inventory /\ disk.status[1] = status /\ disk.state = state
        /\ disk = Computed
    BY ComputedFields DEF CrashInit
  <1>2. \A d \in Device : status[d] = "pending" /\ state[d] = "unknown"
    BY DEF CrashInit, ServiceInit
  <1> QED BY <1>1, <1>2 DEF MoveInv, Unlisted, StatusMove, AccessMove, TokenMove

LEMMA MovesStep == CrashInv /\ MoveInv /\ [CrashNext]_crashVars => MoveInv'
  <1> SUFFICES ASSUME CrashInv, MoveInv, [CrashNext]_crashVars PROVE MoveInv'
    OBVIOUS
  <1>1. CASE Crash
    <2>1. Computed' = disk /\ disk' = disk
      BY <1>1, CrashEffect DEF CrashInv, Crash
    <2>2. status' = disk.status[1] /\ state' = disk.state
      BY <1>1 DEF Crash
    <2>3. \A d \in Device : Unlisted(disk, d)
      BY DEF MoveInv
    <2> QED BY <2>1, <2>2, <2>3 DEF MoveInv, Unlisted, StatusMove, AccessMove, TokenMove
  <1>2. CASE ClockTickBetween \/ UNCHANGED crashVars
    <2>1. Computed' = Computed /\ UNCHANGED <<disk, torn, status, state, tokens>>
      BY <1>2 DEF ClockTickBetween, ClockTick, Tick, crashVars, serviceVars, identityVars,
                  deviceVars, tokenVars, logVars, Computed
    <2> QED BY <2>1 DEF MoveInv, Unlisted, StatusMove, AccessMove, TokenMove
  <1> QED BY <1>1, <1>2, HandlerKeepsMoves, EvictionKeepsMoves, CommitKeepsMoves DEF CrashNext

LEMMA MovesCorrect == CrashSpec => [](CrashInv /\ MoveInv)
  BY MovesInit, MovesStep, CrashCorrect, PTL DEF CrashSpec

-----------------------------------------------------------------------------------
(* What it gives.                                                                    *)

(* Between handlers the file holds all that was computed, and at any time no more    *)
(* than the running handler's own writes are missing from it.                        *)
THEOREM CrashTypeCorrect == CrashSpec => []CrashTypeOK
  <1>1. CrashInv => CrashTypeOK
    <2> SUFFICES ASSUME CrashInv PROVE CrashTypeOK
      OBVIOUS
    <2>1. CrashType /\ LagInv
      BY DEF CrashInv
    <2>2. DOMAIN disk = TableName /\ DOMAIN Computed = TableName
      BY <2>1, FileFields, ComputedFields DEF CrashType
    <2>3. todo = <<>> => disk = Computed
      BY <2>1, DiskComplete
    <2> HIDE DEF Computed
    <2> QED BY <2>1, <2>2, <2>3 DEF CrashType, Write, Entry, CrashTypeOK
  <1> QED BY <1>1, CrashCorrect, PTL

(* A crash at any statement leaves no row whose foreign key has nothing to refer to. *)
THEOREM ReferencesSurvive == CrashSpec => []DiskReferences
  <1>1. CrashInv => DiskReferences
    BY DEF CrashInv, Sound, References, DiskReferences
  <1> QED BY <1>1, CrashCorrect, PTL

(* A crash at any statement leaves no device trusted or let in without a key.        *)
THEOREM KeysBackTrustOnDisk == CrashSpec => []DiskKeyBacksTrust
  <1>1. CrashInv => DiskKeyBacksTrust
    BY DEF CrashInv, Sound, Backed, DiskKeyBacksTrust
  <1> QED BY <1>1, CrashCorrect, PTL

(* No heartbeat whose nonce outlasts it has its effect twice, whatever crashes come   *)
(* between.                                                                          *)
THEOREM NoReplayAfterCrashes == CrashSpec => []NoReplayAcrossCrashes
  <1>1. CrashInv => NoReplayAcrossCrashes
    BY DEF CrashInv, Sound, Spent, NoReplayAcrossCrashes
  <1> QED BY <1>1, CrashCorrect, PTL

(* Enrolling a device again heals whatever a crash tore of it.                       *)
THEOREM EnrollmentsHeal == CrashSpec => []EnrollmentHeals
  <1>1. CrashInv => EnrollmentHeals
    BY ComputedHealthy DEF CrashInv, HealInv, Sincere, EnrollmentHeals
  <1> QED BY <1>1, CrashCorrect, PTL

(* The audit logs miss at most one change of state for each crash.                   *)
THEOREM OneChangePerCrash == CrashSpec => []CrashLosesOneChange
  <1>1. CrashInv => CrashLosesOneChange
    BY ComputedFields DEF CrashInv, GapInv, GapSet, CrashLosesOneChange
  <1> QED BY <1>1, CrashCorrect, PTL

(* A device is let in only on a status and failures that say so, though a crash may  *)
(* have lost the status its failures led to.                                         *)
THEOREM AllowsSurviveLostStatus == CrashSpec => AllowSurvivesLostStatus
  <1> DEFINE Fair == \A d \in Device :
                todo = <<>> /\ state[d] # "allowed" /\ state'[d] = "allowed"
                    => status[d] \in {"enrolled", "verified"} /\ ~LockedOut(failures, d, now)
  <1>1. CrashInv /\ [CrashNext]_crashVars => Fair
    <2> SUFFICES ASSUME CrashInv, [CrashNext]_crashVars, NEW d \in Device,
                        todo = <<>>, state[d] # "allowed", state'[d] = "allowed"
                 PROVE  status[d] \in {"enrolled", "verified"} /\ ~LockedOut(failures, d, now)
      OBVIOUS
    <2>0. ServiceTypeOK
      BY DEF CrashInv, CrashType
    <2>1. ~Commit /\ ~CommitEviction /\ ~Crash
      BY DEF Commit, CommitEviction, Crash
    <2>2. ~ClockTickBetween /\ ~UNCHANGED crashVars
      BY DEF ClockTickBetween, ClockTick, deviceVars, crashVars, serviceVars
    <2>3. PICK c \in Device : HandleOperator(c) \/ HandleReport(c)
      BY <2>1, <2>2 DEF CrashNext
    <2>4. Handler(c)
      BY <2>3, HandlerFacts
    <2>5. c = d
      BY <2>0, <2>4, OthersKept
    <2>6. ASSUME NEW action \in PolicyAction, Enforced(d, action)
          PROVE  status[d] \in {"enrolled", "verified"} /\ ~LockedOut(failures, d, now)
      BY <2>0, <2>6, EnforcedEffect
    <2>7. CASE ArchiveDevice(d)
      BY <2>6, <2>7 DEF ArchiveDevice, PolicyAction
    <2>8. CASE \E action \in PolicyAction : ApplyPolicy(d, action)
      BY <2>6, <2>8 DEF ApplyPolicy
    <2> QED
      BY <2>4, <2>5, <2>7, <2>8
      DEF Handler, CreatePlaceholder, UpsertIdentityKey, IssueProvisioningToken,
          GetIdentityProfile, RestoreDevice, ReportMismatched, Report, ReportThrows,
          ReportRefused, ReportVerified, ReportUnprovisioned, ReportProvisioned, deviceVars
  <1> QED BY <1>1, CrashCorrect, PTL DEF CrashSpec, AllowSurvivesLostStatus

(* Only a committed statement changes what the file says, and it does so by a step   *)
(* of the lifecycle or as VerifiedUnenrolled describes.                              *)
LEMMA CommitIsLifecycleStep ==
    ASSUME CrashInv, MoveInv, Commit
    PROVE  [DiskLifecycle!Next \/ \E d \in Device : VerifiedUnenrolled(d)]_(DiskLifecycle!vars)
  <1> DEFINE w == Head(todo).table
             step == [DiskLifecycle!Next \/ \E d \in Device : VerifiedUnenrolled(d)]_(DiskLifecycle!vars)
  <1>0. /\ CrashType /\ todo # <<>> /\ Sound(Computed, now) /\ HealInv
        /\ Head(todo).dev \in Device /\ disk \in File /\ ServiceTypeOK
    BY TodoFacts DEF CrashInv, CrashType, Commit, Write
  <1> PICK dev \in Device : dev = Head(todo).dev
    BY <1>0
  <1>1. /\ disk'.inventory = IF w = "inventory" THEN inventory ELSE disk.inventory
        /\ disk'.status[1] = IF w = "status" THEN status ELSE disk.status[1]
        /\ disk'.state = IF w = "state" THEN state ELSE disk.state
        /\ w \in {"status", "state"} => disk.inventory = inventory
        /\ disk.inventory \subseteq inventory
    BY CommitColumns
  <1> HIDE DEF w
  <1>2. \A c \in Device \ {dev} :
            /\ c \in disk.inventory <=> c \in inventory
            /\ disk.status[1][c] = status[c] /\ disk.state[c] = state[c]
    BY <1>0, ComputedFields DEF HealInv, Agree, Served
  <1>3. /\ disk.state \in [Device -> DeviceState] /\ state \in [Device -> DeviceState]
        /\ disk.status[1] \in [Device -> IdentityStatus] /\ status \in [Device -> IdentityStatus]
    BY <1>0, FileFields DEF ServiceTypeOK
  <1>4. /\ Unlisted(disk, dev) /\ StatusMove(dev) /\ AccessMove(dev)
        /\ dev \notin inventory => status[dev] = "pending" /\ state[dev] = "unknown"
    BY <1>0, ComputedFields DEF MoveInv, Unlisted
  <1>5. status[dev] = "enrolled" => dev \in inventory
    BY <1>4
  <1>6. \A c \in Device \ {dev} : DiskTrust(c)' = DiskTrust(c)
    <2>1. \A c \in Device \ {dev} :
              (c \in disk'.inventory <=> c \in disk.inventory)
              /\ disk'.status[1][c] = disk.status[1][c]
      BY <1>1, <1>2
    <2> QED BY <2>1 DEF DiskTrust
  <1>7. /\ DiskTrusts = [d \in Device |-> DiskTrust(d)]
        /\ DiskTrusts' = [d \in Device |-> DiskTrust(d)']
        /\ DiskTrusts' = [DiskTrusts EXCEPT ![dev] = DiskTrust(dev)']
    BY <1>0, <1>6 DEF DiskTrusts
  <1>8. CASE w = "inventory" /\ DiskTrust(dev)' # DiskTrust(dev)
    <2>1. DiskTrust(dev) = "absent" /\ DiskTrust(dev)' = "pending"
      BY <1>1, <1>4, <1>8 DEF DiskTrust, Unlisted
    <2>2. disk'.state = disk.state
      BY <1>1, <1>8
    <2>3. DiskLifecycle!Discover(dev)
      BY <1>0, <1>7, <2>1, <2>2 DEF DiskLifecycle!Discover
    <2> QED BY <1>0, <2>3 DEF DiskLifecycle!Next
  <1>9. CASE w = "status" /\ DiskTrust(dev)' # DiskTrust(dev)
    <2>1. /\ disk'.state = disk.state /\ disk'.inventory = inventory /\ disk.inventory = inventory
          /\ disk'.status[1][dev] = status[dev] /\ status[dev] # disk.status[1][dev]
      BY <1>1, <1>9 DEF DiskTrust
    <2>2. dev \in inventory
      BY <1>9, <2>1 DEF DiskTrust
    <2>3. CASE status[dev] = "enrolled"
      <3>1. DiskTrust(dev)' = "enrolled"
        BY <2>1, <2>2, <2>3 DEF DiskTrust
      <3>2. DiskLifecycle!Enroll(dev)
        BY <1>0, <1>7, <2>1, <3>1 DEF DiskLifecycle!Enroll
      <3> QED BY <1>0, <3>2 DEF DiskLifecycle!Next
    <2>4. CASE status[dev] \in {"invalid", "locked"}
      <3>1. DiskTrust(dev)' = "distrusted" /\ DiskTrust(dev) # "absent"
        BY <1>3, <2>1, <2>2, <2>4 DEF DiskTrust, IdentityStatus
      <3>2. DiskLifecycle!Distrust(dev)
        BY <1>0, <1>7, <2>1, <3>1 DEF DiskLifecycle!Distrust
      <3> QED BY <1>0, <3>2 DEF DiskLifecycle!Next
    <2>5. CASE status[dev] = "verified"
      <3>1. DiskTrust(dev)' = "verified"
        BY <2>1, <2>2, <2>5 DEF DiskTrust
      <3>2. CASE disk.status[1][dev] # "pending"
        <4>1. DiskTrust(dev) \in {"enrolled", "verified", "distrusted"}
          BY <1>3, <2>1, <2>2, <3>2 DEF DiskTrust, IdentityStatus
        <4>2. DiskLifecycle!Verify(dev)
          BY <1>0, <1>7, <2>1, <3>1, <4>1 DEF DiskLifecycle!Verify
        <4> QED BY <1>0, <4>2 DEF DiskLifecycle!Next
      <3>3. CASE disk.status[1][dev] = "pending"
        <4>1. dev \in torn /\ disk.keys[dev] # NoKey
          BY <1>4, <2>1, <2>5, <3>3 DEF StatusMove
        <4>2. DiskTrust(dev) = "pending"
          BY <2>1, <2>2, <3>3 DEF DiskTrust
        <4>3. VerifiedUnenrolled(dev)
          BY <1>0, <1>7, <2>1, <3>1, <4>1, <4>2 DEF VerifiedUnenrolled
        <4> QED BY <1>0, <4>3
      <3> QED BY <3>2, <3>3
    <2> QED BY <1>4, <2>1, <2>3, <2>4, <2>5 DEF StatusMove
  <1>10. CASE w = "state" /\ disk'.state # disk.state
    <2>1. DiskTrust(dev)' = DiskTrust(dev) /\ disk'.state = state /\ disk.inventory = inventory
      BY <1>1, <1>10 DEF DiskTrust
    <2>2. DiskTrusts' = DiskTrusts
      BY <1>7, <1>6, <2>1
    <2>3. /\ state = [disk.state EXCEPT ![dev] = state[dev]]
          /\ state[dev] # disk.state[dev]
      BY <1>0, <1>2, <1>3, <1>10, <2>1
    <2>4. dev \in inventory
      BY <1>4, <2>1, <2>3 DEF AccessMove
    <2>5. CASE state[dev] = "denied"
      <3>1. DiskTrust(dev) # "absent"
        BY <1>3, <2>1, <2>4 DEF DiskTrust, IdentityStatus
      <3>2. DiskLifecycle!Deny(dev)
        BY <2>1, <2>2, <2>3, <2>5, <3>1, <1>7 DEF DiskLifecycle!Deny
      <3> QED BY <1>0, <3>2 DEF DiskLifecycle!Next
    <2>6. CASE state[dev] = "allowed"
      <3>1. DiskTrust(dev) \in {"enrolled", "verified"}
        BY <1>4, <2>1, <2>3, <2>4, <2>6 DEF AccessMove, DiskTrust
      <3>2. DiskLifecycle!Allow(dev)
        BY <1>0, <1>7, <2>1, <2>2, <2>3, <2>6, <3>1 DEF DiskLifecycle!Allow
      <3> QED BY <1>0, <3>2 DEF DiskLifecycle!Next
    <2> QED BY <1>4, <2>3, <2>5, <2>6 DEF AccessMove
  <1>11. CASE DiskTrust(dev)' = DiskTrust(dev) /\ disk'.state = disk.state
    <2>1. DiskTrusts' = DiskTrusts
      BY <1>7, <1>6, <1>11
    <2> QED BY <1>11, <2>1 DEF DiskLifecycle!vars
  <1>12. /\ DiskTrust(dev)' # DiskTrust(dev) => w \in {"inventory", "status"}
         /\ disk'.state # disk.state => w = "state"
    BY <1>1 DEF DiskTrust
  <1> HIDE DEF step
  <1> QED BY <1>8, <1>9, <1>10, <1>11, <1>12 DEF step

(* Statement by statement and through every crash, the committed file goes the way   *)
(* of the lifecycle.                                                                 *)
THEOREM DiskFollows == CrashSpec => DiskFollowsLifecycle
  <1>1. CrashInit => DiskLifecycle!Init
    <2> SUFFICES ASSUME CrashInit PROVE DiskLifecycle!Init
      OBVIOUS
    <2>1. /\ disk.inventory = inventory /\ disk.status[1] = status /\ disk.state = state
      BY ComputedFields DEF CrashInit
    <2> QED BY <2>1 DEF CrashInit, ServiceInit, DiskLifecycle!Init, DiskTrusts, DiskTrust
  <1>2. CrashInv /\ MoveInv /\ [CrashNext]_crashVars
          => [DiskLifecycle!Next \/ \E d \in Device : VerifiedUnenrolled(d)]_(DiskLifecycle!vars)
    <2> SUFFICES ASSUME CrashInv, MoveInv, [CrashNext]_crashVars, ~Commit
                 PROVE  UNCHANGED (DiskLifecycle!vars)
      BY CommitIsLifecycleStep
    <2>1. CASE CommitEviction
      BY <2>1, EvictionColumns DEF DiskLifecycle!vars, DiskTrusts, DiskTrust
    <2>2. CASE ~CommitEviction
      <3>1. disk' = disk
        BY <2>2, HandlerFacts DEF CrashNext, ClockTickBetween, Crash, crashVars
      <3> QED BY <3>1 DEF DiskLifecycle!vars, DiskTrusts, DiskTrust
    <2> QED BY <2>1, <2>2
  <1> QED BY <1>1, <1>2, MovesCorrect, PTL DEF CrashSpec, DiskFollowsLifecycle

(* No crash leaves an enrolled device verified with a token it could use again.      *)
THEOREM TokensSpentFirst == CrashSpec => TokenSpentFirst
  <1> DEFINE Spend == \A d \in Device :
                disk.status[1][d] = "enrolled" /\ disk'.status[1][d] = "verified"
                    => disk.tokens[1][d].consumed /\ disk.tokens[1][d].token # NoToken
  <1>1. CrashInv /\ MoveInv /\ [CrashNext]_crashVars => [Spend]_disk
    <2> SUFFICES ASSUME CrashInv, MoveInv, [CrashNext]_crashVars, disk' # disk, NEW d \in Device,
                        disk.status[1][d] = "enrolled", disk'.status[1][d] = "verified"
                 PROVE  disk.tokens[1][d].consumed /\ disk.tokens[1][d].token # NoToken
      OBVIOUS
    <2>0. ~CommitEviction
      BY EvictionColumns
    <2>1. Commit
      BY <2>0, HandlerFacts DEF CrashNext, ClockTickBetween, Crash, crashVars
    <2>2. status[d] = "verified" /\ disk.tokens[1] = tokens
      BY <2>1, CommitColumns
    <2> QED BY <2>2 DEF MoveInv, TokenMove
  <1> QED BY <1>1, MovesCorrect, PTL DEF CrashSpec, TokenSpentFirst
=============================================================================
