------------------------------ MODULE SchemaMigration ------------------------------
(* SqliteService.onModuleInit on a file of any age: tables that are missing are      *)
(* created, tables of an older shape are rebuilt one by one, each in a transaction   *)
(* with foreign keys off, indexes and the default device are added, and the handlers *)
(* are served.  The process may die between any two statements and a statement of a  *)
(* rebuild may fail; what is committed then is what the next start finds.            *)
EXTENDS Naturals, Sequences, FiniteSets

CONSTANTS
    Device,         \* ids of devices
    NoDevice,       \* the device_id NULL of an event
    DefaultDevice,  \* the device seedDefaults inserts
    Instant,        \* timestamps, as far as their order goes
    OldFile,        \* the files a first start may find
    OldValue,       \* column values that only older versions wrote
    Recorded,       \* the logs that grow
    MaxRows,        \* bound: rows of a log that grows
    MaxFaults       \* bound: crashes and failed statements

VARIABLES
    disk,     \* the committed file
    view,     \* the file as the connection sees it, with its open transaction
    inTx,     \* a transaction is open
    fk,       \* PRAGMA foreign_keys
    phase,    \* where onModuleInit is; "down" before, "serving" after
    toCheck,  \* the tables whose shape is still to be looked at
    failed,   \* the error rebuildTable rethrows
    faults,   \* how many faults there were
    written   \* history: <<table, id, device>> of every row ever committed

fileVars == <<disk, view, inTx>>
schemaVars == <<fileVars, fk, phase, toCheck, failed, faults, written>>

(* The tables in the order in which migrate creates them; all but the first refer to *)
(* devices.                                                                          *)
TableOrder ==
    <<"devices", "audit_logs", "enforcement_logs", "device_identity_keys",
      "device_identity_nonces", "device_identity_failures",
      "device_provisioning_tokens", "enrollment_logs", "event_logs">>
Table == {TableOrder[i] : i \in DOMAIN TableOrder}
(* The tables whose shape is looked at, in order.                                    *)
ReshapeOrder == <<"devices", "enforcement_logs", "enrollment_logs">>
Reshaped == {"devices", "enforcement_logs", "enrollment_logs"}
LogTable == {"audit_logs", "enforcement_logs", "enrollment_logs", "event_logs"}

(* The column of a reshaped table whose CHECK has changed: identity_status,          *)
(* policy_code, the action of an enrollment row; "none" stands for all of the others. *)
IdentityStatus == {"pending", "enrolled", "verified", "invalid", "locked"}
PolicyCode ==
    {"ok", "identity_not_verified", "identity_invalid", "identity_locked",
     "already_allowed", "already_denied"}
EnrollmentAction ==
    {"pending_created", "device_enrolled", "key_rotated", "alias_updated",
     "profile_updated", "provisioning_token_issued", "provisioning_token_consumed",
     "device_archived", "device_restored"}
Checked(t) ==
    CASE t = "devices" -> IdentityStatus
      [] t = "enforcement_logs" -> PolicyCode
      [] t = "enrollment_logs" -> EnrollmentAction
      [] OTHER -> {"none"}

(* Mutant: the statuses that came with lockouts are forgotten in the CASE.           *)
ConvertedForgetful(t, r) ==
    CASE t = "devices" /\ r.val \notin IdentityStatus \ {"locked"} -> [r EXCEPT !.val = "pending"]
      [] t = "enforcement_logs" /\ r.val \notin PolicyCode -> [r EXCEPT !.val = "ok"]
      [] OTHER -> r
(* The value a row is copied with.  "unverified", and whatever else no table allows   *)
(* any more, is pending again; a code that is not known any more, or was not kept at *)
(* all, is ok; actions are copied as they are.                                       *)
Converted(t, r) ==
    CASE t = "devices" /\ r.val \notin IdentityStatus -> [r EXCEPT !.val = "pending"]
      [] t = "enforcement_logs" /\ r.val \notin PolicyCode -> [r EXCEPT !.val = "ok"]
      [] OTHER -> r

(* A table is absent, of an old shape (a column or an allowed value is missing) or   *)
(* current.  "new" is the <table>_new of a rebuild.                                  *)
Name == Table \cup {"new"}
Absent == [shape |-> "absent", rows |-> {}, indexed |-> FALSE]
Created == [shape |-> "current", rows |-> {}, indexed |-> FALSE]
Missing(file) == {t \in Table : file[t].shape = "absent"}
First(S) ==
    CHOOSE t \in S : \E i \in DOMAIN TableOrder :
        TableOrder[i] = t /\ \A j \in 1 .. i - 1 : TableOrder[j] \notin S
Known(file) == {r.id : r \in file["devices"].rows}
Refers(t, r) == t = "event_logs" /\ r.dev = NoDevice

(* A file that some version wrote: references hold, rows keep to their own CHECK.     *)
WellFormed(file) ==
    /\ DOMAIN file = Name
    /\ file["new"] = Absent
    /\ \A t \in Table :
        /\ file[t].shape = "absent" => file[t] = Absent
        /\ file[t].shape = "old" => t \in Reshaped
        /\ IsFiniteSet(file[t].rows)
        /\ \A r \in file[t].rows :
            /\ r.dev \in Known(file) \/ Refers(t, r)
            /\ t \in LogTable => r.id \in Nat
            /\ file[t].shape = "current" => r.val \in Checked(t)
            /\ t = "enrollment_logs" => r.val \in EnrollmentAction

Value == OldValue \cup IdentityStatus \cup PolicyCode \cup EnrollmentAction \cup {"none"}
Row == [id : Nat \cup Device, dev : Device \cup {NoDevice}, ts : Instant, val : Value]
Content == [shape : {"absent", "old", "current"}, rows : SUBSET Row, indexed : BOOLEAN]
File == [Name -> Content]
ASSUME SchemaAssumption ==
    /\ DefaultDevice \in Device /\ NoDevice \notin Device
    /\ OldFile \subseteq File /\ \A file \in OldFile : WellFormed(file)
    /\ Instant # {} /\ Instant \subseteq Nat
    /\ Recorded \subseteq LogTable
    /\ MaxRows \in Nat /\ MaxFaults \in Nat

Phase ==
    {"down", "create", "shape", "begin", "copy", "drop", "rename", "commit", "restore",
     "index", "seed", "serving"}
SchemaTypeOK ==
    /\ disk \in File /\ view \in File
    /\ inTx \in BOOLEAN /\ fk \in BOOLEAN /\ failed \in BOOLEAN
    /\ phase \in Phase
    /\ toCheck \in Seq(Reshaped)
    /\ faults \in 0 .. MaxFaults
    /\ inTx => phase \in {"copy", "drop", "rename", "commit"}
    /\ ~inTx => view = disk

-----------------------------------------------------------------------------------
(* Opening the file and creating what is missing.                                    *)

SchemaInit ==
    /\ disk \in OldFile
    /\ view = disk /\ inTx = FALSE
    /\ fk = FALSE
    /\ phase = "down" /\ toCheck = <<>> /\ failed = FALSE
    /\ faults = 0
    /\ written = {w \in Table \X (UNION {{r.id : r \in disk[t].rows} : t \in Table})
                          \X (Device \cup {NoDevice}) :
                    \E r \in disk[w[1]].rows : r.id = w[2] /\ r.dev = w[3]}

(* A statement: outside a transaction it commits by itself.                          *)
Execute(file) ==
    /\ view' = file
    /\ disk' = IF inTx THEN disk ELSE file
    /\ UNCHANGED inTx

Start ==
    /\ phase = "down"
    /\ phase' = "create"
    /\ fk' = TRUE
    /\ toCheck' = ReshapeOrder
    /\ UNCHANGED <<fileVars, failed, faults, written>>

CreateTable ==
    /\ phase = "create"
    /\ Missing(view) # {}
    /\ Execute([view EXCEPT ![First(Missing(view))] = Created])
    /\ UNCHANGED <<fk, phase, toCheck, failed, faults, written>>

Advance(from, to) ==
    /\ phase = from
    /\ phase' = to
    /\ UNCHANGED <<fileVars, fk, toCheck, failed, faults, written>>

TablesCreated == Missing(view) = {} /\ Advance("create", "shape")

-----------------------------------------------------------------------------------
(* The three ensure...TableShape and rebuildTable.                                   *)

ShapeCurrent ==
    /\ phase = "shape" /\ toCheck # <<>>
    /\ view[Head(toCheck)].shape = "current"
    /\ toCheck' = Tail(toCheck)
    /\ UNCHANGED <<fileVars, fk, phase, failed, faults, written>>

(* Mutant: foreign keys stay on while the table is replaced.                         *)
ForeignKeysLeftOn ==
    /\ phase = "shape" /\ toCheck # <<>>
    /\ view[Head(toCheck)].shape # "current"
    /\ phase' = "begin"
    /\ UNCHANGED <<fileVars, fk, toCheck, failed, faults, written>>
ForeignKeysOff ==
    /\ phase = "shape" /\ toCheck # <<>>
    /\ view[Head(toCheck)].shape # "current"
    /\ phase' = "begin"
    /\ fk' = FALSE
    /\ UNCHANGED <<fileVars, toCheck, failed, faults, written>>

(* Mutant: each statement of a rebuild commits by itself.                            *)
BeginNothing ==
    /\ phase = "begin"
    /\ phase' = "copy"
    /\ UNCHANGED <<fileVars, fk, toCheck, failed, faults, written>>
Begin ==
    /\ phase = "begin"
    /\ phase' = "copy"
    /\ inTx' = TRUE
    /\ UNCHANGED <<disk, view, fk, toCheck, failed, faults, written>>

(* CREATE TABLE <table>_new and INSERT ... SELECT; neither may break a constraint.    *)
Copy ==
    LET t == Head(toCheck)
        rows == {Converted(t, r) : r \in view[t].rows} IN
    /\ phase = "copy"
    /\ view["new"] = Absent
    /\ \A r \in rows : r.val \in Checked(t)
    /\ Execute([view EXCEPT !["new"] = [shape |-> "current", rows |-> rows, indexed |-> FALSE]])
    /\ phase' = "drop"
    /\ UNCHANGED <<fk, toCheck, failed, faults, written>>

(* DROP TABLE takes the indexes along and, with foreign keys on, deletes the rows of *)
(* devices first: those that refer to them go too, or refer to no device.            *)
Unreferenced(r) == [r EXCEPT !.dev = NoDevice]
Dropped(file, t) ==
    IF t = "devices" /\ fk
    THEN [n \in Name |->
            CASE n = "devices" -> Absent
              [] n = "new" -> file[n]
              [] n = "event_logs" -> [file[n] EXCEPT !.rows = {Unreferenced(r) : r \in @}]
              [] OTHER -> [file[n] EXCEPT !.rows = {}]]
    ELSE [file EXCEPT ![t] = Absent]
Drop ==
    /\ phase = "drop"
    /\ Execute(Dropped(view, Head(toCheck)))
    /\ phase' = "rename"
    /\ UNCHANGED <<fk, toCheck, failed, faults, written>>

Rename ==
    /\ phase = "rename"
    /\ Execute([view EXCEPT ![Head(toCheck)] = view["new"], !["new"] = Absent])
    /\ phase' = "commit"
    /\ UNCHANGED <<fk, toCheck, failed, faults, written>>

Commit ==
    /\ phase = "commit"
    /\ disk' = view
    /\ inTx' = FALSE
    /\ phase' = "restore"
    /\ UNCHANGED <<view, fk, toCheck, failed, faults, written>>

(* Disk full, an I/O error: the transaction is rolled back and the error rethrown.   *)
StatementFails ==
    /\ faults < MaxFaults
    /\ phase \in {"copy", "drop", "rename", "commit"}
    /\ view' = disk /\ inTx' = FALSE
    /\ failed' = TRUE
    /\ phase' = "restore"
    /\ faults' = faults + 1
    /\ UNCHANGED <<disk, fk, toCheck, written>>

(* Mutant: foreign keys are not switched on again.                                   *)
RestoreNothing ==
    /\ phase = "restore"
    /\ phase' = IF failed THEN "down" ELSE "shape"
    /\ toCheck' = IF failed THEN <<>> ELSE Tail(toCheck)
    /\ failed' = FALSE
    /\ UNCHANGED <<fileVars, fk, faults, written>>
(* The finally block; an error ends the process, as nobody catches it.               *)
RestoreForeignKeys ==
    /\ phase = "restore"
    /\ fk' = TRUE
    /\ phase' = IF failed THEN "down" ELSE "shape"
    /\ toCheck' = IF failed THEN <<>> ELSE Tail(toCheck)
    /\ failed' = FALSE
    /\ UNCHANGED <<fileVars, faults, written>>

ShapesChecked == toCheck = <<>> /\ Advance("shape", "index")

-----------------------------------------------------------------------------------
(* Indexes, the default device, and the handlers.                                    *)

(* The indexes of a table count as one; device_identity_keys has none.               *)
Unindexed(file) == {t \in Table \ {"device_identity_keys"} : ~file[t].indexed}
CreateIndex ==
    /\ phase = "index"
    /\ Unindexed(view) # {}
    /\ Execute([view EXCEPT ![First(Unindexed(view))].indexed = TRUE])
    /\ UNCHANGED <<fk, phase, toCheck, failed, faults, written>>

IndexesCreated == Unindexed(view) = {} /\ Advance("index", "seed")

WithRow(file, t, r) == [file EXCEPT ![t].rows = @ \cup {r}]
Inserted(t, r) ==
    /\ Execute(WithRow(view, t, r))
    /\ written' = written \cup {<<t, r.id, r.dev>>}

(* No query looks at last_seen, the timestamp of a device.                           *)
NewDevice(d) ==
    [id |-> d, dev |-> d, ts |-> CHOOSE i \in Instant : TRUE, val |-> "pending"]

(* INSERT ... ON CONFLICT(id) DO NOTHING.                                            *)
SeedDefaults ==
    /\ phase = "seed"
    /\ phase' = "serving"
    /\ IF DefaultDevice \in Known(view) THEN UNCHANGED <<fileVars, written>>
       ELSE Inserted("devices", NewDevice(DefaultDevice))
    /\ UNCHANGED <<fk, toCheck, failed, faults>>

AddDevice(d) ==
    /\ phase = "serving"
    /\ d \notin Known(view)
    /\ Inserted("devices", NewDevice(d))
    /\ UNCHANGED <<fk, phase, toCheck, failed, faults>>

(* The ids of a log go on where they were.  Which value the row has is of no matter. *)
NextId(t) == 1 + Cardinality(view[t].rows)
(* A row of a log.  Its timestamp is the clock's when the handler read it, which may *)
(* be earlier than that of rows there are: a handler records what it did in an order *)
(* of its own, and the clock of a machine is set now and then.                       *)
Record(t, d, ts) ==
    /\ phase = "serving"
    /\ Cardinality(view[t].rows) < MaxRows
    /\ LET r == [id |-> NextId(t), dev |-> d, ts |-> ts,
                 val |-> CHOOSE v \in Checked(t) : TRUE] IN
       /\ fk => d \in Known(view) \/ Refers(t, r)
       /\ Inserted(t, r)
    /\ UNCHANGED <<fk, phase, toCheck, failed, faults>>

(* The process dies; a transaction that is open is lost.                             *)
Crash ==
    /\ faults < MaxFaults
    /\ phase # "down"
    /\ phase' = "down"
    /\ view' = disk /\ inTx' = FALSE
    /\ fk' = FALSE /\ toCheck' = <<>> /\ failed' = FALSE
    /\ faults' = faults + 1
    /\ UNCHANGED <<disk, written>>

StartUp ==
    \/ Start \/ CreateTable \/ TablesCreated
    \/ ShapeCurrent \/ ForeignKeysOff \/ Begin \/ Copy \/ Drop \/ Rename \/ Commit
    \/ RestoreForeignKeys \/ ShapesChecked
    \/ CreateIndex \/ IndexesCreated
    \/ SeedDefaults

SchemaNext ==
    \/ StartUp
    \/ StatementFails
    \/ Crash
    \/ \E d \in Device : AddDevice(d)
    \/ \E t \in Recorded, d \in Device \cup {NoDevice}, ts \in Instant : Record(t, d, ts)

(* A start takes its next statement, and a process that died is started again.       *)
SchemaSpec == SchemaInit /\ [][SchemaNext]_schemaVars /\ WF_schemaVars(StartUp)

-----------------------------------------------------------------------------------
(* No row that was ever committed is lost: not by the DROP TABLE of a rebuild, not   *)
(* by the foreign keys that point at the dropped table, not by a crash between any   *)
(* two statements of a start (rebuildTable, sqlite.service.ts:465).                  *)
RowsKept ==
    \A w \in written : \E r \in disk[w[1]].rows : r.id = w[2] /\ r.dev = w[3]

(* Handlers only ever run on a file that is complete, whatever starts were cut short *)
(* before: every table current and indexed, all references good, foreign keys        *)
(* enforced, no transaction left open and the default device there.                  *)
ServesCurrent ==
    phase = "serving" =>
        /\ fk /\ ~inTx
        /\ WellFormed(disk)
        /\ \A t \in Table : disk[t].shape = "current"
        /\ Unindexed(disk) = {}
        /\ DefaultDevice \in Known(disk)

(* No start changes whom the file trusts, nor whom it holds to be invalid or locked. *)
Having(file, s) == {r.id : r \in {q \in file["devices"].rows : q.val = s}}
StartKeepsTrust ==
    [][phase # "serving" =>
        \A s \in IdentityStatus \ {"pending"} : Having(disk', s) = Having(disk, s)]_schemaVars

(* The file is upgraded as FileUpgrade promises: whatever statements and crashes a   *)
(* rebuild consists of, on disk a table is replaced as a whole, its rows and every   *)
(* value still allowed carried over, and rows are added only to a complete file.     *)
Upgraded == INSTANCE FileUpgrade
    WITH Devices <- "devices",
         Allowed <- [t \in Table |-> Checked(t)],
         Fallback <- [devices |-> "pending", enforcement_logs |-> "ok"],
         shape <- [t \in Table |-> disk[t].shape],
         rows <- [t \in Table |-> disk[t].rows],
         open <- (phase = "serving")
ImplementsUpgrade == Upgraded!Spec

(* A start that is not cut short for ever ends with the handlers being served.       *)
StartsEnd == []<>(phase = "serving")
=============================================================================
