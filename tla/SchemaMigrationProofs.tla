--------------------------- MODULE SchemaMigrationProofs ---------------------------
(* Theorems of SchemaMigration, for files of any size, any number of devices and any *)
(* number of crashes.                                                                *)
EXTENDS SchemaMigration, FiniteSetTheorems, TLAPS

-----------------------------------------------------------------------------------
(* Tables.                                                                           *)

LEMMA Tables ==
    /\ Table = {"devices", "audit_logs", "enforcement_logs", "device_identity_keys",
                "device_identity_nonces", "device_identity_failures",
                "device_provisioning_tokens", "enrollment_logs", "event_logs"}
    /\ "new" \notin Table
    /\ Reshaped \subseteq Table /\ LogTable \subseteq Table /\ "devices" \in Table
  BY DEF Table, TableOrder, Reshaped, LogTable

LEMMA FirstIn ==
    ASSUME NEW S \in SUBSET Table, S # {}
    PROVE  First(S) \in S
  <1> DEFINE Earliest(i) == TableOrder[i] \in S /\ \A j \in 1 .. i - 1 : TableOrder[j] \notin S
  <1>1. DOMAIN TableOrder = 1 .. 9
    BY DEF TableOrder
  <1>2. \E i \in 1 .. 9 : TableOrder[i] \in S
    BY <1>1 DEF Table
  <1>3. \E i \in 1 .. 9 : Earliest(i)
    BY <1>2
  <1>4. \E t \in S : \E i \in DOMAIN TableOrder :
            TableOrder[i] = t /\ \A j \in 1 .. i - 1 : TableOrder[j] \notin S
    BY <1>1, <1>3
  <1> QED BY <1>4 DEF First

LEMMA Values ==
    /\ "pending" \in Value /\ "ok" \in Value
    /\ \A t \in Table : Checked(t) \subseteq Value /\ Checked(t) # {}
    /\ "pending" \in Checked("devices") /\ Checked("enrollment_logs") = EnrollmentAction
  BY DEF Value, Checked, IdentityStatus, PolicyCode, EnrollmentAction

(* A row is copied to the same device and under the same id.                         *)
LEMMA ConvertedRow ==
    ASSUME NEW t \in Table, NEW r \in Row
    PROVE  /\ Converted(t, r) \in Row
           /\ Converted(t, r).id = r.id /\ Converted(t, r).dev = r.dev
           /\ t = "enrollment_logs" => Converted(t, r) = r
           /\ t = "devices" => \A s \in IdentityStatus \ {"pending"} :
                Converted(t, r).val = s <=> r.val = s
  <1>2. CASE t = "devices" /\ r.val \notin IdentityStatus
    <2> DEFINE q == [r EXCEPT !.val = "pending"]
    <2>1. Converted(t, r) = q
      BY <1>2 DEF Converted
    <2>2. q \in Row /\ q.id = r.id /\ q.dev = r.dev /\ q.val = "pending"
      BY Values DEF Row
    <2> HIDE DEF q
    <2> QED BY <1>2, <2>1, <2>2
  <1>3. CASE t = "enforcement_logs" /\ r.val \notin PolicyCode
    <2> DEFINE q == [r EXCEPT !.val = "ok"]
    <2>1. Converted(t, r) = q
      BY <1>3 DEF Converted
    <2>2. q \in Row /\ q.id = r.id /\ q.dev = r.dev /\ q.val = "ok"
      BY Values DEF Row
    <2> HIDE DEF q
    <2> QED BY <1>3, <2>1, <2>2
  <1>4. CASE /\ ~(t = "devices" /\ r.val \notin IdentityStatus)
             /\ ~(t = "enforcement_logs" /\ r.val \notin PolicyCode)
    <2>1. Converted(t, r) = r
      BY <1>4 DEF Converted
    <2> QED BY <2>1
  <1> QED BY <1>2, <1>3, <1>4

-----------------------------------------------------------------------------------
(* Files.  A change of one table that forgets no device leaves a good file.          *)

LEMMA TableReplaced ==
    ASSUME NEW file \in File, WellFormed(file), NEW t \in Table, NEW c \in Content,
           c.shape # "absent", c.shape = "old" => t \in Reshaped, IsFiniteSet(c.rows),
           Known(file) \subseteq Known([file EXCEPT ![t] = c]),
           \A r \in c.rows :
                /\ r.dev \in Known([file EXCEPT ![t] = c]) \/ Refers(t, r)
                /\ t \in LogTable => r.id \in Nat
                /\ c.shape = "current" => r.val \in Checked(t)
                /\ t = "enrollment_logs" => r.val \in EnrollmentAction
    PROVE  /\ [file EXCEPT ![t] = c] \in File
           /\ WellFormed([file EXCEPT ![t] = c])
           /\ [file EXCEPT ![t] = c][t] = c
           /\ \A n \in Name \ {t} : [file EXCEPT ![t] = c][n] = file[n]
  <1> DEFINE g == [file EXCEPT ![t] = c]
  <1>1. t \in Name /\ t # "new" /\ Table \subseteq Name /\ "new" \in Name
    BY Tables DEF Name
  <1>2. g \in File /\ g[t] = c /\ \A n \in Name \ {t} : g[n] = file[n]
    BY <1>1 DEF File
  <1>3. DOMAIN g = Name /\ g["new"] = Absent
    BY <1>1, <1>2 DEF WellFormed, File
  <1>4. Known(file) \subseteq Known(g)
    OBVIOUS
  <1>5. \A r \in c.rows :
            /\ r.dev \in Known(g) \/ Refers(t, r)
            /\ t \in LogTable => r.id \in Nat
            /\ c.shape = "current" => r.val \in Checked(t)
            /\ t = "enrollment_logs" => r.val \in EnrollmentAction
    OBVIOUS
  <1> HIDE DEF g
  <1>6. ASSUME NEW u \in Table
        PROVE  /\ g[u].shape = "absent" => g[u] = Absent
               /\ g[u].shape = "old" => u \in Reshaped
               /\ IsFiniteSet(g[u].rows)
               /\ \A r \in g[u].rows :
                    /\ r.dev \in Known(g) \/ Refers(u, r)
                    /\ u \in LogTable => r.id \in Nat
                    /\ g[u].shape = "current" => r.val \in Checked(u)
                    /\ u = "enrollment_logs" => r.val \in EnrollmentAction
    <2>1. CASE u = t
      BY <1>2, <1>5, <2>1
    <2>2. CASE u # t
      <3>1. g[u] = file[u]
        BY <1>1, <1>2, <2>2
      <3> QED BY <1>4, <3>1 DEF WellFormed
    <2> QED BY <2>1, <2>2
  <1>7. WellFormed(g)
    BY <1>3, <1>6 DEF WellFormed
  <1> QED BY <1>2, <1>7 DEF g

LEMMA TableCreated ==
    ASSUME NEW file \in File, WellFormed(file), NEW t \in Table, file[t].shape = "absent"
    PROVE  /\ [file EXCEPT ![t] = Created] \in File
           /\ WellFormed([file EXCEPT ![t] = Created])
           /\ \A n \in Name : [file EXCEPT ![t] = Created][n].rows = file[n].rows
           /\ \A n \in Name \ {t} : [file EXCEPT ![t] = Created][n] = file[n]
  <1> DEFINE g == [file EXCEPT ![t] = Created]
  <1>1. Created \in Content /\ Created.rows = {} /\ Created.shape = "current"
    BY DEF Created, Content
  <1>2. file[t].rows = {} /\ t \in Name /\ "devices" \in Name
    BY Tables DEF WellFormed, Absent, Name
  <1>3. g[t] = Created /\ \A n \in Name \ {t} : g[n] = file[n]
    BY <1>2 DEF File
  <1>4. \A n \in Name : g[n].rows = file[n].rows
    BY <1>1, <1>2, <1>3
  <1>5. Known(file) \subseteq Known(g)
    BY <1>2, <1>4 DEF Known
  <1>6. IsFiniteSet(Created.rows)
    BY <1>1, FS_EmptySet
  <1>7. g \in File /\ WellFormed(g)
    BY <1>1, <1>5, <1>6, TableReplaced
  <1> QED BY <1>3, <1>4, <1>7

LEMMA TableIndexed ==
    ASSUME NEW file \in File, WellFormed(file), NEW t \in Table, file[t].shape = "current"
    PROVE  LET g == [file EXCEPT ![t].indexed = TRUE] IN
           /\ g \in File /\ WellFormed(g)
           /\ \A n \in Name : g[n].rows = file[n].rows /\ g[n].shape = file[n].shape
  <1> DEFINE c == [file[t] EXCEPT !.indexed = TRUE]
             g == [file EXCEPT ![t] = c]
  <1>1. t \in Name /\ "devices" \in Name
    BY Tables DEF Name
  <1>2. c \in Content /\ c.rows = file[t].rows /\ c.shape = "current"
    BY <1>1 DEF File, Content
  <1>3. g[t] = c /\ \A n \in Name \ {t} : g[n] = file[n]
    BY <1>1 DEF File
  <1>4. [file EXCEPT ![t].indexed = TRUE] = g
    OBVIOUS
  <1> HIDE DEF c
  <1>5. \A n \in Name : g[n].rows = file[n].rows /\ g[n].shape = file[n].shape
    BY <1>2, <1>3
  <1>6. Known(g) = Known(file)
    BY <1>1, <1>5 DEF Known
  <1>7. /\ IsFiniteSet(c.rows)
        /\ \A r \in c.rows :
            /\ r.dev \in Known(g) \/ Refers(t, r)
            /\ t \in LogTable => r.id \in Nat
            /\ c.shape = "current" => r.val \in Checked(t)
            /\ t = "enrollment_logs" => r.val \in EnrollmentAction
    BY <1>2, <1>6 DEF WellFormed
  <1>8. g \in File /\ WellFormed(g)
    BY <1>2, <1>6, <1>7, TableReplaced
  <1> QED BY <1>4, <1>5, <1>8

LEMMA RowInserted ==
    ASSUME NEW file \in File, WellFormed(file), NEW t \in Table, file[t].shape = "current",
           NEW r \in Row, r.val \in Checked(t), t \in LogTable => r.id \in Nat,
           r.dev \in Known(file) \/ Refers(t, r) \/ (t = "devices" /\ r.id = r.dev)
    PROVE  LET g == WithRow(file, t, r) IN
           /\ g \in File /\ WellFormed(g)
           /\ g[t].rows = file[t].rows \cup {r}
           /\ \A n \in Name : file[n].rows \subseteq g[n].rows /\ g[n].shape = file[n].shape
           /\ \A n \in Name : g[n].indexed = file[n].indexed
           /\ \A n \in Name \ {t} : g[n] = file[n]
  <1> DEFINE c == [file[t] EXCEPT !.rows = file[t].rows \cup {r}]
             g == [file EXCEPT ![t] = c]
  <1>1. t \in Name /\ "devices" \in Name
    BY Tables DEF Name
  <1>2. /\ c \in Content /\ c.rows = file[t].rows \cup {r} /\ c.shape = "current"
        /\ c.indexed = file[t].indexed
    BY <1>1 DEF File, Content
  <1>3. g[t] = c /\ \A n \in Name \ {t} : g[n] = file[n]
    BY <1>1 DEF File
  <1>4. WithRow(file, t, r) = g
    BY DEF WithRow
  <1> HIDE DEF c
  <1>5. \A n \in Name : /\ file[n].rows \subseteq g[n].rows /\ g[n].shape = file[n].shape
                        /\ g[n].indexed = file[n].indexed
    BY <1>2, <1>3
  <1>6. Known(file) \subseteq Known(g)
    BY <1>1, <1>5 DEF Known
  <1>7. t = "devices" => r.id \in Known(g)
    BY <1>2, <1>3 DEF Known
  <1>8. IsFiniteSet(c.rows)
    BY <1>2, FS_AddElement DEF WellFormed
  <1>9. \A q \in c.rows :
            /\ q.dev \in Known(g) \/ Refers(t, q)
            /\ t \in LogTable => q.id \in Nat
            /\ c.shape = "current" => q.val \in Checked(t)
            /\ t = "enrollment_logs" => q.val \in EnrollmentAction
    BY <1>2, <1>6, <1>7, Values DEF WellFormed
  <1>10. g \in File /\ WellFormed(g)
    BY <1>2, <1>6, <1>8, <1>9, TableReplaced
  <1> QED BY <1>2, <1>3, <1>4, <1>5, <1>10

(* What a rebuild makes of a table.                                                  *)
Rebuilt(file, t) ==
    [shape |-> "current", rows |-> {Converted(t, r) : r \in file[t].rows}, indexed |-> FALSE]

LEMMA RebuiltTable ==
    ASSUME NEW file \in File, WellFormed(file), NEW t \in Table
    PROVE  /\ Rebuilt(file, t) \in Content
           /\ IsFiniteSet(Rebuilt(file, t).rows)
           /\ \A r \in file[t].rows : \E q \in Rebuilt(file, t).rows :
                q = Converted(t, r) /\ q.id = r.id /\ q.dev = r.dev
           /\ \A q \in Rebuilt(file, t).rows : \E r \in file[t].rows :
                q = Converted(t, r) /\ q.id = r.id /\ q.dev = r.dev
  <1> DEFINE S == file[t].rows
             T == {Converted(t, r) : r \in S}
             f == [r \in S |-> Converted(t, r)]
  <1>1. S \subseteq Row /\ IsFiniteSet(S)
    BY Tables DEF File, Content, Name, WellFormed
  <1>2. \A r \in S : /\ Converted(t, r) \in Row
                     /\ Converted(t, r).id = r.id /\ Converted(t, r).dev = r.dev
    BY <1>1, ConvertedRow
  <1>3. f \in Surjection(S, T)
    BY DEF Surjection
  <1>4. IsFiniteSet(T)
    BY <1>1, <1>3, FS_Surjection
  <1>5. T \subseteq Row
    BY <1>2
  <1>6. Rebuilt(file, t) \in Content /\ Rebuilt(file, t).rows = T
    BY <1>5 DEF Rebuilt, Content
  <1> QED BY <1>2, <1>4, <1>6

LEMMA TableRebuilt ==
    ASSUME NEW file \in File, WellFormed(file), NEW t \in Table,
           \A q \in Rebuilt(file, t).rows : q.val \in Checked(t)
    PROVE  LET g == [file EXCEPT ![t] = Rebuilt(file, t)] IN
           /\ g \in File /\ WellFormed(g)
           /\ g[t] = Rebuilt(file, t)
           /\ \A n \in Name \ {t} : g[n] = file[n]
           /\ \A n \in Name : \A r \in file[n].rows :
                \E q \in g[n].rows : q.id = r.id /\ q.dev = r.dev
  <1> DEFINE c == Rebuilt(file, t)
             g == [file EXCEPT ![t] = c]
  <1>1. t \in Name /\ "devices" \in Name
    BY Tables DEF Name
  <1>2. g[t] = c /\ \A n \in Name \ {t} : g[n] = file[n]
    BY <1>1 DEF File
  <1>3. \A n \in Name : \A r \in file[n].rows : \E q \in g[n].rows : q.id = r.id /\ q.dev = r.dev
    BY <1>2, RebuiltTable
  <1>4. Known(file) \subseteq Known(g)
    BY <1>1, <1>3 DEF Known
  <1>5. c \in Content /\ c.shape = "current" /\ IsFiniteSet(c.rows)
    BY RebuiltTable DEF Rebuilt
  <1>6. \A q \in c.rows :
            /\ q.dev \in Known(g) \/ Refers(t, q)
            /\ t \in LogTable => q.id \in Nat
            /\ c.shape = "current" => q.val \in Checked(t)
            /\ t = "enrollment_logs" => q.val \in EnrollmentAction
    <2> TAKE q \in c.rows
    <2>1. PICK r \in file[t].rows : q.id = r.id /\ q.dev = r.dev
      BY RebuiltTable
    <2>2. r.dev \in Known(file) \/ Refers(t, r)
      BY DEF WellFormed
    <2>3. t \in LogTable => r.id \in Nat
      BY DEF WellFormed
    <2> QED BY <1>4, <2>1, <2>2, <2>3, Values DEF Refers
  <1>7. g \in File /\ WellFormed(g)
    BY <1>4, <1>5, <1>6, TableReplaced
  <1> QED BY <1>2, <1>3, <1>7

-----------------------------------------------------------------------------------
(* The invariant.                                                                    *)

InRebuild == {"begin", "copy", "drop", "rename", "commit"}

(* What a phase may rely on.  A table is current unless it is still to be looked at; *)
(* foreign keys are off exactly from the start of a rebuild to its end.              *)
Progress ==
    /\ inTx <=> phase \in {"copy", "drop", "rename", "commit"}
    /\ phase \in {"create", "shape", "index", "seed", "serving"} => fk
    /\ phase \in InRebuild => ~fk
    /\ phase \in InRebuild \cup {"restore"} => toCheck # <<>>
    /\ phase = "create" => toCheck = ReshapeOrder
    /\ phase \notin {"down", "create"} => Missing(disk) = {}
    /\ phase \in InRebuild \cup {"shape", "restore"} =>
        \A t \in Reshaped : disk[t].shape = "current" \/ \E i \in DOMAIN toCheck : toCheck[i] = t
    /\ phase = "restore" /\ ~failed => disk[Head(toCheck)].shape = "current"
    /\ phase \in {"index", "seed", "serving"} => \A t \in Table : disk[t].shape = "current"
    /\ phase \in {"seed", "serving"} => Unindexed(disk) = {}
    /\ phase = "serving" => DefaultDevice \in Known(disk)
    /\ failed => phase = "restore"

(* What the open transaction has done so far.                                        *)
Rebuilding ==
    LET t == Head(toCheck)
        new == Rebuilt(disk, t) IN
    /\ phase \in InRebuild => disk[t].shape # "current"
    /\ phase \in {"drop", "rename", "commit"} => \A q \in new.rows : q.val \in Checked(t)
    /\ phase = "drop" => view = [disk EXCEPT !["new"] = new]
    /\ phase = "rename" => view = [[disk EXCEPT !["new"] = new] EXCEPT ![t] = Absent]
    /\ phase = "commit" => view = [disk EXCEPT ![t] = new]
    /\ phase = "copy" => view = disk

WrittenKept ==
    /\ written \subseteq Table \X (Nat \cup Device) \X (Device \cup {NoDevice})
    /\ RowsKept

MigrationInv == SchemaTypeOK /\ WellFormed(disk) /\ Progress /\ Rebuilding /\ WrittenKept

(* Committed rows stay where they were.                                              *)
LEMMA WrittenStay ==
    ASSUME WrittenKept, written' = written,
           \A n \in Table : \A r \in disk[n].rows :
                \E q \in disk'[n].rows : q.id = r.id /\ q.dev = r.dev
    PROVE  WrittenKept'
  BY DEF WrittenKept, RowsKept

LEMMA MigrationInit == SchemaInit => MigrationInv
  <1> SUFFICES ASSUME SchemaInit PROVE MigrationInv
    OBVIOUS
  <1>1. disk \in File /\ WellFormed(disk) /\ view = disk
    BY SchemaAssumption DEF SchemaInit
  <1>2. SchemaTypeOK
    <2>1. /\ inTx = FALSE /\ fk = FALSE /\ failed = FALSE
          /\ phase = "down" /\ toCheck = <<>> /\ faults = 0
      BY DEF SchemaInit
    <2>2. toCheck \in Seq(Reshaped)
      BY <2>1
    <2>3. faults \in 0 .. MaxFaults
      BY <2>1, SchemaAssumption
    <2> QED BY <1>1, <2>1, <2>2, <2>3 DEF SchemaTypeOK, Phase
  <1>3. Progress /\ Rebuilding
    BY DEF SchemaInit, Progress, Rebuilding, InRebuild
  <1>4. WrittenKept
    <2>1. \A t \in Table : disk[t].rows \subseteq Row
      BY <1>1 DEF File, Content, Name
    <2>2. ASSUME NEW w \in written
          PROVE  /\ w \in Table \X (Nat \cup Device) \X (Device \cup {NoDevice})
                 /\ \E r \in disk[w[1]].rows : r.id = w[2] /\ r.dev = w[3]
      <3>1. /\ w \in Table \X (UNION {{r.id : r \in disk[t].rows} : t \in Table})
                           \X (Device \cup {NoDevice})
            /\ \E r \in disk[w[1]].rows : r.id = w[2] /\ r.dev = w[3]
        BY DEF SchemaInit
      <3>2. w[2] \in Nat \cup Device
        BY <2>1, <3>1 DEF Row
      <3> QED BY <3>1, <3>2
    <2>3. written \subseteq Table \X (Nat \cup Device) \X (Device \cup {NoDevice})
      BY <2>2
    <2>4. RowsKept
      BY <2>2 DEF RowsKept
    <2> QED BY <2>3, <2>4 DEF WrittenKept
  <1> QED BY <1>1, <1>2, <1>3, <1>4 DEF MigrationInv

LEMMA DiskKept ==
    ASSUME MigrationInv, UNCHANGED <<disk, written>>
    PROVE  WellFormed(disk)' /\ WrittenKept'
  BY DEF MigrationInv, WrittenKept, RowsKept

LEMMA InitializeStep ==
    ASSUME MigrationInv, Start \/ TablesCreated \/ ShapesChecked \/ IndexesCreated
    PROVE  MigrationInv'
  <1> USE DEF MigrationInv, fileVars, InRebuild
  <1>1. WellFormed(disk)' /\ WrittenKept'
    BY DiskKept DEF Start, TablesCreated, ShapesChecked, IndexesCreated, Advance
  <1>2. CASE Start
    <2>1. ReshapeOrder \in Seq(Reshaped)
      BY DEF ReshapeOrder, Reshaped
    <2>2. SchemaTypeOK'
      BY <1>2, <2>1 DEF Start, SchemaTypeOK, Phase
    <2>3. Progress' /\ Rebuilding'
      BY <1>2 DEF Start, Progress, Rebuilding
    <2> QED BY <1>1, <2>2, <2>3
  <1>3. CASE TablesCreated
    <2>1. SchemaTypeOK' /\ Rebuilding'
      BY <1>3 DEF TablesCreated, Advance, SchemaTypeOK, Phase, Progress, Rebuilding
    <2>2. view = disk
      BY <1>3 DEF TablesCreated, Advance, SchemaTypeOK
    <2>3. \A t \in Reshaped : \E i \in DOMAIN toCheck : toCheck[i] = t
      BY <1>3 DEF TablesCreated, Advance, Progress, ReshapeOrder, Reshaped
    <2>4. Progress'
      BY <1>3, <2>2, <2>3 DEF TablesCreated, Advance, Progress
    <2> QED BY <1>1, <2>1, <2>4
  <1>4. CASE ShapesChecked
    <2>1. SchemaTypeOK' /\ Rebuilding'
      BY <1>4 DEF ShapesChecked, Advance, SchemaTypeOK, Phase, Progress, Rebuilding
    <2>2. \A t \in Reshaped : disk[t].shape = "current"
      BY <1>4 DEF ShapesChecked, Advance, Progress
    <2>3. ASSUME NEW t \in Table PROVE disk[t].shape = "current"
      <3>1. disk[t].shape \in {"absent", "old", "current"}
        BY Tables DEF SchemaTypeOK, File, Content, Name
      <3>2. disk[t].shape # "absent"
        BY <1>4 DEF ShapesChecked, Advance, Progress, Missing
      <3> QED BY <2>2, <3>1, <3>2 DEF WellFormed
    <2>4. Progress'
      BY <1>4, <2>3 DEF ShapesChecked, Advance, Progress
    <2> QED BY <1>1, <2>1, <2>4
  <1>5. CASE IndexesCreated
    <2>1. SchemaTypeOK' /\ Rebuilding'
      BY <1>5 DEF IndexesCreated, Advance, SchemaTypeOK, Phase, Progress, Rebuilding
    <2>2. view = disk
      BY <1>5 DEF IndexesCreated, Advance, SchemaTypeOK
    <2>3. Progress'
      BY <1>5, <2>2 DEF IndexesCreated, Advance, Progress
    <2> QED BY <1>1, <2>1, <2>3
  <1> QED BY <1>2, <1>3, <1>4, <1>5

LEMMA CreateTableStep ==
    ASSUME MigrationInv, CreateTable
    PROVE  MigrationInv'
  <1> USE DEF MigrationInv
  <1>1. phase = "create" /\ ~inTx /\ view = disk /\ disk \in File
    BY DEF CreateTable, Progress, SchemaTypeOK
  <1>2. PICK t \in Table : disk[t].shape = "absent" /\ disk' = [disk EXCEPT ![t] = Created]
    <2>1. First(Missing(disk)) \in Missing(disk)
      BY <1>1, FirstIn DEF CreateTable, Missing
    <2> QED BY <1>1, <2>1 DEF CreateTable, Execute, Missing
  <1>3. view' = disk' /\ inTx' = inTx
    BY <1>1 DEF CreateTable, Execute
  <1>4. /\ disk' \in File /\ WellFormed(disk')
        /\ \A n \in Name : disk'[n].rows = disk[n].rows
    <2> DEFINE g == [disk EXCEPT ![t] = Created]
    <2>1. /\ g \in File /\ WellFormed(g)
          /\ \A n \in Name : g[n].rows = disk[n].rows
      BY <1>1, <1>2, TableCreated
    <2>2. disk' = g
      BY <1>2
    <2> HIDE DEF g
    <2> QED BY <2>1, <2>2
  <1>5. SchemaTypeOK'
    BY <1>1, <1>3, <1>4 DEF CreateTable, SchemaTypeOK
  <1>6. /\ phase' = "create" /\ inTx' = inTx /\ fk' = fk /\ failed' = failed
        /\ toCheck' = toCheck
    BY <1>1, <1>3 DEF CreateTable
  <1>7. Progress'
    BY <1>1, <1>6 DEF Progress, InRebuild
  <1>8. Rebuilding'
    BY <1>6 DEF Rebuilding, InRebuild
  <1>9. WrittenKept'
    BY <1>4, WrittenStay DEF CreateTable, Name
  <1> QED BY <1>4, <1>5, <1>7, <1>8, <1>9

LEMMA ShapeStep ==
    ASSUME MigrationInv, ShapeCurrent \/ ForeignKeysOff \/ Begin
    PROVE  MigrationInv'
  <1> USE DEF MigrationInv, fileVars, InRebuild
  <1>1. WellFormed(disk)' /\ WrittenKept'
    BY DiskKept DEF ShapeCurrent, ForeignKeysOff, Begin
  <1>2. CASE ShapeCurrent
    <2>1. view = disk /\ toCheck \in Seq(Reshaped)
      BY <1>2 DEF ShapeCurrent, SchemaTypeOK, Progress
    <2>2. SchemaTypeOK' /\ Rebuilding'
      BY <1>2, <2>1 DEF ShapeCurrent, SchemaTypeOK, Progress, Rebuilding
    <2>3. \A t \in Reshaped :
            disk[t].shape = "current" \/ \E i \in DOMAIN Tail(toCheck) : Tail(toCheck)[i] = t
      <3> SUFFICES ASSUME NEW t \in Reshaped, disk[t].shape # "current"
                   PROVE  \E i \in DOMAIN Tail(toCheck) : Tail(toCheck)[i] = t
        OBVIOUS
      <3>1. PICK i \in DOMAIN toCheck : toCheck[i] = t
        BY <1>2 DEF ShapeCurrent, Progress
      <3>2. i # 1
        BY <1>2, <2>1, <3>1 DEF ShapeCurrent
      <3>3. i - 1 \in DOMAIN Tail(toCheck) /\ Tail(toCheck)[i - 1] = t
        BY <1>2, <2>1, <3>1, <3>2 DEF ShapeCurrent
      <3> QED BY <3>3
    <2>4. Progress'
      BY <1>2, <2>3 DEF ShapeCurrent, Progress
    <2> QED BY <1>1, <2>2, <2>4
  <1>3. CASE ForeignKeysOff
    <2>1. view = disk
      BY <1>3 DEF ForeignKeysOff, SchemaTypeOK, Progress
    <2>2. SchemaTypeOK' /\ Rebuilding' /\ Progress'
      BY <1>3, <2>1 DEF ForeignKeysOff, SchemaTypeOK, Progress, Rebuilding, Phase
    <2> QED BY <1>1, <2>2
  <1>4. CASE Begin
    <2>1. view = disk
      BY <1>4 DEF Begin, SchemaTypeOK, Progress
    <2>2. SchemaTypeOK' /\ Rebuilding' /\ Progress'
      BY <1>4, <2>1 DEF Begin, SchemaTypeOK, Progress, Rebuilding, Phase
    <2> QED BY <1>1, <2>2
  <1> QED BY <1>2, <1>3, <1>4

LEMMA RebuildStep ==
    ASSUME MigrationInv, Copy \/ Drop \/ Rename
    PROVE  MigrationInv'
  <1> DEFINE t == Head(toCheck)
             new == Rebuilt(disk, t)
  <1>0. /\ SchemaTypeOK /\ WellFormed(disk) /\ Progress /\ Rebuilding
        /\ disk \in File /\ inTx /\ ~fk /\ phase \in {"copy", "drop", "rename"}
    BY DEF MigrationInv, SchemaTypeOK, Progress, InRebuild, Copy, Drop, Rename
  <1>1. t \in Table /\ t \in Name /\ t # "new" /\ "new" \in Name /\ t \in Reshaped
    <2>1. toCheck \in Seq(Reshaped) /\ toCheck # <<>>
      BY <1>0 DEF SchemaTypeOK, Progress, InRebuild
    <2>2. t \in Reshaped
      BY <2>1
    <2> QED BY <2>2, Tables DEF Name
  <1>2. new \in Content
    BY <1>0, <1>1, RebuiltTable
  <1>3. Absent \in Content
    BY DEF Absent, Content
  <1> HIDE DEF new
  <1>4. /\ UNCHANGED <<disk, inTx, fk, toCheck, failed, faults, written>>
        /\ phase' \in {"drop", "rename", "commit"}
    BY <1>0 DEF Copy, Drop, Rename, Execute
  <1>5. Progress'
    BY <1>0, <1>4 DEF Progress, InRebuild
  <1>6. view' \in File /\ Rebuilding'
    <2>1. CASE Copy
      <3>1. view = disk /\ \A q \in new.rows : q.val \in Checked(t)
        BY <1>0, <2>1 DEF Copy, Rebuilding, Rebuilt, new
      <3>2. view' = [disk EXCEPT !["new"] = new]
        BY <2>1, <3>1 DEF Copy, Execute, Rebuilt, new
      <3>3. view' \in File
        BY <1>0, <1>2, <3>2 DEF File
      <3>4. phase' = "drop" /\ phase = "copy"
        BY <2>1 DEF Copy
      <3> QED BY <1>0, <1>4, <3>1, <3>2, <3>3, <3>4 DEF Rebuilding, InRebuild, new
    <2>2. CASE Drop
      <3>1. /\ view = [disk EXCEPT !["new"] = new] /\ \A q \in new.rows : q.val \in Checked(t)
            /\ phase = "drop" /\ phase' = "rename"
        BY <1>0, <2>2 DEF Drop, Rebuilding, new
      <3>2. view' = [view EXCEPT ![t] = Absent]
        BY <1>0, <2>2 DEF Drop, Execute, Dropped
      <3>3. view' \in File
        BY <1>0, <1>1, <1>3, <3>2 DEF File, SchemaTypeOK
      <3> QED BY <1>0, <1>4, <3>1, <3>2, <3>3 DEF Rebuilding, InRebuild, new
    <2>3. CASE Rename
      <3>1. /\ view = [[disk EXCEPT !["new"] = new] EXCEPT ![t] = Absent]
            /\ \A q \in new.rows : q.val \in Checked(t)
            /\ phase = "rename" /\ phase' = "commit"
        BY <1>0, <2>3 DEF Rename, Rebuilding, new
      <3>2. view' = [view EXCEPT ![t] = view["new"], !["new"] = Absent]
        BY <2>3 DEF Rename, Execute
      <3>3. disk["new"] = Absent /\ DOMAIN disk = Name
        BY <1>0 DEF WellFormed
      <3>4. view["new"] = new
        BY <1>1, <3>1, <3>3
      <3>5. view' = [disk EXCEPT ![t] = new]
        <4>1. view' \in File
          BY <1>0, <1>1, <1>2, <1>3, <3>2, <3>4 DEF File, SchemaTypeOK
        <4>2. [disk EXCEPT ![t] = new] \in File
          BY <1>0, <1>1, <1>2 DEF File
        <4>3. \A n \in Name : view'[n] = [disk EXCEPT ![t] = new][n]
          BY <1>1, <3>1, <3>2, <3>3, <3>4
        <4> QED BY <4>1, <4>2, <4>3 DEF File
      <3>6. view' \in File
        BY <1>0, <1>1, <1>2, <3>5 DEF File
      <3> QED BY <1>0, <1>4, <3>1, <3>5, <3>6 DEF Rebuilding, InRebuild, new
    <2> QED BY <2>1, <2>2, <2>3
  <1>7. SchemaTypeOK'
    BY <1>0, <1>4, <1>6 DEF SchemaTypeOK, Phase
  <1>8. WellFormed(disk)' /\ WrittenKept'
    BY <1>4, DiskKept
  <1> QED BY <1>5, <1>6, <1>7, <1>8 DEF MigrationInv

LEMMA CommitStep ==
    ASSUME MigrationInv, Commit
    PROVE  MigrationInv'
  <1> DEFINE t == Head(toCheck)
             new == Rebuilt(disk, t)
             g == [disk EXCEPT ![t] = new]
  <1>0. /\ SchemaTypeOK /\ WellFormed(disk) /\ Progress /\ Rebuilding
        /\ disk \in File /\ phase = "commit" /\ ~fk
        /\ toCheck \in Seq(Reshaped) /\ toCheck # <<>>
    BY DEF MigrationInv, SchemaTypeOK, Progress, Commit, InRebuild
  <1>1. t \in Table /\ t \in Name
    <2>1. t \in Reshaped
      BY <1>0
    <2> QED BY <2>1, Tables DEF Name
  <1>2. view = g /\ \A q \in new.rows : q.val \in Checked(t)
    BY <1>0 DEF Rebuilding
  <1>3. /\ g \in File /\ WellFormed(g) /\ g[t] = new
        /\ \A n \in Name \ {t} : g[n] = disk[n]
        /\ \A n \in Name : \A r \in disk[n].rows :
             \E q \in g[n].rows : q.id = r.id /\ q.dev = r.dev
    BY <1>0, <1>1, <1>2, TableRebuilt
  <1>4. new.shape = "current"
    BY DEF Rebuilt
  <1> HIDE DEF g, new
  <1>5. disk' = g /\ view' = g /\ inTx' = FALSE /\ phase' = "restore"
        /\ UNCHANGED <<fk, toCheck, failed, faults, written>>
    BY <1>2 DEF Commit
  <1>6. SchemaTypeOK'
    BY <1>0, <1>3, <1>5 DEF SchemaTypeOK, Phase
  <1>7. Missing(disk') = {}
    <2>1. Missing(disk) = {}
      BY <1>0 DEF Progress
    <2>2. \A u \in Table : g[u].shape # "absent"
      BY <1>3, <1>4, <2>1 DEF Missing, Name
    <2> QED BY <1>5, <2>2 DEF Missing
  <1>8. Progress'
    <2>1. \A u \in Reshaped :
            disk'[u].shape = "current" \/ \E i \in DOMAIN toCheck : toCheck[i] = u
      <3> SUFFICES ASSUME NEW u \in Reshaped, disk'[u].shape # "current"
                   PROVE  \E i \in DOMAIN toCheck : toCheck[i] = u
        OBVIOUS
      <3>1. u # t /\ u \in Name
        BY <1>3, <1>4, <1>5, Tables DEF Name
      <3>2. disk[u].shape # "current"
        BY <1>3, <1>5, <3>1
      <3> QED BY <1>0, <3>2 DEF Progress, InRebuild
    <2>2. disk'[Head(toCheck)].shape = "current"
      BY <1>3, <1>4, <1>5
    <2>3. ~failed
      BY <1>0 DEF Progress
    <2> QED BY <1>0, <1>5, <1>7, <2>1, <2>2, <2>3 DEF Progress, InRebuild
  <1>9. Rebuilding'
    BY <1>5 DEF Rebuilding, InRebuild
  <1>10. WrittenKept'
    BY <1>3, <1>5, WrittenStay DEF MigrationInv, Name
  <1> QED BY <1>3, <1>5, <1>6, <1>8, <1>9, <1>10 DEF MigrationInv

LEMMA FaultStep ==
    ASSUME MigrationInv, StatementFails \/ RestoreForeignKeys \/ Crash
    PROVE  MigrationInv'
  <1> USE DEF fileVars, InRebuild
  <1>0. /\ SchemaTypeOK /\ WellFormed(disk) /\ Progress /\ disk \in File
        /\ toCheck \in Seq(Reshaped)
    BY DEF MigrationInv, SchemaTypeOK
  <1>1. WellFormed(disk)' /\ WrittenKept'
    BY DiskKept DEF StatementFails, RestoreForeignKeys, Crash
  <1>2. CASE StatementFails
    <2>1. faults' \in 0 .. MaxFaults
      BY <1>0, <1>2, SchemaAssumption DEF StatementFails, SchemaTypeOK
    <2>2. SchemaTypeOK'
      BY <1>0, <1>2, <2>1 DEF StatementFails, SchemaTypeOK, Phase
    <2>3. Progress' /\ Rebuilding'
      BY <1>0, <1>2 DEF StatementFails, Progress, Rebuilding
    <2> QED BY <1>1, <2>2, <2>3 DEF MigrationInv
  <1>3. CASE Crash
    <2>1. faults' \in 0 .. MaxFaults
      BY <1>0, <1>3, SchemaAssumption DEF Crash, SchemaTypeOK
    <2>2. toCheck' \in Seq(Reshaped) /\ view' = disk /\ view' \in File
      BY <1>0, <1>3 DEF Crash
    <2>3. SchemaTypeOK'
      BY <1>0, <1>3, <2>1, <2>2 DEF Crash, SchemaTypeOK, Phase
    <2>4. Progress' /\ Rebuilding'
      BY <1>0, <1>3 DEF Crash, Progress, Rebuilding
    <2> QED BY <1>1, <2>3, <2>4 DEF MigrationInv
  <1>4. CASE RestoreForeignKeys
    <2>1. view = disk /\ ~inTx /\ toCheck # <<>>
      BY <1>0, <1>4 DEF RestoreForeignKeys, SchemaTypeOK, Progress
    <2>2. toCheck' \in Seq(Reshaped)
      BY <1>0, <1>4, <2>1 DEF RestoreForeignKeys
    <2>3. SchemaTypeOK'
      BY <1>0, <1>4, <2>1, <2>2 DEF RestoreForeignKeys, SchemaTypeOK, Phase
    <2>4. ~failed => \A t \in Reshaped :
            disk[t].shape = "current" \/ \E i \in DOMAIN Tail(toCheck) : Tail(toCheck)[i] = t
      <3> SUFFICES ASSUME ~failed, NEW t \in Reshaped, disk[t].shape # "current"
                   PROVE  \E i \in DOMAIN Tail(toCheck) : Tail(toCheck)[i] = t
        OBVIOUS
      <3>1. PICK i \in DOMAIN toCheck : toCheck[i] = t
        BY <1>0, <1>4 DEF RestoreForeignKeys, Progress
      <3>2. i # 1
        BY <1>0, <1>4, <2>1, <3>1 DEF RestoreForeignKeys, Progress
      <3>3. i - 1 \in DOMAIN Tail(toCheck) /\ Tail(toCheck)[i - 1] = t
        BY <1>0, <2>1, <3>1, <3>2
      <3> QED BY <3>3
    <2>5. Progress' /\ Rebuilding'
      BY <1>0, <1>4, <2>1, <2>4 DEF RestoreForeignKeys, Progress, Rebuilding
    <2> QED BY <1>1, <2>3, <2>5 DEF MigrationInv
  <1> QED BY <1>2, <1>3, <1>4

LEMMA CreateIndexStep ==
    ASSUME MigrationInv, CreateIndex
    PROVE  MigrationInv'
  <1>0. /\ SchemaTypeOK /\ WellFormed(disk) /\ Progress /\ disk \in File
        /\ phase = "index" /\ ~inTx /\ view = disk
    BY DEF MigrationInv, SchemaTypeOK, Progress, CreateIndex
  <1>1. PICK t \in Table : disk' = [disk EXCEPT ![t].indexed = TRUE]
    <2>1. Unindexed(disk) \in SUBSET Table /\ Unindexed(disk) # {}
      BY <1>0 DEF CreateIndex, Unindexed
    <2>2. First(Unindexed(disk)) \in Table
      BY <2>1, FirstIn
    <2> QED BY <1>0, <2>2 DEF CreateIndex, Execute
  <1> DEFINE g == [disk EXCEPT ![t].indexed = TRUE]
  <1>2. disk[t].shape = "current"
    BY <1>0 DEF Progress
  <1>3. /\ g \in File /\ WellFormed(g)
        /\ \A n \in Name : g[n].rows = disk[n].rows /\ g[n].shape = disk[n].shape
    BY <1>0, <1>2, TableIndexed
  <1>4. disk' = g /\ view' = g
    BY <1>0, <1>1 DEF CreateIndex, Execute
  <1> HIDE DEF g
  <1>5. /\ phase' = "index" /\ inTx' = inTx
        /\ UNCHANGED <<fk, toCheck, failed, faults, written>>
    BY <1>0 DEF CreateIndex, Execute
  <1>6. SchemaTypeOK'
    BY <1>0, <1>3, <1>4, <1>5 DEF SchemaTypeOK
  <1>7. Progress'
    BY <1>0, <1>3, <1>4, <1>5 DEF Progress, InRebuild, Missing, Name
  <1>8. Rebuilding'
    BY <1>5 DEF Rebuilding, InRebuild
  <1>9. WrittenKept'
    BY <1>3, <1>4, <1>5, WrittenStay DEF MigrationInv, Name
  <1> QED BY <1>3, <1>4, <1>6, <1>7, <1>8, <1>9 DEF MigrationInv

(* A row that keeps to its table's constraints is added to a complete file.          *)
LEMMA InsertedStep ==
    ASSUME MigrationInv, phase \in {"seed", "serving"}, phase' = "serving",
           NEW t \in Table, NEW r \in Row, r.val \in Checked(t), t \in LogTable => r.id \in Nat,
           r.dev \in Known(disk) \/ Refers(t, r) \/ (t = "devices" /\ r.id = r.dev),
           Inserted(t, r), UNCHANGED <<fk, toCheck, failed, faults>>,
           DefaultDevice \in Known(disk) \/ (t = "devices" /\ r.id = DefaultDevice)
    PROVE  /\ MigrationInv'
           /\ \A n \in Table : disk[n].rows \subseteq disk'[n].rows
           /\ t # "devices" => disk'["devices"] = disk["devices"]
           /\ t = "devices" => disk'[t].rows = disk[t].rows \cup {r}
  <1> DEFINE g == WithRow(disk, t, r)
  <1>0. /\ SchemaTypeOK /\ WellFormed(disk) /\ Progress /\ disk \in File
        /\ ~inTx /\ view = disk /\ \A n \in Table : disk[n].shape = "current"
        /\ Unindexed(disk) = {} /\ Missing(disk) = {}
    BY DEF MigrationInv, SchemaTypeOK, Progress
  <1>1. Table \subseteq Name /\ "devices" \in Name /\ "devices" \in Table
    BY Tables DEF Name
  <1>2. /\ g \in File /\ WellFormed(g)
        /\ g[t].rows = disk[t].rows \cup {r}
        /\ \A n \in Name : disk[n].rows \subseteq g[n].rows /\ g[n].shape = disk[n].shape
        /\ \A n \in Name : g[n].indexed = disk[n].indexed
        /\ \A n \in Name \ {t} : g[n] = disk[n]
    BY <1>0, RowInserted
  <1>3. disk' = g /\ view' = g /\ inTx' = inTx /\ written' = written \cup {<<t, r.id, r.dev>>}
    BY <1>0 DEF Inserted, Execute
  <1> HIDE DEF g
  <1>4. SchemaTypeOK'
    BY <1>0, <1>2, <1>3 DEF SchemaTypeOK, Phase
  <1>5. Unindexed(disk') = {} /\ Missing(disk') = {}
    BY <1>0, <1>1, <1>2, <1>3 DEF Unindexed, Missing
  <1>6. DefaultDevice \in Known(disk')
    BY <1>1, <1>2, <1>3 DEF Known
  <1>7. \A n \in Table : disk'[n].shape = "current"
    BY <1>0, <1>1, <1>2, <1>3
  <1>8. Progress'
    BY <1>0, <1>3, <1>5, <1>6, <1>7 DEF Progress, InRebuild
  <1>9. Rebuilding'
    BY DEF Rebuilding, InRebuild
  <1>10. WrittenKept'
    <2>1. WrittenKept /\ <<t, r.id, r.dev>> \in Table \X (Nat \cup Device) \X (Device \cup {NoDevice})
      BY DEF MigrationInv, Row
    <2>2. ASSUME NEW w \in written' PROVE \E q \in disk'[w[1]].rows : q.id = w[2] /\ q.dev = w[3]
      <3>1. CASE w \in written
        <4>1. w[1] \in Name
          BY <1>1, <2>1, <3>1 DEF WrittenKept
        <4>2. PICK q \in disk[w[1]].rows : q.id = w[2] /\ q.dev = w[3]
          BY <2>1, <3>1 DEF WrittenKept, RowsKept
        <4> QED BY <1>2, <1>3, <4>1, <4>2
      <3>2. CASE w = <<t, r.id, r.dev>>
        BY <1>2, <1>3, <3>2
      <3> QED BY <1>3, <3>1, <3>2
    <2>3. written' \subseteq Table \X (Nat \cup Device) \X (Device \cup {NoDevice})
      BY <1>3, <2>1 DEF WrittenKept
    <2> QED BY <2>2, <2>3 DEF WrittenKept, RowsKept
  <1>11. MigrationInv'
    BY <1>2, <1>3, <1>4, <1>8, <1>9, <1>10 DEF MigrationInv
  <1> QED BY <1>1, <1>2, <1>3, <1>11

LEMMA NewDeviceRow ==
    ASSUME NEW d \in Device
    PROVE  /\ NewDevice(d) \in Row /\ NewDevice(d).val = "pending"
           /\ NewDevice(d).id = d /\ NewDevice(d).dev = d
  <1>1. (CHOOSE i \in Instant : TRUE) \in Instant
    BY SchemaAssumption
  <1> QED BY <1>1, Values DEF NewDevice, Row

LEMMA SeedStep ==
    ASSUME MigrationInv, SeedDefaults
    PROVE  MigrationInv'
  <1>0. /\ SchemaTypeOK /\ WellFormed(disk) /\ Progress /\ disk \in File
        /\ phase = "seed" /\ phase' = "serving" /\ ~inTx /\ view = disk
        /\ UNCHANGED <<fk, toCheck, failed, faults>>
    BY DEF MigrationInv, SchemaTypeOK, Progress, SeedDefaults
  <1>1. CASE DefaultDevice \in Known(disk)
    <2>1. UNCHANGED <<disk, view, inTx, written>>
      BY <1>0, <1>1 DEF SeedDefaults, fileVars
    <2>2. WellFormed(disk)' /\ WrittenKept'
      BY <2>1, DiskKept
    <2>3. SchemaTypeOK'
      BY <1>0, <2>1 DEF SchemaTypeOK, Phase
    <2>4. Progress' /\ Rebuilding'
      BY <1>0, <1>1, <2>1 DEF Progress, Rebuilding, InRebuild
    <2> QED BY <2>2, <2>3, <2>4 DEF MigrationInv
  <1>2. CASE DefaultDevice \notin Known(disk)
    <2>1. Inserted("devices", NewDevice(DefaultDevice))
      BY <1>0, <1>2 DEF SeedDefaults
    <2>2. "devices" \in Table /\ "devices" \notin LogTable /\ DefaultDevice \in Device
      BY Tables, SchemaAssumption DEF LogTable
    <2> QED BY <1>0, <2>1, <2>2, NewDeviceRow, Values, InsertedStep
  <1> QED BY <1>1, <1>2

LEMMA AddDeviceStep ==
    ASSUME MigrationInv, NEW d \in Device, AddDevice(d)
    PROVE  MigrationInv'
  <1>1. /\ phase = "serving" /\ phase' = "serving" /\ DefaultDevice \in Known(disk)
        /\ Inserted("devices", NewDevice(d)) /\ UNCHANGED <<fk, toCheck, failed, faults>>
    BY DEF MigrationInv, Progress, AddDevice
  <1>2. "devices" \in Table /\ "devices" \notin LogTable
    BY Tables DEF LogTable
  <1> QED BY <1>1, <1>2, NewDeviceRow, Values, InsertedStep

LEMMA RecordStep ==
    ASSUME MigrationInv, NEW t \in Recorded, NEW d \in Device \cup {NoDevice}, NEW ts \in Instant,
           Record(t, d, ts)
    PROVE  /\ MigrationInv'
           /\ \A n \in Table : disk[n].rows \subseteq disk'[n].rows
           /\ disk'["devices"] = disk["devices"]
  <1> DEFINE r == [id |-> NextId(t), dev |-> d, ts |-> ts, val |-> CHOOSE v \in Checked(t) : TRUE]
  <1>0. /\ phase = "serving" /\ phase' = "serving" /\ DefaultDevice \in Known(disk) /\ fk
        /\ view = disk /\ disk \in File /\ WellFormed(disk)
        /\ Inserted(t, r) /\ UNCHANGED <<fk, toCheck, failed, faults>>
        /\ d \in Known(disk) \/ Refers(t, r)
    BY DEF MigrationInv, SchemaTypeOK, Progress, Record
  <1>1. t \in Table /\ t \in LogTable /\ t # "devices"
    BY Tables, SchemaAssumption DEF LogTable
  <1>2. NextId(t) \in Nat
    <2>1. IsFiniteSet(view[t].rows)
      BY <1>0, <1>1 DEF WellFormed
    <2> QED BY <2>1, FS_CardinalityType DEF NextId
  <1>3. r.val \in Checked(t) /\ r.val \in Value
    BY <1>1, Values
  <1>4. r \in Row /\ r.id = NextId(t) /\ r.dev = d
    BY <1>2, <1>3 DEF Row
  <1> HIDE DEF r
  <1> QED BY <1>0, <1>1, <1>2, <1>3, <1>4, InsertedStep

(* Whatever statement comes next, and whatever goes wrong with it.                   *)
LEMMA MigrationStep == MigrationInv /\ [SchemaNext]_schemaVars => MigrationInv'
  <1> SUFFICES ASSUME MigrationInv, [SchemaNext]_schemaVars PROVE MigrationInv'
    OBVIOUS
  <1>1. CASE StartUp
    BY <1>1, InitializeStep, CreateTableStep, ShapeStep, RebuildStep, CommitStep, FaultStep,
       CreateIndexStep, SeedStep DEF StartUp
  <1>2. CASE StatementFails \/ Crash
    BY <1>2, FaultStep
  <1>3. ASSUME NEW d \in Device, AddDevice(d) PROVE MigrationInv'
    BY <1>3, AddDeviceStep
  <1>4. ASSUME NEW t \in Recorded, NEW d \in Device \cup {NoDevice}, NEW ts \in Instant,
               Record(t, d, ts)
        PROVE  MigrationInv'
    BY <1>4, RecordStep
  <1>5. CASE UNCHANGED schemaVars
    <2>1. UNCHANGED <<disk, view, inTx, fk, phase, toCheck, failed, faults, written>>
      BY <1>5 DEF schemaVars, fileVars
    <2>2. WellFormed(disk)' /\ WrittenKept'
      BY <2>1, DiskKept
    <2>3. SchemaTypeOK' /\ Progress' /\ Rebuilding'
      BY <2>1 DEF MigrationInv, SchemaTypeOK, Progress, Rebuilding
    <2> QED BY <2>2, <2>3 DEF MigrationInv
  <1> QED BY <1>1, <1>2, <1>3, <1>4, <1>5 DEF SchemaNext

SchemaSafety == SchemaInit /\ [][SchemaNext]_schemaVars

LEMMA MigrationCorrect == SchemaSafety => []MigrationInv
  BY MigrationInit, MigrationStep, PTL DEF SchemaSafety

-----------------------------------------------------------------------------------
(* Theorems.                                                                         *)

(* The connection sees the committed file exactly when no transaction is open, and   *)
(* one is open only within a rebuild (rebuildTable).                                 *)
THEOREM MigrationTypeCorrect == SchemaSafety => []SchemaTypeOK
  <1>1. MigrationInv => SchemaTypeOK
    BY DEF MigrationInv
  <1> QED BY <1>1, MigrationCorrect, PTL

(* No row that was ever committed is lost, whatever a start rebuilds and wherever it *)
(* is cut short (rebuildTable and its callers).                                      *)
THEOREM MigrationKeepsRows == SchemaSafety => []RowsKept
  <1>1. MigrationInv => RowsKept
    BY DEF MigrationInv, WrittenKept
  <1> QED BY <1>1, MigrationCorrect, PTL

(* Handlers only ever run on a complete file with foreign keys enforced              *)
(* (onModuleInit).                                                                   *)
THEOREM CompleteWhenServing == SchemaSafety => []ServesCurrent
  <1>1. MigrationInv => ServesCurrent
    BY DEF MigrationInv, Progress, SchemaTypeOK, ServesCurrent
  <1> QED BY <1>1, MigrationCorrect, PTL

(* Statuses other than pending are copied as they are.                               *)
LEMMA RebuildHaving ==
    ASSUME MigrationInv, Commit, NEW s \in IdentityStatus \ {"pending"}
    PROVE  Having(disk', s) = Having(disk, s)
  <1> DEFINE t == Head(toCheck)
             new == Rebuilt(disk, t)
             g == [disk EXCEPT ![t] = new]
  <1>0. /\ disk \in File /\ WellFormed(disk) /\ Rebuilding /\ phase = "commit"
        /\ toCheck \in Seq(Reshaped) /\ toCheck # <<>>
    BY DEF MigrationInv, SchemaTypeOK, Progress, Commit, InRebuild
  <1>1. t \in Table /\ "devices" \in Table /\ "devices" \in Name
    <2>1. t \in Reshaped
      BY <1>0
    <2> QED BY <2>1, Tables DEF Name
  <1>2. /\ disk' = g /\ g[t] = new /\ \A n \in Name \ {t} : g[n] = disk[n]
    <2>1. view = g /\ \A q \in new.rows : q.val \in Checked(t)
      BY <1>0 DEF Rebuilding
    <2> QED BY <1>0, <1>1, <2>1, TableRebuilt DEF Commit
  <1>3. /\ \A r \in disk[t].rows : \E q \in new.rows : q = Converted(t, r) /\ q.id = r.id
        /\ \A q \in new.rows : \E r \in disk[t].rows : q = Converted(t, r) /\ q.id = r.id
    BY <1>0, <1>1, RebuiltTable
  <1>4. disk[t].rows \subseteq Row
    BY <1>0, <1>1 DEF File, Content, Name
  <1>5. \A r \in disk[t].rows : t = "devices" => (Converted(t, r).val = s <=> r.val = s)
    BY <1>1, <1>4, ConvertedRow
  <1> HIDE DEF g, new, t
  <1>6. CASE t # "devices"
    BY <1>1, <1>2, <1>6 DEF Having
  <1>7. CASE t = "devices"
    <2>1. disk'["devices"].rows = new.rows
      BY <1>2, <1>7
    <2>2. \A i : i \in Having(disk', s) <=> i \in Having(disk, s)
      BY <1>3, <1>5, <1>7, <2>1 DEF Having
    <2> QED BY <2>2
  <1> QED BY <1>6, <1>7

LEMMA StartKeepsStep ==
    ASSUME MigrationInv, [SchemaNext]_schemaVars, phase # "serving",
           NEW s \in IdentityStatus \ {"pending"}
    PROVE  Having(disk', s) = Having(disk, s)
  <1>0. /\ SchemaTypeOK /\ WellFormed(disk) /\ Progress /\ disk \in File
        /\ "devices" \in Table /\ "devices" \in Name
    BY Tables DEF MigrationInv, SchemaTypeOK, Name
  <1>1. disk' = disk => Having(disk', s) = Having(disk, s)
    OBVIOUS
  <1>2. CASE CreateTable
    <2>1. phase = "create" /\ ~inTx /\ view = disk
      BY <1>0, <1>2 DEF CreateTable, SchemaTypeOK
    <2>2. Missing(disk) \in SUBSET Table /\ Missing(disk) # {}
      BY <1>2, <2>1 DEF CreateTable, Missing
    <2>3. First(Missing(disk)) \in Missing(disk)
      BY <2>2, FirstIn
    <2>4. PICK t \in Table : disk[t].shape = "absent" /\ disk' = [disk EXCEPT ![t] = Created]
      BY <1>2, <2>1, <2>3 DEF CreateTable, Execute, Missing
    <2>5. disk'["devices"].rows = disk["devices"].rows
      BY <1>0, <2>4, TableCreated
    <2> QED BY <2>5 DEF Having
  <1>3. CASE CreateIndex
    <2>1. phase = "index" /\ ~inTx /\ view = disk /\ \A t \in Table : disk[t].shape = "current"
      BY <1>0, <1>3 DEF CreateIndex, SchemaTypeOK, Progress
    <2>2. Unindexed(disk) \in SUBSET Table /\ Unindexed(disk) # {}
      BY <1>3, <2>1 DEF CreateIndex, Unindexed
    <2>3. First(Unindexed(disk)) \in Table
      BY <2>2, FirstIn
    <2>4. PICK t \in Table : disk' = [disk EXCEPT ![t].indexed = TRUE]
      BY <1>3, <2>1, <2>3 DEF CreateIndex, Execute
    <2>5. disk'["devices"].rows = disk["devices"].rows
      BY <1>0, <2>1, <2>4, TableIndexed
    <2> QED BY <2>5 DEF Having
  <1>4. CASE SeedDefaults
    <2>1. CASE DefaultDevice \in Known(view)
      BY <1>1, <1>4, <2>1 DEF SeedDefaults, fileVars
    <2>2. CASE DefaultDevice \notin Known(view)
      <3> DEFINE r == NewDevice(DefaultDevice)
      <3>1. disk' = WithRow(disk, "devices", r)
        BY <1>0, <1>4, <2>2 DEF SeedDefaults, Inserted, Execute, SchemaTypeOK
      <3>2. r.val = "pending"
        BY SchemaAssumption, NewDeviceRow
      <3> HIDE DEF r
      <3>3. disk'["devices"].rows = disk["devices"].rows \cup {r}
        BY <1>0, <3>1 DEF WithRow, File, Content
      <3>4. \A i : i \in Having(disk', s) <=> i \in Having(disk, s)
        BY <3>2, <3>3 DEF Having
      <3> QED BY <3>4
    <2> QED BY <2>1, <2>2
  <1>5. CASE Commit
    BY <1>5, RebuildHaving
  <1>6. CASE Copy \/ Drop \/ Rename
    <2>1. inTx
      BY <1>0, <1>6 DEF Copy, Drop, Rename, Progress
    <2> QED BY <1>1, <1>6, <2>1 DEF Copy, Drop, Rename, Execute
  <1>7. CASE \/ Start \/ TablesCreated \/ ShapeCurrent \/ ForeignKeysOff \/ Begin
             \/ RestoreForeignKeys \/ ShapesChecked \/ IndexesCreated
             \/ StatementFails \/ Crash \/ UNCHANGED schemaVars
    BY <1>1, <1>7 DEF Start, TablesCreated, ShapeCurrent, ForeignKeysOff, Begin,
       RestoreForeignKeys, ShapesChecked, IndexesCreated, Advance, StatementFails, Crash,
       schemaVars, fileVars
  <1>8. ~ \E d \in Device : AddDevice(d)
    BY DEF AddDevice
  <1>9. ~ \E t \in Recorded, d \in Device \cup {NoDevice}, ts \in Instant : Record(t, d, ts)
    BY DEF Record
  <1> QED BY <1>2, <1>3, <1>4, <1>5, <1>6, <1>7, <1>8, <1>9 DEF SchemaNext, StartUp

(* No start changes whom the file trusts, nor whom it holds to be invalid or locked  *)
(* (ensureDevicesTableShape, seedDefaults).                                          *)
THEOREM TrustSurvivesStarts == SchemaSafety => StartKeepsTrust
  <1>1. MigrationInv /\ [SchemaNext]_schemaVars =>
          [phase # "serving" => \A s \in IdentityStatus \ {"pending"} :
              Having(disk', s) = Having(disk, s)]_schemaVars
    BY StartKeepsStep
  <1> QED BY <1>1, MigrationCorrect, PTL DEF SchemaSafety, StartKeepsTrust

-----------------------------------------------------------------------------------
(* The file implements FileUpgrade, statement by statement.                          *)

Shapes(file) == [t \in Table |-> file[t].shape]
Rows(file) == [t \in Table |-> file[t].rows]

LEMMA GoodRow ==
    ASSUME NEW file, WellFormed(file), NEW t \in Table, file[t].shape = "current",
           NEW r \in file[t].rows
    PROVE  Upgraded!Good(Rows(file), t, r)
  <1>1. Upgraded!Known(Rows(file)) = Known(file)
    BY Tables DEF Upgraded!Known, Known, Rows
  <1>2. r.val \in Checked(t) /\ r.dev \in Known(file) \cup {NoDevice}
    BY DEF WellFormed, Refers
  <1> QED BY <1>1, <1>2 DEF Upgraded!Good

(* The rows a table is rebuilt with are those the upgrade promises.                  *)
LEMMA RebuiltCarried ==
    ASSUME NEW file \in File, WellFormed(file), NEW t \in Reshaped
    PROVE  Upgraded!Carried(t, file[t].rows, Rebuilt(file, t).rows)
  <1> DEFINE before == file[t].rows
             after == Rebuilt(file, t).rows
  <1>1. t \in Table /\ before \subseteq Row
    BY Tables DEF File, Content, Name
  <1>2. after = {Converted(t, r) : r \in before}
    BY DEF Rebuilt
  <1>3. ASSUME NEW r \in before
        PROVE  /\ Converted(t, r).id = r.id /\ Converted(t, r).dev = r.dev
               /\ Converted(t, r).ts = r.ts
               /\ r.val \in Checked(t) => Converted(t, r) = r
               /\ \/ Converted(t, r) = r
                  \/ t = "devices" /\ Converted(t, r).val = "pending"
                  \/ t = "enforcement_logs" /\ Converted(t, r).val = "ok"
    <2>1. r \in Row
      BY <1>1
    <2>2. CASE t = "devices" /\ r.val \notin IdentityStatus
      <3> DEFINE q == [r EXCEPT !.val = "pending"]
      <3>1. Converted(t, r) = q /\ r.val \notin Checked(t)
        BY <2>2 DEF Converted, Checked
      <3>2. q.id = r.id /\ q.dev = r.dev /\ q.ts = r.ts /\ q.val = "pending"
        BY <2>1 DEF Row
      <3> HIDE DEF q
      <3> QED BY <2>2, <3>1, <3>2
    <2>3. CASE t = "enforcement_logs" /\ r.val \notin PolicyCode
      <3> DEFINE q == [r EXCEPT !.val = "ok"]
      <3>1. Converted(t, r) = q /\ r.val \notin Checked(t)
        BY <2>3 DEF Converted, Checked
      <3>2. q.id = r.id /\ q.dev = r.dev /\ q.ts = r.ts /\ q.val = "ok"
        BY <2>1 DEF Row
      <3> HIDE DEF q
      <3> QED BY <2>3, <3>1, <3>2
    <2>4. CASE /\ ~(t = "devices" /\ r.val \notin IdentityStatus)
               /\ ~(t = "enforcement_logs" /\ r.val \notin PolicyCode)
      BY <2>4 DEF Converted
    <2> QED BY <2>2, <2>3, <2>4
  <1> HIDE DEF before, after
  <1>4. Upgraded!Named(after) = Upgraded!Named(before)
    BY <1>2, <1>3 DEF Upgraded!Named
  <1>5. \A r \in before : r.val \in Checked(t) => r \in after
    BY <1>2, <1>3
  <1>6. \A q \in after \ before :
            \/ t = "devices" /\ q.val = "pending"
            \/ t = "enforcement_logs" /\ q.val = "ok"
    BY <1>2, <1>3
  <1> QED BY <1>1, <1>4, <1>5, <1>6 DEF Upgraded!Carried, before, after

LEMMA CommitUpgrades ==
    ASSUME MigrationInv, MigrationInv', Commit
    PROVE  Upgraded!Next
  <1> DEFINE t == Head(toCheck)
             new == Rebuilt(disk, t)
             g == [disk EXCEPT ![t] = new]
  <1>0. /\ disk \in File /\ WellFormed(disk) /\ Rebuilding /\ Progress /\ phase = "commit"
        /\ toCheck \in Seq(Reshaped) /\ toCheck # <<>> /\ WellFormed(disk')
    BY DEF MigrationInv, SchemaTypeOK, Progress, Commit, InRebuild
  <1>1. t \in Reshaped /\ t \in Table /\ Table \subseteq Name
    <2>1. t \in Reshaped
      BY <1>0
    <2> QED BY <2>1, Tables DEF Name
  <1>2. /\ disk' = g /\ g[t] = new /\ \A n \in Name \ {t} : g[n] = disk[n]
    <2>1. view = g /\ \A q \in new.rows : q.val \in Checked(t)
      BY <1>0 DEF Rebuilding
    <2> QED BY <1>0, <1>1, <2>1, TableRebuilt DEF Commit
  <1>3. Upgraded!Carried(t, disk[t].rows, new.rows) /\ new.shape = "current"
    BY <1>0, <1>1, RebuiltCarried DEF Rebuilt
  <1>4. disk[t].shape = "old"
    <2>1. disk[t].shape \in {"absent", "old", "current"}
      BY <1>0, <1>1 DEF File, Content
    <2>2. disk[t].shape # "absent" /\ disk[t].shape # "current"
      BY <1>0, <1>1 DEF Progress, Missing, Rebuilding, InRebuild
    <2> QED BY <2>1, <2>2
  <1> HIDE DEF g, new
  <1> PICK u \in Table : u = t
    BY <1>1
  <1> HIDE DEF t
  <1>5. /\ Shapes(disk') = [Shapes(disk) EXCEPT ![u] = "current"]
        /\ Rows(disk') = [Rows(disk) EXCEPT ![u] = Rows(disk')[u]]
        /\ Shapes(disk)[u] = "old"
        /\ Rows(disk)[u] = disk[u].rows /\ Rows(disk')[u] = new.rows
    BY <1>1, <1>2, <1>3, <1>4 DEF Shapes, Rows
  <1>6. \A r \in Rows(disk')[u] : Upgraded!Good(Rows(disk'), u, r)
    BY <1>0, <1>1, <1>2, <1>3, <1>5, GoodRow
  <1>7. phase # "serving" /\ phase' # "serving"
    BY DEF Commit
  <1>8. Upgraded!Upgrade(u)
    BY <1>3, <1>5, <1>6, <1>7 DEF Upgraded!Upgrade, Shapes, Rows
  <1> QED BY <1>8 DEF Upgraded!Next

(* A row that reaches the file is added to it as the specification says.             *)
LEMMA InsertedAdds ==
    ASSUME MigrationInv, MigrationInv', phase \in {"seed", "serving"}, phase' = "serving",
           NEW t \in Table, NEW r \in Row, Inserted(t, r)
    PROVE  /\ Shapes(disk') = Shapes(disk)
           /\ \/ Rows(disk') = Rows(disk)
              \/ /\ r \notin Rows(disk)[t] /\ r \in Rows(disk')[t]
                 /\ Rows(disk') = [Rows(disk) EXCEPT ![t] = @ \cup {r}]
                 /\ Upgraded!Good(Rows(disk'), t, r)
  <1> DEFINE c == [disk[t] EXCEPT !.rows = disk[t].rows \cup {r}]
  <1>0. /\ disk \in File /\ ~inTx /\ view = disk /\ t \in Name /\ Table \subseteq Name
        /\ \A n \in Table : disk[n].shape = "current"
        /\ WellFormed(disk')
    BY DEF MigrationInv, SchemaTypeOK, Progress, Name
  <1>1. disk' = [disk EXCEPT ![t] = c]
    BY <1>0 DEF Inserted, Execute, WithRow
  <1>2. c.rows = disk[t].rows \cup {r} /\ c.shape = disk[t].shape
    BY <1>0 DEF File, Content
  <1> HIDE DEF c
  <1>3. disk'[t] = c /\ \A n \in Name \ {t} : disk'[n] = disk[n]
    BY <1>0, <1>1 DEF File
  <1>4. Shapes(disk') = Shapes(disk)
    BY <1>0, <1>2, <1>3 DEF Shapes
  <1>5. Rows(disk') = [Rows(disk) EXCEPT ![t] = @ \cup {r}]
    BY <1>0, <1>2, <1>3 DEF Rows
  <1>6. Upgraded!Good(Rows(disk'), t, r)
    BY <1>0, <1>2, <1>3, GoodRow
  <1>7. Rows(disk)[t] = disk[t].rows /\ Rows(disk')[t] = disk[t].rows \cup {r}
    BY <1>2, <1>3 DEF Rows
  <1>8. CASE r \in disk[t].rows
    <2>1. Rows(disk') = Rows(disk)
      BY <1>5, <1>7, <1>8 DEF Rows
    <2> QED BY <1>4, <2>1
  <1>9. CASE r \notin disk[t].rows
    BY <1>4, <1>5, <1>6, <1>7, <1>9
  <1> QED BY <1>8, <1>9

LEMMA StepIsUpgradeStep ==
    ASSUME MigrationInv, MigrationInv', [SchemaNext]_schemaVars
    PROVE  [Upgraded!Next]_(Upgraded!vars)
  <1>0. /\ SchemaTypeOK /\ WellFormed(disk) /\ Progress /\ disk \in File
        /\ Table \subseteq Name /\ "devices" \in Table
    BY Tables DEF MigrationInv, SchemaTypeOK, Name
  <1>1. ASSUME Shapes(disk') = Shapes(disk), Rows(disk') = Rows(disk),
               (phase' = "serving") <=> (phase = "serving")
        PROVE  UNCHANGED (Upgraded!vars)
    BY <1>1 DEF Upgraded!vars, Shapes, Rows
  <1>2. CASE CreateTable
    <2>1. phase = "create" /\ phase' = "create" /\ ~inTx /\ view = disk
      BY <1>0, <1>2 DEF CreateTable, SchemaTypeOK
    <2>2. Missing(disk) \in SUBSET Table /\ Missing(disk) # {}
      BY <1>2, <2>1 DEF CreateTable, Missing
    <2>3. First(Missing(disk)) \in Missing(disk)
      BY <2>2, FirstIn
    <2>4. PICK t \in Table : disk[t].shape = "absent" /\ disk' = [disk EXCEPT ![t] = Created]
      BY <1>2, <2>1, <2>3 DEF CreateTable, Execute, Missing
    <2>5. /\ \A n \in Name : disk'[n].rows = disk[n].rows
          /\ \A n \in Name \ {t} : disk'[n] = disk[n]
      BY <1>0, <2>4, TableCreated
    <2>6. disk'[t].shape = "current"
      BY <1>0, <2>4 DEF File, Created
    <2>7. /\ Rows(disk') = Rows(disk)
          /\ Shapes(disk') = [Shapes(disk) EXCEPT ![t] = "current"]
          /\ Shapes(disk)[t] = "absent"
      <3>1. Rows(disk') = Rows(disk)
        BY <1>0, <2>5 DEF Rows
      <3>2. Shapes(disk') = [Shapes(disk) EXCEPT ![t] = "current"]
        <4> DEFINE was == Shapes(disk)
                   now == Shapes(disk')
        <4>1. \A n \in Table : now[n] = IF n = t THEN "current" ELSE was[n]
          BY <1>0, <2>5, <2>6 DEF Shapes
        <4>2. now = [n \in Table |-> now[n]] /\ DOMAIN was = Table
          BY DEF Shapes
        <4>3. now = [was EXCEPT ![t] = "current"]
          <5> HIDE DEF was, now
          <5> QED BY <4>1, <4>2
        <4> QED BY <4>3
      <3>3. Shapes(disk)[t] = "absent"
        BY <2>4 DEF Shapes
      <3> QED BY <3>1, <3>2, <3>3
    <2>8. Upgraded!Create(t)
      BY <2>1, <2>7 DEF Upgraded!Create, Shapes, Rows
    <2> QED BY <2>8 DEF Upgraded!Next
  <1>3. CASE CreateIndex
    <2>1. /\ phase = "index" /\ phase' = "index" /\ ~inTx /\ view = disk
          /\ \A t \in Table : disk[t].shape = "current"
      BY <1>0, <1>3 DEF CreateIndex, SchemaTypeOK, Progress
    <2>2. Unindexed(disk) \in SUBSET Table /\ Unindexed(disk) # {}
      BY <1>3, <2>1 DEF CreateIndex, Unindexed
    <2>3. First(Unindexed(disk)) \in Table
      BY <2>2, FirstIn
    <2>4. PICK t \in Table : disk' = [disk EXCEPT ![t].indexed = TRUE]
      BY <1>3, <2>1, <2>3 DEF CreateIndex, Execute
    <2>5. \A n \in Name : disk'[n].rows = disk[n].rows /\ disk'[n].shape = disk[n].shape
      BY <1>0, <2>1, <2>4, TableIndexed
    <2>6. Shapes(disk') = Shapes(disk) /\ Rows(disk') = Rows(disk)
      BY <1>0, <2>5 DEF Shapes, Rows
    <2> QED BY <1>1, <2>1, <2>6
  <1>4. CASE SeedDefaults
    <2>1. phase = "seed" /\ phase' = "serving" /\ \A t \in Table : disk[t].shape = "current"
      BY <1>0, <1>4 DEF SeedDefaults, Progress
    <2>2. CASE disk' = disk
      BY <2>1, <2>2 DEF Upgraded!Next, Upgraded!Open
    <2>3. CASE DefaultDevice \notin Known(view)
      <3> DEFINE r == NewDevice(DefaultDevice)
      <3>1. Inserted("devices", r) /\ r \in Row
        BY <1>4, <2>3, SchemaAssumption, NewDeviceRow DEF SeedDefaults
      <3> HIDE DEF r
      <3>2. /\ Shapes(disk') = Shapes(disk)
            /\ \/ Rows(disk') = Rows(disk)
               \/ /\ r \notin Rows(disk)["devices"] /\ r \in Rows(disk')["devices"]
                  /\ Rows(disk') = [Rows(disk) EXCEPT !["devices"] = @ \cup {r}]
                  /\ Upgraded!Good(Rows(disk'), "devices", r)
        BY <1>0, <2>1, <3>1, InsertedAdds
      <3>3. Upgraded!Open
        BY <2>1, <3>2 DEF Upgraded!Open, Upgraded!Added, Shapes, Rows
      <3> QED BY <3>3 DEF Upgraded!Next
    <2> QED BY <1>4, <2>2, <2>3 DEF SeedDefaults, fileVars
  <1>5. ASSUME NEW t \in Table, NEW r \in Row, Inserted(t, r), phase = "serving", phase' = "serving"
        PROVE  [Upgraded!Next]_(Upgraded!vars)
    <2>1. /\ Shapes(disk') = Shapes(disk)
          /\ \/ Rows(disk') = Rows(disk)
             \/ /\ r \notin Rows(disk)[t] /\ r \in Rows(disk')[t]
                /\ Rows(disk') = [Rows(disk) EXCEPT ![t] = @ \cup {r}]
                /\ Upgraded!Good(Rows(disk'), t, r)
      BY <1>5, InsertedAdds
    <2>2. CASE Rows(disk') = Rows(disk)
      BY <1>1, <1>5, <2>1, <2>2
    <2>3. CASE Rows(disk') # Rows(disk)
      <3>1. Upgraded!Insert(t)
        BY <1>5, <2>1, <2>3 DEF Upgraded!Insert, Upgraded!Added, Shapes, Rows
      <3> QED BY <3>1 DEF Upgraded!Next
    <2> QED BY <2>2, <2>3
  <1>6. ASSUME NEW d \in Device, AddDevice(d) PROVE [Upgraded!Next]_(Upgraded!vars)
    BY <1>0, <1>5, <1>6, NewDeviceRow DEF AddDevice
  <1>7. ASSUME NEW t \in Recorded, NEW d \in Device \cup {NoDevice}, NEW ts \in Instant,
               Record(t, d, ts)
        PROVE  [Upgraded!Next]_(Upgraded!vars)
    <2> DEFINE v == CHOOSE x \in Checked(t) : TRUE
               r == [id |-> NextId(t), dev |-> d, ts |-> ts, val |-> v]
    <2>1. t \in Table /\ v \in Value
      BY Tables, Values, SchemaAssumption
    <2>2. NextId(t) \in Nat
      <3>1. IsFiniteSet(view[t].rows)
        BY <1>0, <1>7, <2>1 DEF Record, Progress, SchemaTypeOK, WellFormed
      <3> QED BY <3>1, FS_CardinalityType DEF NextId
    <2>3. r \in Row
      BY <2>1, <2>2 DEF Row
    <2>4. Inserted(t, r) /\ phase = "serving" /\ phase' = "serving"
      BY <1>7 DEF Record
    <2> QED BY <1>5, <2>1, <2>3, <2>4
  <1>8. CASE Crash
    <2>1. disk' = disk /\ phase' = "down"
      BY <1>8 DEF Crash
    <2>2. CASE phase = "serving"
      BY <2>1, <2>2 DEF Upgraded!Next, Upgraded!Close
    <2> QED BY <1>1, <2>1, <2>2
  <1>9. CASE Copy \/ Drop \/ Rename
    <2>1. inTx
      BY <1>0, <1>9 DEF Copy, Drop, Rename, Progress
    <2>2. disk' = disk /\ phase # "serving" /\ phase' # "serving"
      BY <1>9, <2>1 DEF Copy, Drop, Rename, Execute
    <2> QED BY <1>1, <2>2
  <1>10. CASE \/ Start \/ TablesCreated \/ ShapeCurrent \/ ForeignKeysOff \/ Begin
              \/ RestoreForeignKeys \/ ShapesChecked \/ IndexesCreated
              \/ StatementFails \/ UNCHANGED schemaVars
    <2>1. disk' = disk /\ ((phase' = "serving") <=> (phase = "serving"))
      BY <1>10 DEF Start, TablesCreated, ShapeCurrent, ForeignKeysOff, Begin,
         RestoreForeignKeys, ShapesChecked, IndexesCreated, Advance, StatementFails,
         schemaVars, fileVars
    <2> QED BY <1>1, <2>1
  <1> QED BY <1>2, <1>3, <1>4, <1>6, <1>7, <1>8, <1>9, <1>10, CommitUpgrades
          DEF SchemaNext, StartUp

(* What a start does in many statements, and over as many crashes as it takes, is on *)
(* disk an upgrade of one whole table after another.                                 *)
THEOREM StartsImplementUpgrade == SchemaSafety => ImplementsUpgrade
  <1>1. SchemaInit => Upgraded!Init
    <2> SUFFICES ASSUME SchemaInit PROVE Upgraded!Init
      OBVIOUS
    <2>1. disk \in File /\ WellFormed(disk) /\ phase = "down" /\ Table \subseteq Name
      BY SchemaAssumption DEF SchemaInit, Name
    <2>2. Shapes(disk) \in [Table -> {"absent", "old", "current"}]
      BY <2>1 DEF Shapes, File, Content
    <2>3. \A t \in Table : disk[t].shape = "absent" => disk[t].rows = {}
      BY <2>1 DEF WellFormed, Absent
    <2>4. \A t \in Table : disk[t].shape = "current" =>
              \A r \in disk[t].rows : Upgraded!Good(Rows(disk), t, r)
      BY <2>1, GoodRow
    <2> QED BY <2>1, <2>2, <2>3, <2>4 DEF Upgraded!Init, Shapes, Rows
  <1> QED BY <1>1, MigrationStep, MigrationCorrect, StepIsUpgradeStep, PTL
          DEF SchemaSafety, ImplementsUpgrade, Upgraded!Spec

-----------------------------------------------------------------------------------
(* Why every start ends.  Ahead bounds the statements a start has still to execute:  *)
(* the tables to create, eight steps for each table to look at, the indexes to add;  *)
(* one whose statement failed goes on to the end of the process and another start.   *)

TableCount == Cardinality(Table)
Steps == [shape |-> 10, begin |-> 9, copy |-> 8, drop |-> 7, rename |-> 6, commit |-> 5,
          restore |-> 4]
AheadAt(p, missing, left, unindexed, error) ==
    CASE p = "restore" /\ error -> 41 + 2 * TableCount
      [] p = "down" -> 40 + 2 * TableCount
      [] p = "create" -> 35 + TableCount + missing
      [] p \in DOMAIN Steps /\ ~error -> Steps[p] + 8 * left + TableCount
      [] p = "index" -> 2 + unindexed
      [] p = "seed" -> 1
      [] OTHER -> 0
Ahead == AheadAt(phase, Cardinality(Missing(view)), Len(toCheck),
                 Cardinality(Unindexed(view)), failed)

(* Every step of a start brings it nearer to its end, or is a crash or a failed       *)
(* statement; and once the handlers are served only a crash changes that.            *)
StartAdvances ==
    [][faults' > faults \/ IF phase = "serving" THEN phase' = "serving" ELSE Ahead' < Ahead]_schemaVars

(* A start never waits for anything: the guards of its statements leave out no case  *)
(* but that of a copied row that the new table does not allow, and there is none.    *)
CopyFits ==
    phase = "copy" =>
        /\ view["new"] = Absent
        /\ \A r \in view[Head(toCheck)].rows :
            Converted(Head(toCheck), r).val \in Checked(Head(toCheck))

FewToCheck == Len(toCheck) <= 3

LEMMA AheadOf ==
    ASSUME NEW p, NEW m, NEW l, NEW u, NEW e, e => p = "restore"
    PROVE  /\ p = "down" => AheadAt(p, m, l, u, e) = 40 + 2 * TableCount
           /\ p = "create" => AheadAt(p, m, l, u, e) = 35 + TableCount + m
           /\ p = "shape" => AheadAt(p, m, l, u, e) = 10 + 8 * l + TableCount
           /\ p = "begin" => AheadAt(p, m, l, u, e) = 9 + 8 * l + TableCount
           /\ p = "copy" => AheadAt(p, m, l, u, e) = 8 + 8 * l + TableCount
           /\ p = "drop" => AheadAt(p, m, l, u, e) = 7 + 8 * l + TableCount
           /\ p = "rename" => AheadAt(p, m, l, u, e) = 6 + 8 * l + TableCount
           /\ p = "commit" => AheadAt(p, m, l, u, e) = 5 + 8 * l + TableCount
           /\ p = "restore" /\ ~e => AheadAt(p, m, l, u, e) = 4 + 8 * l + TableCount
           /\ p = "restore" /\ e => AheadAt(p, m, l, u, e) = 41 + 2 * TableCount
           /\ p = "index" => AheadAt(p, m, l, u, e) = 2 + u
           /\ p = "seed" => AheadAt(p, m, l, u, e) = 1
           /\ p = "serving" => AheadAt(p, m, l, u, e) = 0
  <1>1. DOMAIN Steps = {"shape", "begin", "copy", "drop", "rename", "commit", "restore"}
    BY DEF Steps
  <1>2. /\ Steps["shape"] = 10 /\ Steps["begin"] = 9 /\ Steps["copy"] = 8 /\ Steps["drop"] = 7
        /\ Steps["rename"] = 6 /\ Steps["commit"] = 5 /\ Steps["restore"] = 4
    BY DEF Steps
  <1> QED BY <1>1, <1>2 DEF AheadAt

LEMMA TablesCounted ==
    /\ TableCount \in Nat
    /\ \A S \in SUBSET Table : Cardinality(S) \in Nat /\ Cardinality(S) <= TableCount
    /\ \A S \in SUBSET Table : \A t \in S : Cardinality(S \ {t}) = Cardinality(S) - 1
  <1>1. IsFiniteSet(Table)
    <2> DEFINE f == [i \in 1 .. 9 |-> TableOrder[i]]
    <2>1. IsFiniteSet(1 .. 9)
      <3>1. 1 \in Int /\ 9 \in Int
        OBVIOUS
      <3> QED BY <3>1, FS_Interval
    <2>2. Table = {TableOrder[i] : i \in 1 .. 9}
      BY DEF Table, TableOrder
    <2>3. f \in Surjection(1 .. 9, Table)
      BY <2>2 DEF Surjection
    <2> QED BY <2>1, <2>3, FS_Surjection
  <1>2. ASSUME NEW S \in SUBSET Table
        PROVE  IsFiniteSet(S) /\ Cardinality(S) <= TableCount
    BY <1>1, FS_Subset DEF TableCount
  <1>3. ASSUME NEW S \in SUBSET Table, NEW t \in S PROVE Cardinality(S \ {t}) = Cardinality(S) - 1
    BY <1>2, FS_RemoveElement
  <1> QED BY <1>1, <1>2, <1>3, FS_CardinalityType DEF TableCount

LEMMA FewStep ==
    ASSUME MigrationInv, FewToCheck, [SchemaNext]_schemaVars PROVE FewToCheck'
  <1>1. toCheck' \in {toCheck, ReshapeOrder, <<>>} \/ (toCheck # <<>> /\ toCheck' = Tail(toCheck))
    BY DEF MigrationInv, Progress, SchemaNext, StartUp, Start, CreateTable, TablesCreated,
       ShapeCurrent, ForeignKeysOff, Begin, Copy, Drop, Rename, Commit, RestoreForeignKeys,
       ShapesChecked, CreateIndex, IndexesCreated, SeedDefaults, StatementFails, Crash,
       AddDevice, Record, Advance, schemaVars
  <1>2. toCheck \in Seq(Reshaped)
    BY DEF MigrationInv, SchemaTypeOK
  <1>3. Len(ReshapeOrder) = 3 /\ Len(<<>>) = 0
    BY DEF ReshapeOrder
  <1>4. CASE toCheck # <<>> /\ toCheck' = Tail(toCheck)
    <2>1. Len(Tail(toCheck)) = Len(toCheck) - 1 /\ Len(toCheck) \in Nat
      BY <1>2, <1>4
    <2> QED BY <1>4, <2>1 DEF FewToCheck
  <1>5. CASE toCheck' \in {toCheck, ReshapeOrder, <<>>}
    <2>1. CASE toCheck' = toCheck
      BY <2>1 DEF FewToCheck
    <2>2. CASE toCheck' = ReshapeOrder
      <3>1. Len(toCheck') = 3
        BY <1>3, <2>2, Zenon
      <3> QED BY <3>1 DEF FewToCheck
    <2>3. CASE toCheck' = <<>>
      <3>1. Len(toCheck') = 0
        BY <1>3, <2>3, Zenon
      <3> QED BY <3>1 DEF FewToCheck
    <2> QED BY <1>5, <2>1, <2>2, <2>3
  <1> QED BY <1>1, <1>4, <1>5

(* The transitions of onModuleInit, as numbers.                                      *)
Moves(p, m, l, u, e, q, m1, l1, u1, e1) ==
    \/ p = "down" /\ q = "create"
    \/ p = "create" /\ q = "create" /\ m1 = m - 1
    \/ p = "create" /\ q = "shape"
    \/ p = "shape" /\ q = "shape" /\ l1 = l - 1
    \/ p = "shape" /\ q = "begin" /\ l1 = l
    \/ p = "begin" /\ q = "copy" /\ l1 = l
    \/ p = "copy" /\ q = "drop" /\ l1 = l
    \/ p = "drop" /\ q = "rename" /\ l1 = l
    \/ p = "rename" /\ q = "commit" /\ l1 = l
    \/ p = "commit" /\ q = "restore" /\ l1 = l /\ ~e1
    \/ p = "restore" /\ e /\ q = "down"
    \/ p = "restore" /\ ~e /\ q = "shape" /\ l1 = l - 1
    \/ p = "shape" /\ q = "index"
    \/ p = "index" /\ q = "index" /\ u1 = u - 1
    \/ p = "index" /\ q = "seed"
    \/ p = "seed" /\ q = "serving"

LEMMA AheadDrops ==
    ASSUME NEW p, NEW m \in Nat, NEW l \in Nat, NEW u \in Nat, NEW e \in BOOLEAN,
           NEW q, NEW m1 \in Nat, NEW l1 \in Nat, NEW u1 \in Nat, NEW e1 \in BOOLEAN,
           e => p = "restore", e1 => q = "restore",
           l1 <= 3, m1 <= TableCount, u1 <= TableCount,
           Moves(p, m, l, u, e, q, m1, l1, u1, e1)
    PROVE  AheadAt(q, m1, l1, u1, e1) < AheadAt(p, m, l, u, e)
  <1> DEFINE a == AheadAt(p, m, l, u, e)
             b == AheadAt(q, m1, l1, u1, e1)
             T == TableCount
  <1>0. T \in Nat
    BY TablesCounted
  <1>1. /\ p = "down" => a = 40 + 2 * T
        /\ p = "create" => a = 35 + T + m
        /\ p = "shape" => a = 10 + 8 * l + T
        /\ p = "begin" => a = 9 + 8 * l + T
        /\ p = "copy" => a = 8 + 8 * l + T
        /\ p = "drop" => a = 7 + 8 * l + T
        /\ p = "rename" => a = 6 + 8 * l + T
        /\ p = "commit" => a = 5 + 8 * l + T
        /\ p = "restore" /\ ~e => a = 4 + 8 * l + T
        /\ p = "restore" /\ e => a = 41 + 2 * T
        /\ p = "index" => a = 2 + u
        /\ p = "seed" => a = 1
        /\ p = "serving" => a = 0
    BY AheadOf
  <1>2. /\ q = "down" => b = 40 + 2 * T
        /\ q = "create" => b = 35 + T + m1
        /\ q = "shape" => b = 10 + 8 * l1 + T
        /\ q = "begin" => b = 9 + 8 * l1 + T
        /\ q = "copy" => b = 8 + 8 * l1 + T
        /\ q = "drop" => b = 7 + 8 * l1 + T
        /\ q = "rename" => b = 6 + 8 * l1 + T
        /\ q = "commit" => b = 5 + 8 * l1 + T
        /\ q = "restore" /\ ~e1 => b = 4 + 8 * l1 + T
        /\ q = "restore" /\ e1 => b = 41 + 2 * T
        /\ q = "index" => b = 2 + u1
        /\ q = "seed" => b = 1
        /\ q = "serving" => b = 0
    BY AheadOf
  <1> HIDE DEF a, b, T
  <1>3. m1 <= T /\ u1 <= T
    BY DEF T
  <1>4. b < a
    BY <1>0, <1>1, <1>2, <1>3 DEF Moves
  <1> QED BY <1>4 DEF a, b

LEMMA AdvanceStep ==
    ASSUME MigrationInv, MigrationInv', FewToCheck, FewToCheck', SchemaNext
    PROVE  faults' > faults \/ IF phase = "serving" THEN phase' = "serving" ELSE Ahead' < Ahead
  <1>1. PICK m \in Nat, l \in Nat, u \in Nat :
            /\ m = Cardinality(Missing(view)) /\ u = Cardinality(Unindexed(view))
            /\ l = Len(toCheck)
    <2>1. Cardinality(Missing(view)) \in Nat /\ Cardinality(Unindexed(view)) \in Nat
      BY TablesCounted DEF Missing, Unindexed
    <2>2. Len(toCheck) \in Nat
      BY DEF MigrationInv, SchemaTypeOK
    <2> QED BY <2>1, <2>2
  <1>2. PICK m1 \in Nat, l1 \in Nat, u1 \in Nat :
            /\ m1 = Cardinality(Missing(view')) /\ u1 = Cardinality(Unindexed(view'))
            /\ l1 = Len(toCheck') /\ m1 <= TableCount /\ u1 <= TableCount /\ l1 <= 3
    <2>1. /\ Cardinality(Missing(view')) \in Nat /\ Cardinality(Unindexed(view')) \in Nat
          /\ Cardinality(Missing(view')) <= TableCount /\ Cardinality(Unindexed(view')) <= TableCount
      BY TablesCounted DEF Missing, Unindexed
    <2>2. Len(toCheck') \in Nat /\ Len(toCheck') <= 3
      BY DEF MigrationInv, SchemaTypeOK, FewToCheck
    <2> QED BY <2>1, <2>2
  <1>3. Ahead = AheadAt(phase, m, l, u, failed) /\ Ahead' = AheadAt(phase', m1, l1, u1, failed')
    BY <1>1, <1>2 DEF Ahead
  <1>4. /\ failed \in BOOLEAN /\ failed' \in BOOLEAN
        /\ failed => phase = "restore"
        /\ failed' => phase' = "restore"
    BY DEF MigrationInv, SchemaTypeOK, Progress
  <1> DEFINE Move == Moves(phase, m, l, u, failed, phase', m1, l1, u1, failed')
  <1>5. ASSUME Move, phase # "serving"
        PROVE  IF phase = "serving" THEN phase' = "serving" ELSE Ahead' < Ahead
    <2>1. Moves(phase, m, l, u, failed, phase', m1, l1, u1, failed')
      BY <1>5
    <2>2. AheadAt(phase', m1, l1, u1, failed') < AheadAt(phase, m, l, u, failed)
      <3> HIDE DEF Move
      <3>1. m1 <= TableCount /\ u1 <= TableCount /\ l1 <= 3
        BY <1>2
      <3> QED BY <1>4, <2>1, <3>1, AheadDrops
    <2> QED BY <1>3, <1>5, <2>2
  <1>6. toCheck \in Seq(Reshaped) /\ disk \in File /\ (~inTx => view = disk)
    BY DEF MigrationInv, SchemaTypeOK
  <1>7. CASE CreateTable
    <2> DEFINE t == First(Missing(view))
    <2>1. phase = "create" /\ phase' = "create" /\ Missing(view) \in SUBSET Table /\ view = disk
      BY <1>6, <1>7 DEF CreateTable, Missing, MigrationInv, Progress
    <2>2. t \in Missing(view)
      BY <1>7, <2>1, FirstIn DEF CreateTable
    <2>3. view' = [view EXCEPT ![t] = Created]
      BY <1>7 DEF CreateTable, Execute
    <2> HIDE DEF t
    <2>4. Missing(view') = Missing(view) \ {t}
      <3>1. view \in File /\ t \in Name /\ \A n \in Table : n \in Name
        BY <1>6, <2>1, <2>2 DEF Name
      <3>2. view'[t].shape = "current" /\ \A n \in Table \ {t} : view'[n] = view[n]
        BY <2>3, <3>1 DEF File, Created
      <3> QED BY <2>2, <3>2 DEF Missing
    <2>5. m1 = m - 1
      BY <1>1, <1>2, <2>1, <2>2, <2>4, TablesCounted
    <2>9. Move
      BY <2>1, <2>5 DEF Moves
    <2> QED BY <2>1, <2>5, <2>9, <1>5
  <1>8. CASE CreateIndex
    <2> DEFINE t == First(Unindexed(view))
    <2>1. phase = "index" /\ phase' = "index" /\ Unindexed(view) \in SUBSET Table /\ view = disk
      BY <1>6, <1>8 DEF CreateIndex, Unindexed, MigrationInv, Progress
    <2>2. t \in Unindexed(view)
      BY <1>8, <2>1, FirstIn DEF CreateIndex
    <2>3. view' = [view EXCEPT ![t].indexed = TRUE]
      BY <1>8 DEF CreateIndex, Execute
    <2> HIDE DEF t
    <2>4. Unindexed(view') = Unindexed(view) \ {t}
      <3>1. view \in File /\ t \in Name /\ \A n \in Table : n \in Name
        BY <1>6, <2>1, <2>2 DEF Name, Unindexed
      <3>2. view'[t].indexed = TRUE /\ \A n \in Table \ {t} : view'[n] = view[n]
        BY <2>3, <3>1 DEF File, Content
      <3> QED BY <2>2, <3>2 DEF Unindexed
    <2>5. u1 = u - 1
      BY <1>1, <1>2, <2>1, <2>2, <2>4, TablesCounted
    <2>9. Move
      BY <2>1, <2>5 DEF Moves
    <2> QED BY <2>1, <2>5, <2>9, <1>5
  <1>9. CASE ShapeCurrent
    <2>1. phase = "shape" /\ phase' = "shape" /\ l1 = l - 1
      BY <1>1, <1>2, <1>6, <1>9 DEF ShapeCurrent
    <2>9. Move
      BY <2>1 DEF Moves
    <2> QED BY <2>1, <2>9, <1>5
  <1>10. CASE RestoreForeignKeys
    <2>1. phase = "restore" /\ toCheck # <<>> /\ failed \in BOOLEAN
      BY <1>10 DEF RestoreForeignKeys, MigrationInv, Progress, SchemaTypeOK
    <2>2. \/ failed /\ phase' = "down"
          \/ ~failed /\ phase' = "shape" /\ toCheck' = Tail(toCheck)
      BY <1>10, <2>1 DEF RestoreForeignKeys
    <2>3. toCheck' = Tail(toCheck) => l1 = l - 1
      BY <1>1, <1>2, <1>6, <2>1
    <2>4. phase # "serving"
      BY <2>1
    <2>9. Move
      BY <2>1, <2>2, <2>3, <2>4 DEF Moves
    <2> QED BY <2>1, <2>2, <2>3, <2>4, <2>9, <1>5
  <1>11. CASE ForeignKeysOff \/ Begin \/ Copy \/ Drop \/ Rename \/ Commit
    <2>1. l1 = l /\ failed' = failed
      BY <1>1, <1>2, <1>11 DEF ForeignKeysOff, Begin, Copy, Drop, Rename, Commit
    <2>2. \/ phase = "shape" /\ phase' = "begin"
          \/ phase = "begin" /\ phase' = "copy"
          \/ phase = "copy" /\ phase' = "drop"
          \/ phase = "drop" /\ phase' = "rename"
          \/ phase = "rename" /\ phase' = "commit"
          \/ phase = "commit" /\ phase' = "restore"
      BY <1>11 DEF ForeignKeysOff, Begin, Copy, Drop, Rename, Commit
    <2>3. ~failed' /\ phase # "serving"
      <3>1. phase # "restore" /\ phase # "serving"
        BY <2>2
      <3>2. ~failed
        BY <1>4, <3>1
      <3> QED BY <2>1, <3>1, <3>2, Zenon
    <2>9. Move
      BY <2>1, <2>2, <2>3 DEF Moves
    <2> QED BY <2>1, <2>2, <2>3, <2>9, <1>5
  <1>12. CASE Start \/ TablesCreated \/ ShapesChecked \/ IndexesCreated \/ SeedDefaults
    <2>1. \/ phase = "down" /\ phase' = "create"
          \/ phase = "create" /\ phase' = "shape"
          \/ phase = "shape" /\ phase' = "index"
          \/ phase = "index" /\ phase' = "seed"
          \/ phase = "seed" /\ phase' = "serving"
      BY <1>12 DEF Start, TablesCreated, ShapesChecked, IndexesCreated, SeedDefaults, Advance
    <2>2. phase # "serving"
      BY <2>1
    <2>9. Move
      BY <2>1, <2>2 DEF Moves
    <2> QED BY <2>1, <2>2, <2>9, <1>5
  <1>13. CASE StatementFails \/ Crash
    <2>1. faults \in Nat /\ faults' = faults + 1
      BY <1>13 DEF StatementFails, Crash, MigrationInv, SchemaTypeOK
    <2> QED BY <2>1
  <1>14. CASE \/ \E d \in Device : AddDevice(d)
              \/ \E t \in Recorded, d \in Device \cup {NoDevice}, ts \in Instant : Record(t, d, ts)
    BY <1>14 DEF AddDevice, Record
  <1> QED BY <1>7, <1>8, <1>9, <1>10, <1>11, <1>12, <1>13, <1>14 DEF SchemaNext, StartUp

(* A start comes to its end in a bounded number of statements, with every fault      *)
(* beginning the count again (onModuleInit and rebuildTable of sqlite.service.ts).   *)
THEOREM StartsAdvance == SchemaSafety => StartAdvances
  <1>1. SchemaInit => FewToCheck
    BY DEF SchemaInit, FewToCheck
  <1>2. MigrationInv /\ MigrationInv' /\ FewToCheck /\ FewToCheck' /\ [SchemaNext]_schemaVars =>
          [faults' > faults \/ IF phase = "serving" THEN phase' = "serving"
                               ELSE Ahead' < Ahead]_schemaVars
    BY AdvanceStep
  <1> QED BY <1>1, <1>2, FewStep, MigrationCorrect, PTL DEF SchemaSafety, StartAdvances

(* INSERT ... SELECT of a rebuild breaks no constraint of the new table, whatever    *)
(* file it is given: no start fails on it for ever (sqlite.service.ts:325-462).      *)
THEOREM CopiesFit == SchemaSafety => []CopyFits
  <1>1. MigrationInv => CopyFits
    <2> SUFFICES ASSUME MigrationInv, phase = "copy" PROVE CopyFits
      BY DEF CopyFits
    <2>1. view = disk /\ WellFormed(disk) /\ disk \in File
      BY DEF MigrationInv, Rebuilding, SchemaTypeOK
    <2>2. toCheck \in Seq(Reshaped) /\ toCheck # <<>>
      BY DEF MigrationInv, SchemaTypeOK, Progress, InRebuild
    <2>3. PICK t \in Reshaped : t = Head(toCheck)
      BY <2>2
    <2>4. t \in Table /\ t \in Name
      BY <2>3, Tables DEF Name
    <2>5. ASSUME NEW r \in disk[t].rows PROVE Converted(t, r).val \in Checked(t)
      <3>1. r \in Row
        BY <2>1, <2>4 DEF File, Content
      <3>2. CASE t = "devices"
        BY <3>1, <3>2 DEF Converted, Checked, IdentityStatus, Row
      <3>3. CASE t = "enforcement_logs"
        BY <3>1, <3>3 DEF Converted, Checked, PolicyCode, Row
      <3>4. CASE t = "enrollment_logs"
        <4>1. r.val \in EnrollmentAction
          BY <2>1, <2>4, <3>4 DEF WellFormed
        <4> QED BY <3>4, <4>1 DEF Converted, Checked
      <3> QED BY <2>3, <3>2, <3>3, <3>4 DEF Reshaped
    <2> QED BY <2>1, <2>3, <2>5 DEF WellFormed, CopyFits
  <1> QED BY <1>1, MigrationCorrect, PTL

=====================================================================================
