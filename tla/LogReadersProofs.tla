------------------------------ MODULE LogReadersProofs -------------------------------
(* Theorems of LogReaders, for logs, pages and devices of any number, and any number *)
(* of restarts between two pages.                                                    *)
EXTENDS LogReaders, SchemaMigrationProofs, WellFoundedInduction

-----------------------------------------------------------------------------------
(* Rows in the order of ORDER BY ts DESC, id DESC.                                   *)

Ranked(S) == IsFiniteSet(S) /\ \A r \in S : r.ts \in Nat /\ r.id \in Nat
Above(S, r) == {q \in S : Older(r, q)}
Rank(S, r) == Cardinality(Above(S, r))

LEMMA RankIsNat ==
    ASSUME NEW S, Ranked(S), NEW r
    PROVE  Rank(S, r) \in Nat /\ IsFiniteSet(Above(S, r))
  <1>1. IsFiniteSet(Above(S, r))
    BY FS_Subset DEF Ranked, Above
  <1> QED BY <1>1, FS_CardinalityType DEF Rank

LEMMA RankFalls ==
    ASSUME NEW S, Ranked(S), NEW r \in S, NEW q \in S, Older(r, q)
    PROVE  Rank(S, q) < Rank(S, r)
  <1>1. Above(S, q) \subseteq Above(S, r)
    BY DEF Above, Older, Ranked
  <1>2. q \in Above(S, r) /\ q \notin Above(S, q)
    BY DEF Above, Older, Ranked
  <1>3. /\ Rank(S, q) <= Rank(S, r)
        /\ Rank(S, r) = Rank(S, q) => Above(S, r) = Above(S, q)
    BY <1>1, RankIsNat, FS_Subset DEF Rank
  <1> QED BY <1>2, <1>3, RankIsNat

(* Of any rows some are above all others of them that are ranked lower.              *)
LEMMA LeastRank ==
    ASSUME NEW S, Ranked(S), NEW T \in SUBSET S, T # {}
    PROVE  \E r \in T : \A q \in T : ~(Rank(S, q) < Rank(S, r))
  <1> DEFINE Ranks == {Rank(S, r) : r \in T}
  <1>1. Ranks \subseteq Nat /\ Ranks # {}
    BY RankIsNat
  <1>2. PICK k \in Ranks : \A i \in Ranks : ~(<<i, k>> \in OpToRel(<, Nat))
    BY <1>1, NatLessThanWellFounded, WFMin
  <1>3. \A i \in Ranks : ~(i < k)
    BY <1>1, <1>2 DEF OpToRel
  <1> QED BY <1>3

(* A page that is not full leaves nothing out.                                       *)
LEMMA LastPage ==
    ASSUME NEW S, Ranked(S), NEW n \in Nat, Cardinality(Newest(S, n)) < n
    PROVE  Newest(S, n) = S
  <1> DEFINE T == S \ Newest(S, n)
  <1>1. Newest(S, n) = {r \in S : Rank(S, r) < n}
    BY DEF Newest, Rank, Above
  <1>2. IsFiniteSet(Newest(S, n)) /\ Cardinality(Newest(S, n)) \in Nat
    BY <1>1, FS_Subset, FS_CardinalityType DEF Ranked
  <1>3. CASE T # {}
    <2>1. PICK r \in T : \A q \in T : ~(Rank(S, q) < Rank(S, r))
      BY <1>3, LeastRank
    <2>2. \A q \in Above(S, r) : q \in S /\ Rank(S, q) < Rank(S, r)
      BY <2>1, RankFalls DEF Above
    <2>3. Above(S, r) \subseteq Newest(S, n)
      BY <2>1, <2>2
    <2>4. Rank(S, r) <= Cardinality(Newest(S, n))
      BY <1>2, <2>3, FS_Subset DEF Rank
    <2>5. ~(Rank(S, r) < n)
      BY <1>1, <2>1
    <2> QED BY <1>2, <2>4, <2>5, RankIsNat
  <1>4. CASE T = {}
    BY <1>1, <1>4
  <1> QED BY <1>3, <1>4

(* What a page leaves out is not newer than anything on it.                          *)
LEMMA PageEnds ==
    ASSUME NEW S, Ranked(S), NEW n \in Nat, NEW r \in S, r \notin Newest(S, n),
           NEW q \in Newest(S, n)
    PROVE  r.ts <= q.ts
  <1>1. ~(Rank(S, r) < n) /\ Rank(S, q) < n /\ q \in S
    BY DEF Newest, Rank, Above
  <1>2. ~Older(q, r)
    BY <1>1, RankFalls, RankIsNat
  <1> QED BY <1>1, <1>2 DEF Older, Ranked

LEMMA OldestOfPage ==
    ASSUME NEW P, P # {}, \A r \in P : r.ts \in Nat
    PROVE  OldestIn(P) \in {r.ts : r \in P} /\ \A r \in P : OldestIn(P) <= r.ts
  <1> DEFINE I == {r.ts : r \in P}
  <1>1. I \subseteq Nat /\ I # {}
    OBVIOUS
  <1>2. PICK k \in I : \A i \in I : ~(<<i, k>> \in OpToRel(<, Nat))
    BY <1>1, NatLessThanWellFounded, WFMin
  <1>3. \A i \in I : ~(i < k)
    BY <1>1, <1>2 DEF OpToRel
  <1>4. \A r \in P : k <= r.ts
    BY <1>1, <1>3
  <1> QED BY <1>2, <1>4 DEF OldestIn

LEMMA NewestExists ==
    ASSUME NEW P, IsFiniteSet(P), P # {}, \A r \in P : r.ts \in Nat
    PROVE  \E k \in {r.ts : r \in P} : \A r \in P : r.ts <= k
  <1> DEFINE Later(r) == {q \in P : r.ts < q.ts}
             Counts == {Cardinality(Later(r)) : r \in P}
  <1>1. \A r \in P : IsFiniteSet(Later(r)) /\ Cardinality(Later(r)) \in Nat
    BY FS_Subset, FS_CardinalityType
  <1>2. Counts \subseteq Nat /\ Counts # {}
    BY <1>1
  <1>3. PICK c \in Counts : \A i \in Counts : ~(<<i, c>> \in OpToRel(<, Nat))
    BY <1>2, NatLessThanWellFounded, WFMin
  <1>4. \A i \in Counts : ~(i < c)
    BY <1>2, <1>3 DEF OpToRel
  <1>5. PICK r \in P : c = Cardinality(Later(r))
    OBVIOUS
  <1>6. ASSUME NEW q \in P, r.ts < q.ts PROVE FALSE
    <2>1. Later(q) \subseteq Later(r) /\ q \in Later(r) /\ q \notin Later(q)
      BY <1>6
    <2>2. /\ Cardinality(Later(q)) <= Cardinality(Later(r))
          /\ Cardinality(Later(r)) = Cardinality(Later(q)) => Later(r) = Later(q)
      BY <1>1, <2>1, FS_Subset
    <2>3. Later(r) # Later(q)
      BY <2>1
    <2>4. Cardinality(Later(q)) \in Nat /\ Cardinality(Later(r)) \in Nat
      BY <1>1
    <2>5. ~(Cardinality(Later(q)) < Cardinality(Later(r)))
      BY <1>4, <1>5
    <2> HIDE DEF Later
    <2> QED BY <2>2, <2>3, <2>4, <2>5
  <1>7. \A q \in P : q.ts <= r.ts
    BY <1>6
  <1> QED BY <1>7

-----------------------------------------------------------------------------------
(* Pages.                                                                            *)

LEMMA SafeLimits == \A n \in Int : SafeLimit(n) \in Nat /\ 1 <= SafeLimit(n) /\ SafeLimit(n) <= MaxPage
  BY ReaderAssumption DEF SafeLimit

LEMMA LogRows ==
    ASSUME MigrationInv, phase = "serving", NEW t \in LogTable, NEW d
    PROVE  /\ view = disk /\ Of(t, d) \subseteq disk[t].rows
           /\ Of(t, d) \subseteq Row /\ Ranked(Of(t, d))
           /\ \A n \in Table : disk[n].shape = "current"
  <1>1. view = disk /\ disk \in File /\ WellFormed(disk) /\ \A n \in Table : disk[n].shape = "current"
    BY DEF MigrationInv, SchemaTypeOK, Progress
  <1>2. t \in Table /\ t \in Name
    BY Tables DEF Name
  <1>3. /\ disk[t].rows \subseteq Row /\ IsFiniteSet(disk[t].rows)
        /\ \A r \in disk[t].rows : r.ts \in Nat /\ r.id \in Nat
    <2>1. disk[t].rows \subseteq Row
      BY <1>1, <1>2 DEF File, Content
    <2>2. IsFiniteSet(disk[t].rows) /\ \A r \in disk[t].rows : r.id \in Nat
      BY <1>1, <1>2 DEF WellFormed
    <2>3. \A r \in disk[t].rows : r.ts \in Instant
      BY <2>1 DEF Row
    <2> QED BY <2>1, <2>2, <2>3, SchemaAssumption
  <1>4. Of(t, d) \subseteq disk[t].rows
    BY <1>1 DEF Of
  <1> QED BY <1>1, <1>3, <1>4, FS_Subset DEF Ranked

(* A page of the rows of a log before an instant, or of all.                         *)
LEMMA PageFacts ==
    ASSUME MigrationInv, phase = "serving", NEW t \in LogTable, NEW d, NEW n \in Int,
           NEW before \in Instant \cup {NoInstant}
    PROVE  LET page == Page(t, d, before, n) IN
           /\ page \subseteq Of(t, d) /\ IsFiniteSet(page)
           /\ before # NoInstant => \A r \in page : r.ts < before
           /\ StateAfter(page, n) \in {"reading", "done"}
           /\ StateAfter(page, n) = "reading" => page # {}
           /\ StateAfter(page, n) = "done" =>
                \A r \in Of(t, d) \ page : before # NoInstant /\ r.ts >= before
           /\ page # {} =>
                /\ OldestIn(page) \in Instant
                /\ \A r \in page : OldestIn(page) <= r.ts
                /\ \A r \in Of(t, d) \ page :
                     r.ts <= OldestIn(page) \/ (before # NoInstant /\ r.ts >= before)
           /\ Cuts(page) \subseteq Instant
  <1> DEFINE S == {r \in Of(t, d) : before # NoInstant => r.ts < before}
             m == SafeLimit(n)
             page == Newest(S, m)
  <1>0. m \in Nat /\ 1 <= m
    BY SafeLimits
  <1>1. Page(t, d, before, n) = page
    BY DEF Page
  <1>2. Ranked(Of(t, d)) /\ \A r \in Of(t, d) : r.ts \in Instant /\ r.ts \in Nat
    <2>1. Ranked(Of(t, d)) /\ Of(t, d) \subseteq Row
      BY LogRows
    <2>2. \A r \in Of(t, d) : r.ts \in Instant
      BY <2>1 DEF Row
    <2> QED BY <2>1, <2>2, SchemaAssumption
  <1>3. Ranked(S)
    BY <1>2, FS_Subset DEF Ranked
  <1>4. page \subseteq S
    BY DEF Newest
  <1>5. IsFiniteSet(page)
    BY <1>3, <1>4, FS_Subset DEF Ranked
  <1>6. Cardinality(page) < m => page = S
    BY <1>0, <1>3, LastPage
  <1>7. \A r \in S \ page, q \in page : r.ts <= q.ts
    BY <1>0, <1>3, PageEnds
  <1>8. \A r \in Of(t, d) \ S : before # NoInstant /\ r.ts >= before
    BY <1>2, SchemaAssumption
  <1>9. page # {} => /\ OldestIn(page) \in {r.ts : r \in page}
                     /\ \A r \in page : OldestIn(page) <= r.ts
    BY <1>2, <1>4, OldestOfPage
  <1>10. ~(Cardinality(page) < m) => page # {}
    BY <1>0, FS_EmptySet
  <1> HIDE DEF page, m
  <1>11. StateAfter(page, n) = IF Cardinality(page) < m THEN "done" ELSE "reading"
    BY DEF StateAfter, m
  <1>12. page # {} =>
          /\ OldestIn(page) \in Instant
          /\ \A r \in page : OldestIn(page) <= r.ts
          /\ \A r \in Of(t, d) \ page :
                r.ts <= OldestIn(page) \/ (before # NoInstant /\ r.ts >= before)
    BY <1>2, <1>4, <1>7, <1>8, <1>9
  <1>13. Cuts(page) \subseteq Instant
    BY <1>12 DEF Cuts
  <1>14. StateAfter(page, n) = "done" =>
          \A r \in Of(t, d) \ page : before # NoInstant /\ r.ts >= before
    BY <1>6, <1>8, <1>11
  <1>15. page \subseteq Of(t, d) /\ (before # NoInstant => \A r \in page : r.ts < before)
    BY <1>4
  <1> QED BY <1>1, <1>5, <1>10, <1>11, <1>12, <1>13, <1>14, <1>15

-----------------------------------------------------------------------------------
(* The file under a reader.                                                          *)

AllCurrent == \A t \in Table : disk[t].shape = "current"

(* Once every table is current no start rebuilds one again: rows are only added.     *)
LEMMA CurrentStays ==
    ASSUME MigrationInv, AllCurrent, [SchemaNext]_schemaVars
    PROVE  AllCurrent' /\ \A t \in Table : disk[t].rows \subseteq disk'[t].rows
  <1>0. /\ SchemaTypeOK /\ Progress /\ Rebuilding /\ disk \in File /\ WellFormed(disk)
        /\ Table \subseteq Name /\ Reshaped \subseteq Table /\ toCheck \in Seq(Reshaped)
    BY Tables DEF MigrationInv, SchemaTypeOK, Name
  <1>1. phase \notin InRebuild
    <2>1. phase \in InRebuild => Head(toCheck) \in Reshaped
      BY <1>0 DEF Progress
    <2> QED BY <1>0, <2>1 DEF Rebuilding, AllCurrent
  <1>2. ~inTx /\ view = disk
    BY <1>0, <1>1 DEF SchemaTypeOK, Progress, InRebuild
  <1>3. disk' = disk => AllCurrent' /\ \A t \in Table : disk[t].rows \subseteq disk'[t].rows
    BY DEF AllCurrent
  <1>4. ASSUME NEW t \in Table, NEW r, Inserted(t, r)
        PROVE  AllCurrent' /\ \A n \in Table : disk[n].rows \subseteq disk'[n].rows
    <2> DEFINE c == [disk[t] EXCEPT !.rows = disk[t].rows \cup {r}]
    <2>1. disk' = [disk EXCEPT ![t] = c]
      BY <1>2, <1>4 DEF Inserted, Execute, WithRow
    <2>2. c.rows = disk[t].rows \cup {r} /\ c.shape = disk[t].shape
      BY <1>0 DEF File, Content
    <2> HIDE DEF c
    <2>3. disk'[t] = c /\ \A n \in Table \ {t} : disk'[n] = disk[n]
      BY <1>0, <2>1 DEF File
    <2> QED BY <2>2, <2>3 DEF AllCurrent
  <1>5. CASE SeedDefaults
    <2>1. CASE DefaultDevice \in Known(view)
      BY <1>3, <1>5, <2>1 DEF SeedDefaults, fileVars
    <2>2. CASE DefaultDevice \notin Known(view)
      BY <1>4, <1>5, <2>2, Tables DEF SeedDefaults
    <2> QED BY <2>1, <2>2
  <1>6. CASE \E d \in Device : AddDevice(d)
    BY <1>4, <1>6, Tables DEF AddDevice
  <1>7. ASSUME NEW t \in Recorded, NEW d \in Device \cup {NoDevice}, NEW ts \in Instant,
               Record(t, d, ts)
        PROVE  AllCurrent' /\ \A n \in Table : disk[n].rows \subseteq disk'[n].rows
    <2>1. t \in Table
      BY Tables, SchemaAssumption
    <2> QED BY <1>4, <1>7, <2>1 DEF Record
  <1>8. CASE CreateIndex
    <2>1. Unindexed(disk) \in SUBSET Table /\ Unindexed(disk) # {}
      BY <1>2, <1>8 DEF CreateIndex, Unindexed
    <2>2. First(Unindexed(disk)) \in Table
      BY <2>1, FirstIn
    <2>3. PICK t \in Table : disk' = [disk EXCEPT ![t].indexed = TRUE]
      BY <1>2, <1>8, <2>2 DEF CreateIndex, Execute
    <2>4. \A n \in Name : disk'[n].rows = disk[n].rows /\ disk'[n].shape = disk[n].shape
      BY <1>0, <2>3, TableIndexed DEF AllCurrent
    <2> QED BY <1>0, <2>4 DEF AllCurrent
  <1>9. ~CreateTable
    BY <1>2 DEF CreateTable, Missing, AllCurrent
  <1>10. ~(Begin \/ Copy \/ Drop \/ Rename \/ Commit \/ StatementFails)
    BY <1>1 DEF Begin, Copy, Drop, Rename, Commit, StatementFails, InRebuild
  <1>11. CASE \/ Start \/ TablesCreated \/ ShapeCurrent \/ ForeignKeysOff
              \/ RestoreForeignKeys \/ ShapesChecked \/ IndexesCreated
              \/ Crash \/ UNCHANGED schemaVars
    BY <1>3, <1>11 DEF Start, TablesCreated, ShapeCurrent, ForeignKeysOff,
       RestoreForeignKeys, ShapesChecked, IndexesCreated, Advance, Crash, schemaVars, fileVars
  <1> QED BY <1>5, <1>6, <1>7, <1>8, <1>9, <1>10, <1>11 DEF SchemaNext, StartUp

-----------------------------------------------------------------------------------
(* The invariant of a reader.                                                        *)

(* The rows its query ranges over, in the committed file.                            *)
Asked == {r \in disk[reader.table].rows : reader.dev # NoDevice => r.dev = reader.dev}
(* What it has left out so far is older than its cursor or of an instant at which a  *)
(* page ended; what it got is not older than its cursor.                             *)
ReaderInv ==
    /\ reader \in Reader
    /\ reader.state = "idle" => reader.got = {} /\ reader.count = 0
    /\ reader.state # "idle" =>
        /\ AllCurrent
        /\ reader.got \subseteq Asked /\ reader.base \subseteq Asked
        /\ reader.count = Cardinality(reader.got)
    /\ reader.state = "reading" =>
        /\ reader.table \in PagedTable
        /\ reader.cursor \in Instant
        /\ \A r \in reader.got : reader.cursor <= r.ts
        /\ \A r \in reader.base \ reader.got : r.ts \in reader.cuts \/ r.ts < reader.cursor
    /\ OnlyTiesSkipped

LEMMA ReaderInvInit == ReaderInit => ReaderInv
  BY DEF ReaderInit, ReaderInv, Reader, LogTable, OnlyTiesSkipped

LEMMA ReaderRests ==
    ASSUME MigrationInv, ReaderInv, [SchemaNext]_schemaVars, UNCHANGED reader
    PROVE  ReaderInv'
  <1>1. CASE reader.state = "idle"
    BY <1>1 DEF ReaderInv, OnlyTiesSkipped
  <1>2. CASE reader.state # "idle"
    <2>1. AllCurrent' /\ \A t \in Table : disk[t].rows \subseteq disk'[t].rows
      BY <1>2, CurrentStays DEF ReaderInv
    <2>2. reader.table \in Table
      BY Tables DEF ReaderInv, Reader
    <2>3. Asked \subseteq Asked'
      BY <2>1, <2>2 DEF Asked
    <2> QED BY <1>2, <2>1, <2>3 DEF ReaderInv, OnlyTiesSkipped
  <1> QED BY <1>1, <1>2

LEMMA FirstPageStep ==
    ASSUME MigrationInv, NEW t \in PagedTable, NEW d \in Device \cup {NoDevice}, NEW n \in Limit,
           FirstPage(t, d, n)
    PROVE  ReaderInv'
  <1> DEFINE page == Page(t, d, NoInstant, n)
             all == Of(t, d)
  <1>0. phase = "serving" /\ t \in LogTable /\ n \in Int /\ disk' = disk
    BY ReaderAssumption DEF FirstPage, PagedTable, LogTable, schemaVars, fileVars
  <1>1. /\ page \subseteq all /\ IsFiniteSet(page)
        /\ StateAfter(page, n) \in {"reading", "done"}
        /\ StateAfter(page, n) = "reading" => page # {}
        /\ StateAfter(page, n) = "done" => all \ page = {}
        /\ page # {} =>
             /\ OldestIn(page) \in Instant
             /\ \A r \in page : OldestIn(page) <= r.ts
             /\ \A r \in all \ page : r.ts <= OldestIn(page)
        /\ Cuts(page) \subseteq Instant
    BY <1>0, PageFacts
  <1>2. /\ all = {r \in disk[t].rows : d # NoDevice => r.dev = d}
        /\ all \subseteq Row /\ AllCurrent /\ \A r \in all : r.ts \in Nat
    <2>1. all \subseteq Row /\ view = disk /\ AllCurrent /\ Ranked(all)
      BY <1>0, LogRows DEF AllCurrent
    <2> QED BY <2>1 DEF Ranked, Of
  <1>3. Cardinality(page) \in Nat
    BY <1>1, FS_CardinalityType
  <1>4. page # {} => OldestIn(page) \in Cuts(page) /\ OldestIn(page) \in Nat
    BY <1>1, SchemaAssumption DEF Cuts
  <1> HIDE DEF page, all
  <1>5. reader' = [state |-> StateAfter(page, n), table |-> t, dev |-> d, limit |-> n,
                   cursor |-> IF page = {} THEN NoInstant ELSE OldestIn(page),
                   got |-> page, count |-> Cardinality(page), base |-> all,
                   cuts |-> Cuts(page)]
    BY DEF FirstPage, page, all
  <1>6. reader' \in Reader
    BY <1>0, <1>1, <1>2, <1>3, <1>5 DEF Reader
  <1>7. AllCurrent' /\ Asked' = all
    BY <1>0, <1>2, <1>5 DEF AllCurrent, Asked
  <1>8. page # {} => \A r \in all \ page : r.ts \in Cuts(page) \/ r.ts < OldestIn(page)
    BY <1>1, <1>2, <1>4
  <1>9. reader'.state = "done" => reader'.base \ reader'.got = {}
    BY <1>1, <1>5
  <1> QED BY <1>1, <1>5, <1>6, <1>7, <1>8, <1>9 DEF ReaderInv, OnlyTiesSkipped

LEMMA ReadEnforcementStep ==
    ASSUME MigrationInv, NEW d \in Device, ReadEnforcement(d)
    PROVE  ReaderInv'
  <1> DEFINE page == EnforcementOf(d)
             all == Of("enforcement_logs", d)
  <1>0. phase = "serving" /\ "enforcement_logs" \in LogTable /\ disk' = disk
    BY DEF ReadEnforcement, LogTable, schemaVars, fileVars
  <1>1. /\ all = {r \in disk["enforcement_logs"].rows : d # NoDevice => r.dev = d}
        /\ all \subseteq Row /\ AllCurrent /\ Ranked(all)
    <2>1. all \subseteq Row /\ view = disk /\ AllCurrent /\ Ranked(all)
      BY <1>0, LogRows DEF AllCurrent
    <2> QED BY <2>1 DEF Of
  <1>2. page \subseteq all
    BY DEF EnforcementOf, Newest
  <1>3. IsFiniteSet(page) /\ Cardinality(page) \in Nat
    BY <1>1, <1>2, FS_Subset, FS_CardinalityType DEF Ranked
  <1>4. Cuts(page) \subseteq Instant
    <2>1. \A r \in page : r.ts \in Instant /\ r.ts \in Nat
      BY <1>1, <1>2, SchemaAssumption DEF Row, Ranked
    <2>2. page # {} => OldestIn(page) \in {r.ts : r \in page}
      BY <2>1, OldestOfPage
    <2> QED BY <2>1, <2>2 DEF Cuts
  <1> HIDE DEF page, all
  <1>5. reader' = [state |-> "done", table |-> "enforcement_logs", dev |-> d,
                   limit |-> MaxPage, cursor |-> NoInstant, got |-> page,
                   count |-> Cardinality(page), base |-> all, cuts |-> Cuts(page)]
    BY DEF ReadEnforcement, page, all
  <1>6. MaxPage \in Int /\ "enforcement_logs" \notin PagedTable
    BY ReaderAssumption DEF PagedTable
  <1>7. reader' \in Reader
    BY <1>0, <1>1, <1>2, <1>3, <1>4, <1>5, <1>6 DEF Reader
  <1>8. AllCurrent' /\ Asked' = all
    BY <1>0, <1>1, <1>5 DEF AllCurrent, Asked
  <1> QED BY <1>2, <1>5, <1>6, <1>7, <1>8 DEF ReaderInv, OnlyTiesSkipped

LEMMA NextPageStep ==
    ASSUME MigrationInv, ReaderInv, NextPage
    PROVE  ReaderInv'
  <1> DEFINE page == Page(reader.table, reader.dev, reader.cursor, reader.limit)
             all == Of(reader.table, reader.dev)
  <1>0. /\ phase = "serving" /\ reader.state = "reading" /\ disk' = disk
        /\ reader \in Reader /\ reader.table \in LogTable /\ reader.limit \in Int
        /\ reader.cursor \in Instant /\ reader.cursor # NoInstant /\ reader.cursor \in Nat
    BY ReaderAssumption, SchemaAssumption
    DEF NextPage, ReaderInv, Reader, schemaVars, fileVars
  <1>1. /\ page \subseteq all /\ IsFiniteSet(page)
        /\ \A r \in page : r.ts < reader.cursor
        /\ StateAfter(page, reader.limit) \in {"reading", "done"}
        /\ StateAfter(page, reader.limit) = "reading" => page # {}
        /\ StateAfter(page, reader.limit) = "done" =>
             \A r \in all \ page : r.ts >= reader.cursor
        /\ page # {} =>
             /\ OldestIn(page) \in Instant
             /\ \A r \in page : OldestIn(page) <= r.ts
             /\ \A r \in all \ page : r.ts <= OldestIn(page) \/ r.ts >= reader.cursor
        /\ Cuts(page) \subseteq Instant
    BY <1>0, PageFacts
  <1>2. /\ all = Asked /\ all \subseteq Row /\ AllCurrent /\ Ranked(all)
        /\ \A r \in all : r.ts \in Nat
    <2>1. all \subseteq Row /\ view = disk /\ AllCurrent /\ Ranked(all)
      BY <1>0, LogRows DEF AllCurrent
    <2> QED BY <2>1 DEF Of, Asked, Ranked
  <1>3. /\ reader.got \subseteq all /\ reader.base \subseteq all
        /\ reader.count = Cardinality(reader.got)
        /\ \A r \in reader.got : reader.cursor <= r.ts
        /\ \A r \in reader.base \ reader.got : r.ts \in reader.cuts \/ r.ts < reader.cursor
    BY <1>0, <1>2 DEF ReaderInv
  <1>4. page # {} => OldestIn(page) \in Cuts(page) /\ OldestIn(page) \in Nat
    BY <1>1, SchemaAssumption DEF Cuts
  <1> HIDE DEF page, all
  <1>5. reader.got \cap page = {}
    BY <1>0, <1>1, <1>2, <1>3
  <1>6. /\ Cardinality(reader.got \cup page) = reader.count + Cardinality(page)
        /\ reader.count + Cardinality(page) \in Nat
    <2>1. IsFiniteSet(reader.got)
      BY <1>2, <1>3, FS_Subset DEF Ranked
    <2>2. Cardinality(reader.got \cap page) = 0
      BY <1>5, FS_EmptySet
    <2>3. Cardinality(reader.got) \in Nat /\ Cardinality(page) \in Nat
      BY <1>1, <2>1, FS_CardinalityType
    <2>4. Cardinality(reader.got \cup page) =
            Cardinality(reader.got) + Cardinality(page) - Cardinality(reader.got \cap page)
      BY <1>1, <2>1, FS_Union
    <2> QED BY <1>3, <2>2, <2>3, <2>4
  <1>7. reader' = [reader EXCEPT
            !.state = StateAfter(page, reader.limit),
            !.cursor = IF page = {} THEN @ ELSE OldestIn(page),
            !.got = @ \cup page, !.count = @ + Cardinality(page),
            !.cuts = @ \cup Cuts(page)]
    BY DEF NextPage, page
  <1>8. /\ reader'.state = StateAfter(page, reader.limit)
        /\ reader'.table = reader.table /\ reader'.dev = reader.dev
        /\ reader'.cursor = (IF page = {} THEN reader.cursor ELSE OldestIn(page))
        /\ reader'.got = reader.got \cup page /\ reader'.base = reader.base
        /\ reader'.count = reader.count + Cardinality(page)
        /\ reader'.cuts = reader.cuts \cup Cuts(page)
    BY <1>0, <1>7 DEF Reader
  <1>9. reader' \in Reader
    <2>1. /\ (IF page = {} THEN reader.cursor ELSE OldestIn(page)) \in Instant
          /\ reader.got \cup page \subseteq Row
          /\ reader.cuts \cup Cuts(page) \subseteq Instant
          /\ StateAfter(page, reader.limit) \in {"idle", "reading", "done"}
      BY <1>0, <1>1, <1>2, <1>3 DEF Reader
    <2> QED BY <1>0, <1>6, <1>7, <2>1, <1>3 DEF Reader
  <1>10. AllCurrent' /\ Asked' = all
    BY <1>0, <1>2, <1>8 DEF AllCurrent, Asked
  <1>11. ASSUME NEW r \in reader.base \ (reader.got \cup page)
         PROVE  /\ StateAfter(page, reader.limit) = "done" => r.ts \in reader.cuts
                /\ page # {} => r.ts \in reader.cuts \cup Cuts(page) \/ r.ts < OldestIn(page)
    <2>1. r \in all \ page /\ r.ts \in Nat /\ (r.ts \in reader.cuts \/ r.ts < reader.cursor)
      BY <1>2, <1>3
    <2>2. CASE r.ts \in reader.cuts
      BY <2>2
    <2>3. CASE r.ts < reader.cursor
      <3>1. StateAfter(page, reader.limit) # "done"
        BY <1>0, <1>1, <2>1, <2>3
      <3>2. page # {} => r.ts <= OldestIn(page)
        BY <1>0, <1>1, <2>1, <2>3
      <3> QED BY <1>4, <2>1, <3>1, <3>2
    <2> QED BY <2>1, <2>2, <2>3
  <1>12. page # {} => \A r \in reader.got \cup page : OldestIn(page) <= r.ts
    BY <1>0, <1>1, <1>2, <1>3, <1>4
  <1>13. reader.table \in PagedTable
    BY <1>0 DEF ReaderInv
  <1> QED BY <1>0, <1>1, <1>3, <1>6, <1>8, <1>9, <1>10, <1>11, <1>12, <1>13
          DEF ReaderInv, OnlyTiesSkipped

LEMMA ReaderStep ==
    MigrationInv /\ ReaderInv /\ [ReaderNext]_readerVars => ReaderInv' /\ [SchemaNext]_schemaVars
  <1> SUFFICES ASSUME MigrationInv, ReaderInv, [ReaderNext]_readerVars
               PROVE  ReaderInv' /\ [SchemaNext]_schemaVars
    OBVIOUS
  <1>1. CASE (SchemaNext /\ UNCHANGED reader) \/ UNCHANGED readerVars
    BY <1>1, ReaderRests DEF readerVars
  <1>2. ASSUME NEW t \in PagedTable, NEW d \in Device \cup {NoDevice}, NEW n \in Limit,
               FirstPage(t, d, n)
        PROVE  ReaderInv' /\ [SchemaNext]_schemaVars
    BY <1>2, FirstPageStep DEF FirstPage
  <1>3. ASSUME NEW d \in Device, ReadEnforcement(d) PROVE ReaderInv' /\ [SchemaNext]_schemaVars
    BY <1>3, ReadEnforcementStep DEF ReadEnforcement
  <1>4. CASE NextPage
    BY <1>4, NextPageStep DEF NextPage
  <1> QED BY <1>1, <1>2, <1>3, <1>4 DEF ReaderNext

ReaderSafety == ReaderInit /\ [][ReaderNext]_readerVars

LEMMA ReaderCorrect == ReaderSafety => [](MigrationInv /\ ReaderInv)
  <1>1. ReaderInit => MigrationInv /\ ReaderInv
    BY MigrationInit, ReaderInvInit DEF ReaderInit
  <1>2. MigrationInv /\ ReaderInv /\ [ReaderNext]_readerVars => (MigrationInv /\ ReaderInv)'
    BY ReaderStep, MigrationStep
  <1> QED BY <1>1, <1>2, PTL DEF ReaderSafety

(* A reader and the file it reads have their types (the queries of audit.service.ts, *)
(* events.service.ts, enrollment-log.service.ts and exports.service.ts).             *)
THEOREM ReaderTypeCorrect == ReaderSafety => []ReaderTypeOK
  <1>1. MigrationInv /\ ReaderInv => ReaderTypeOK
    BY DEF MigrationInv, ReaderInv, ReaderTypeOK
  <1> QED BY <1>1, ReaderCorrect, PTL

(* However many rows are written, clocks set back and servers restarted between the  *)
(* pages of a client, they hold every row there was when it began, each once, except *)
(* rows of the very instant at which a page ended (ts < before in audit.service.ts,  *)
(* events.service.ts and enrollment-log.service.ts).                                 *)
THEOREM PagesLoseTiesOnly == ReaderSafety => []PagesCover
  <1>1. ReaderInv => PagesCover
    <2> SUFFICES ASSUME ReaderInv PROVE PagesCover
      OBVIOUS
    <2>1. reader.state = "idle" => reader.count = Cardinality(reader.got)
      BY FS_EmptySet DEF ReaderInv
    <2> QED BY <2>1 DEF ReaderInv, PagesCover, NoRowTwice
  <1> QED BY <1>1, ReaderCorrect, PTL

(* What a client has read, an export of that period shows, also of devices that were *)
(* never there (buildWhere and the LEFT JOINs of exports.service.ts).                *)
THEOREM ExportsAgree == ReaderSafety => []ExportShowsRead
  <1>1. MigrationInv /\ ReaderInv => ExportShowsRead
    <2> SUFFICES ASSUME MigrationInv, ReaderInv, phase = "serving", reader.got # {}
                 PROVE  LET first == OldestIn(reader.got)
                            last == CHOOSE i \in {r.ts : r \in reader.got} :
                                        \A r \in reader.got : r.ts <= i
                        IN \A r \in reader.got :
                            \E e \in Export(reader.table, reader.dev, first, last) : e[1] = r
      BY DEF ExportShowsRead
    <2> DEFINE got == reader.got
               first == OldestIn(got)
               last == CHOOSE i \in {r.ts : r \in got} : \A r \in got : r.ts <= i
               all == Of(reader.table, reader.dev)
    <2>1. reader.table \in LogTable /\ reader.state # "idle" /\ got \subseteq Asked
      BY DEF ReaderInv, Reader
    <2>2. all = Asked /\ Ranked(all)
      BY <2>1, LogRows DEF Of, Asked
    <2>3. IsFiniteSet(got) /\ \A r \in got : r \in all /\ r.ts \in Nat
      BY <2>1, <2>2, FS_Subset DEF Ranked
    <2>4. \A r \in got : first <= r.ts
      BY <2>3, OldestOfPage
    <2>5. \A r \in got : r.ts <= last
      BY <2>3, NewestExists
    <2> HIDE DEF first, last
    <2>6. \A r \in got : r \in {q \in all : InPeriod(q, first, last)}
      BY <2>3, <2>4, <2>5 DEF InPeriod
    <2>7. \A r : \E x : x \in Joined(r)
      BY DEF Joined, Known
    <2>8. ASSUME NEW r \in got
          PROVE  \E e \in Export(reader.table, reader.dev, first, last) : e[1] = r
      <3>1. PICK x : x \in Joined(r)
        BY <2>7
      <3>2. <<r, x>> \in {r} \X Joined(r)
        BY <3>1
      <3>3. <<r, x>> \in Export(reader.table, reader.dev, first, last)
        BY <2>6, <3>2 DEF Export
      <3> QED BY <3>3
    <2> QED BY <2>8 DEF first, last
  <1> QED BY <1>1, ReaderCorrect, PTL

(* Each page but the last ends before the one before it did, whatever is written and *)
(* however the clock is set meanwhile: with instants that are natural numbers, all   *)
(* that ReadingEnds needs besides fairness (beforeTs = the oldest timestamp shown,   *)
(* enrollment-log.service.ts:72).                                                    *)
PageAdvances ==
    [][NextPage => reader'.state = "done" \/ reader'.cursor < reader.cursor]_readerVars

THEOREM PagesAdvance == ReaderSafety => PageAdvances
  <1>1. ASSUME MigrationInv, ReaderInv, NextPage
        PROVE  reader'.state = "done" \/ reader'.cursor < reader.cursor
    <2> DEFINE page == Page(reader.table, reader.dev, reader.cursor, reader.limit)
    <2>1. /\ phase = "serving" /\ reader.state = "reading"
          /\ reader \in Reader /\ reader.table \in LogTable /\ reader.limit \in Int
          /\ reader.cursor \in Instant /\ reader.cursor # NoInstant /\ reader.cursor \in Nat
      BY <1>1, ReaderAssumption, SchemaAssumption DEF NextPage, ReaderInv, Reader
    <2>2. /\ page \subseteq Of(reader.table, reader.dev)
          /\ \A r \in page : r.ts < reader.cursor
          /\ StateAfter(page, reader.limit) \in {"reading", "done"}
          /\ StateAfter(page, reader.limit) = "reading" => page # {}
      BY <1>1, <2>1, PageFacts
    <2>3. \A r \in page : r.ts \in Nat
      BY <1>1, <2>1, <2>2, LogRows DEF Ranked
    <2>4. page # {} => OldestIn(page) \in {r.ts : r \in page}
      BY <2>3, OldestOfPage
    <2>5. page # {} => OldestIn(page) < reader.cursor
      BY <2>2, <2>4
    <2>6. reader' = [reader EXCEPT
            !.state = StateAfter(page, reader.limit),
            !.cursor = IF page = {} THEN @ ELSE OldestIn(page),
            !.got = @ \cup page, !.count = @ + Cardinality(page),
            !.cuts = @ \cup Cuts(page)]
      BY <1>1 DEF NextPage
    <2> HIDE DEF page
    <2>7. /\ reader'.state = StateAfter(page, reader.limit)
          /\ page # {} => reader'.cursor = OldestIn(page)
      BY <2>1, <2>6 DEF Reader
    <2> QED BY <2>2, <2>5, <2>7
  <1> QED BY <1>1, ReaderCorrect, PTL DEF ReaderSafety, PageAdvances
=============================================================================
