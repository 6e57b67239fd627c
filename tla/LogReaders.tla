-------------------------------- MODULE LogReaders ---------------------------------
(* The paged lists and the exports of the logs, over the file of SchemaMigration:    *)
(* GET /audit, /events/recent and /devices/lifecycle answer the newest rows, or the  *)
(* newest before an instant; GET /devices/:id/enforcement the newest of a device;    *)
(* GET /exports/download all rows of a period.  A client that wants more rows asks   *)
(* for those before the oldest it has.  Handlers write between two of its requests,  *)
(* the server may restart there, and the client goes on.                             *)
EXTENDS SchemaMigration, Integers

CONSTANTS
    NoInstant,  \* no beforeTs, no fromTs, no toTs
    Limit,      \* limits a client asks for
    MaxPage     \* the most rows of a page
ASSUME ReaderAssumption ==
    /\ NoInstant \notin Instant
    /\ Limit \subseteq Int
    /\ MaxPage \in Nat \ {0}

VARIABLE
    reader  \* a client: what it reads, and history of what it got
readerVars == <<schemaVars, reader>>

PagedTable == {"audit_logs", "enrollment_logs", "event_logs"}
ExportTable == {"audit_logs", "enforcement_logs", "event_logs"}

Reader ==
    [state : {"idle", "reading", "done"},
     table : LogTable,
     dev : Device \cup {NoDevice},      \* deviceId, NoDevice for all
     limit : Int,
     cursor : Instant \cup {NoInstant}, \* beforeTs of the next request
     got : SUBSET Row,                  \* the rows of all its pages
     count : Nat,                       \* history: how many rows the pages had
     base : SUBSET Row,                 \* history: the rows asked for, when it began
     cuts : SUBSET Instant]             \* history: where pages ended
ReaderTypeOK == SchemaTypeOK /\ reader \in Reader

-----------------------------------------------------------------------------------
(* Queries.                                                                          *)

Older(r, q) == r.ts < q.ts \/ (r.ts = q.ts /\ r.id < q.id)
(* ORDER BY ts DESC, id DESC LIMIT n; the answer lists them the other way round.     *)
Newest(S, n) == {r \in S : Cardinality({q \in S : Older(r, q)}) < n}

(* Mutant: a limit of 0 is taken as it is.                                           *)
SafeLimitAbove(n) == IF n > MaxPage THEN MaxPage ELSE n
SafeLimit(n) == IF n < 1 THEN 1 ELSE IF n > MaxPage THEN MaxPage ELSE n

Of(t, d) == {r \in view[t].rows : d # NoDevice => r.dev = d}

(* Mutant: ts <= before.                                                             *)
PageFrom(t, d, before, n) ==
    Newest({r \in Of(t, d) : before # NoInstant => r.ts <= before}, SafeLimit(n))
Page(t, d, before, n) ==
    Newest({r \in Of(t, d) : before # NoInstant => r.ts < before}, SafeLimit(n))

(* The history of a device is one page of a size of its own.                         *)
EnforcementOf(d) == Newest(Of("enforcement_logs", d), MaxPage)

(* LEFT JOIN devices: the device of a row, or none for an event of no device.        *)
Joined(r) ==
    IF r.dev \in Known(view) THEN {q \in view["devices"].rows : q.id = r.dev}
    ELSE {NoDevice}
(* Mutant: the period ends before its end.                                           *)
InPeriodBefore(r, from, to) ==
    (from # NoInstant => r.ts >= from) /\ (to # NoInstant => r.ts < to)
InPeriod(r, from, to) ==
    (from # NoInstant => r.ts >= from) /\ (to # NoInstant => r.ts <= to)
Export(t, d, from, to) ==
    UNION {{r} \X Joined(r) : r \in {q \in Of(t, d) : InPeriod(q, from, to)}}

-----------------------------------------------------------------------------------
ReaderInit ==
    /\ SchemaInit
    /\ reader = [state |-> "idle", table |-> "audit_logs", dev |-> NoDevice, limit |-> 1,
                 cursor |-> NoInstant, got |-> {}, count |-> 0, base |-> {}, cuts |-> {}]

(* The oldest instant of a page is what the client asks on from.                     *)
OldestIn(page) == CHOOSE i \in {r.ts : r \in page} : \A r \in page : i <= r.ts
Cuts(page) == IF page = {} THEN {} ELSE {OldestIn(page)}
(* A page that is not full is the last one.                                          *)
StateAfter(page, n) == IF Cardinality(page) < SafeLimit(n) THEN "done" ELSE "reading"

(* A device has to exist for its lifecycle or its enforcement log to be asked for.   *)
FirstPage(t, d, n) ==
    /\ phase = "serving"
    /\ reader.state # "reading"
    /\ t = "enrollment_logs" /\ d # NoDevice => d \in Known(view)
    /\ LET page == Page(t, d, NoInstant, n) IN
       reader' = [state |-> StateAfter(page, n), table |-> t, dev |-> d, limit |-> n,
                  cursor |-> IF page = {} THEN NoInstant ELSE OldestIn(page),
                  got |-> page, count |-> Cardinality(page), base |-> Of(t, d),
                  cuts |-> Cuts(page)]
    /\ UNCHANGED schemaVars

NextPage ==
    /\ phase = "serving"
    /\ reader.state = "reading"
    /\ LET page == Page(reader.table, reader.dev, reader.cursor, reader.limit) IN
       reader' = [reader EXCEPT
            !.state = StateAfter(page, reader.limit),
            !.cursor = IF page = {} THEN @ ELSE OldestIn(page),
            !.got = @ \cup page, !.count = @ + Cardinality(page),
            !.cuts = @ \cup Cuts(page)]
    /\ UNCHANGED schemaVars

ReadEnforcement(d) ==
    /\ phase = "serving"
    /\ reader.state # "reading"
    /\ d \in Known(view)
    /\ LET page == EnforcementOf(d) IN
       reader' = [state |-> "done", table |-> "enforcement_logs", dev |-> d,
                  limit |-> MaxPage, cursor |-> NoInstant, got |-> page,
                  count |-> Cardinality(page), base |-> Of("enforcement_logs", d),
                  cuts |-> Cuts(page)]
    /\ UNCHANGED schemaVars

ReaderNext ==
    \/ SchemaNext /\ UNCHANGED reader
    \/ \E d \in Device \cup {NoDevice}, n \in Limit :
        \E t \in PagedTable : FirstPage(t, d, n)
    \/ \E d \in Device : ReadEnforcement(d)
    \/ NextPage

(* A client that reads on is answered when the server is up.                         *)
ReaderSpec ==
    ReaderInit /\ [][ReaderNext]_readerVars /\ WF_schemaVars(StartUp) /\ WF_readerVars(NextPage)

-----------------------------------------------------------------------------------
NoRowTwice == reader.count = Cardinality(reader.got)
OnlyTiesSkipped ==
    reader.state = "done" /\ reader.table \in PagedTable =>
        \A r \in reader.base \ reader.got : r.ts \in reader.cuts
(* The pages of a client are what there was when it began, each row once, although   *)
(* rows are written, clocks set and the server restarted between them.  What a row's *)
(* ts < before skips (enrollment-log.service.ts:72, events.service.ts:79) are only    *)
(* rows of an instant at which a page ended.                                         *)
PagesCover == NoRowTwice /\ OnlyTiesSkipped

(* What a client has read, an export of that period shows too, then and ever after,  *)
(* events of no device included (buildWhere and LEFT JOIN, exports.service.ts:227).  *)
ExportShowsRead ==
    phase = "serving" /\ reader.got # {} /\ reader.table \in ExportTable =>
        LET first == OldestIn(reader.got)
            last == CHOOSE i \in {r.ts : r \in reader.got} : \A r \in reader.got : r.ts <= i
        IN \A r \in reader.got :
            \E e \in Export(reader.table, reader.dev, first, last) : e[1] = r

(* Reading ends, however much is written meanwhile.                                  *)
ReadingEnds == []<>(reader.state # "reading")
=============================================================================
