-------------------------------- MODULE FileUpgrade --------------------------------
(* What SqliteService promises about the database file over its life: each table     *)
(* becomes current in one step and takes its rows along, and rows are added only     *)
(* while the file is open to the handlers, which it is only when every table is      *)
(* current.  Statements, transactions, foreign keys and what cuts a start short are  *)
(* left to SchemaMigration, which implements this specification.                     *)

CONSTANTS
    Table,     \* the tables
    Devices,   \* the one of them that the others refer to
    Allowed,   \* per table: the values its checked column may have
    Fallback,  \* the value that replaces one not allowed any more, for tables that have one
    NoDevice   \* the device of a row that refers to none

VARIABLES
    shape,  \* per table: "absent", "old" or "current"
    rows,   \* per table: a set of records with id, dev, ts and val, the checked column
    open    \* handlers are served

vars == <<shape, rows, open>>

Known(tables) == {r.id : r \in tables[Devices]}
Good(tables, t, r) == r.val \in Allowed[t] /\ r.dev \in Known(tables) \cup {NoDevice}

Init ==
    /\ shape \in [Table -> {"absent", "old", "current"}]
    /\ DOMAIN rows = Table
    /\ \A t \in Table : shape[t] = "absent" => rows[t] = {}
    /\ \A t \in Table : shape[t] = "current" => \A r \in rows[t] : Good(rows, t, r)
    /\ open = FALSE

Create(t) ==
    /\ shape[t] = "absent"
    /\ ~open
    /\ shape' = [shape EXCEPT ![t] = "current"]
    /\ UNCHANGED <<rows, open>>

(* The rows of an upgraded table: the same ones, the value of each kept if it is     *)
(* still allowed and replaced by the fallback if not.                                *)
Named(S) == {<<r.id, r.dev, r.ts>> : r \in S}
Carried(t, before, after) ==
    /\ Named(after) = Named(before)
    /\ \A r \in before : r.val \in Allowed[t] => r \in after
    /\ \A r \in after \ before : t \in DOMAIN Fallback /\ r.val = Fallback[t]
Upgrade(t) ==
    /\ shape[t] = "old"
    /\ ~open
    /\ shape' = [shape EXCEPT ![t] = "current"]
    /\ rows' = [rows EXCEPT ![t] = rows'[t]]
    /\ Carried(t, rows[t], rows'[t])
    /\ \A r \in rows'[t] : Good(rows', t, r)
    /\ UNCHANGED open

(* One more row, of a device there is.                                               *)
Added(t) ==
    \E r \in rows'[t] :
        /\ r \notin rows[t]
        /\ rows' = [rows EXCEPT ![t] = @ \cup {r}]
        /\ Good(rows', t, r)
Insert(t) ==
    /\ open
    /\ Added(t)
    /\ UNCHANGED <<shape, open>>

Open ==
    /\ ~open
    /\ \A t \in Table : shape[t] = "current"
    /\ open' = TRUE
    /\ UNCHANGED rows \/ Added(Devices)
    /\ UNCHANGED shape

(* The server stops, or dies.                                                        *)
Close ==
    /\ open
    /\ open' = FALSE
    /\ UNCHANGED <<shape, rows>>

Next ==
    \/ \E t \in Table : Create(t) \/ Upgrade(t) \/ Insert(t)
    \/ Open
    \/ Close

Spec == Init /\ [][Next]_vars
=============================================================================
