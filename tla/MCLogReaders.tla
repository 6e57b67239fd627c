------------------------------- MODULE MCLogReaders --------------------------------
EXTENDS LogReaders

Filled(shape, rows) == [shape |-> shape, rows |-> rows, indexed |-> TRUE]
DeviceRow(d, status) == [id |-> d, dev |-> d, ts |-> 1, val |-> status]
LogRow(i, d, ts, val) == [id |-> i, dev |-> d, ts |-> ts, val |-> val]

(* No file at all.                                                                   *)
Fresh == [n \in Name |-> Absent]

(* A file of before enrollment, whose statuses were other ones and whose decisions   *)
(* had no code; its devices are the default one and d.                               *)
Early(d) ==
    [n \in Name |->
        CASE n = "devices" ->
                Filled("old", {DeviceRow(DefaultDevice, "verified"), DeviceRow(d, "unverified")})
          [] n = "enforcement_logs" -> Filled("old", {LogRow(1, d, 1, "none")})
          [] n = "audit_logs" -> Filled("current", {LogRow(1, d, 1, "none")})
          [] n = "event_logs" -> Filled("current", {LogRow(1, NoDevice, 2, "none")})
          [] OTHER -> Absent]

(* A file with keys and enrollment, but neither profiles nor archiving; some of its  *)
(* rows are of one instant.                                                          *)
Late(d) ==
    [n \in Name |->
        CASE n = "devices" ->
                Filled("old", {DeviceRow(DefaultDevice, "locked"), DeviceRow(d, "enrolled")})
          [] n = "device_identity_keys" -> Filled("current", {LogRow(1, d, 1, "none")})
          [] n = "enrollment_logs" ->
                Filled("old", {LogRow(1, d, 1, "pending_created"), LogRow(2, d, 1, "device_enrolled"),
                               LogRow(3, DefaultDevice, 2, "device_enrolled")})
          [] n = "enforcement_logs" -> Filled("current", {LogRow(1, d, 1, "identity_locked")})
          [] n = "event_logs" -> Filled("current", {LogRow(1, d, 2, "none"), LogRow(2, d, 1, "none")})
          [] n = "new" -> Absent
          [] OTHER -> Filled("current", {})]

MCOldFile == {Fresh} \cup UNION {{Early(d), Late(d)} : d \in Device \ {DefaultDevice}}
=============================================================================
