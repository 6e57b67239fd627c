----------------------------- MODULE MCDeviceProfile -----------------------------
EXTENDS DeviceProfile

CONSTANTS d1, unknown, none, nick, shelly, pi

MCText == {unknown, shelly, pi}

(* One rule gives vendor and model, one the vendor only, like "raspberry pi" and     *)
(* "shelly".                                                                         *)
MCFingerprintRule ==
    [t \in MCText |->
        CASE t = pi -> [vendor |-> pi, model |-> pi]
          [] t = shelly -> [vendor |-> shelly, model |-> none]
          [] OTHER -> [vendor |-> none, model |-> none]]
MCOuiVendor == [t \in MCText |-> IF t = pi THEN pi ELSE none]

(* Nothing, each field alone with two texts or blank, and all fields at once.        *)
MCProfileInput ==
    {[f \in {} |-> none]}
    \cup UNION {[{f} -> {shelly, none}] : f \in ManualField}
    \cup [ManualField -> {pi, none}]

(* hostname stands for itself with one text; the fields inference reads or writes    *)
(* have more.  A device may well report the text "unknown".                          *)
MCDeviceReport ==
    {r \in [ReportedField -> MCText \cup {none}] :
        /\ r.hostname \in {none, unknown, pi}
        /\ r.vendor \in {none, shelly}
        /\ r.model \in {none, shelly}
        /\ r.macAddress \in {none, pi}
        /\ r.fingerprint \in {none, shelly, pi}}
=============================================================================
