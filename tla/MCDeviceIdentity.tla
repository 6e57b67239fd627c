---------------------------- MODULE MCDeviceIdentity ----------------------------
(* DeviceIdentity on one or two devices.  Times are in units of a minute or so:    *)
(* what matters is their order, MaxSkew <= NonceTtl and FailureWindow < LockoutTime *)
(* as in the defaults (5, 10, 5 and 10 minutes).                                    *)
EXTENDS DeviceIdentity

(* Every instant the clock can show, all but one of them in UTC ISO form; the one   *)
(* in the middle has two texts of other forms: one sorts after all the others, one  *)
(* (a negative UTC offset) before.                                                  *)
MCTimestamp ==
    {[at |-> i, sortsAs |-> i] : i \in (0 .. MaxTime) \ {2}}
        \cup {[at |-> 2, sortsAs |-> MaxTime + 3], [at |-> 2, sortsAs |-> -MaxTime]}
=============================================================================
