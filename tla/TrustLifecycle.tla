------------------------------ MODULE TrustLifecycle ------------------------------
(* What the device service promises about one device after another: how trust in it  *)
(* may change and when it may be let onto the network.  How trust is established     *)
(* (keys, nonces, lockouts, tokens, logs) is left to DevicesService, which implements *)
(* this specification.                                                               *)

CONSTANT Device

VARIABLES
    trust,   \* "absent", "pending", "enrolled", "verified" or "distrusted"
    access   \* "unknown", "allowed" or "denied"

vars == <<trust, access>>

Init ==
    /\ trust \in [Device -> {"absent", "pending"}]
    /\ access = [d \in Device |-> "unknown"]

Discover(d) ==
    /\ trust[d] = "absent"
    /\ trust' = [trust EXCEPT ![d] = "pending"]
    /\ UNCHANGED access

(* A key is configured: whatever trust there was starts over.                        *)
Enroll(d) ==
    /\ trust' = [trust EXCEPT ![d] = "enrolled"]
    /\ UNCHANGED access

(* A heartbeat signed with the device's key: only after a key was configured.        *)
Verify(d) ==
    /\ trust[d] \in {"enrolled", "verified", "distrusted"}
    /\ trust' = [trust EXCEPT ![d] = "verified"]
    /\ UNCHANGED access

(* A heartbeat that fails: the access the device has is left as it is.               *)
Distrust(d) ==
    /\ trust[d] # "absent"
    /\ trust' = [trust EXCEPT ![d] = "distrusted"]
    /\ UNCHANGED access

Allow(d) ==
    /\ trust[d] \in {"enrolled", "verified"}
    /\ access' = [access EXCEPT ![d] = "allowed"]
    /\ UNCHANGED trust

Deny(d) ==
    /\ trust[d] # "absent"
    /\ access' = [access EXCEPT ![d] = "denied"]
    /\ UNCHANGED trust

Next ==
    \E d \in Device :
        Discover(d) \/ Enroll(d) \/ Verify(d) \/ Distrust(d) \/ Allow(d) \/ Deny(d)

Spec == Init /\ [][Next]_vars
=============================================================================
