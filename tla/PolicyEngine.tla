------------------------------- MODULE PolicyEngine -------------------------------
(* PolicyEngineService.evaluate and EnforcementService.apply with the only adapter   *)
(* the application binds, LocalStateAdapter: functions of their arguments.           *)

PolicyAction == {"allow", "deny"}
DeviceState == {"unknown", "allowed", "denied"}
IdentityStatus == {"pending", "enrolled", "verified", "invalid", "locked"}

Target(action) == IF action = "allow" THEN "allowed" ELSE "denied"

(* The code of an allow that the device's identity blocks.                           *)
BlockCode ==
    [pending |-> "identity_not_verified",
     invalid |-> "identity_invalid",
     locked  |-> "identity_locked"]

(* Mutant: only the statuses that a failed heartbeat leaves block an allow.          *)
EvaluateFailedOnly(action, prev, status) ==
    IF action = "allow" /\ status \in {"invalid", "locked"}
    THEN [allowed |-> FALSE, code |-> BlockCode[status]]
    ELSE [allowed |-> TRUE, code |-> "ok"]
Evaluate(action, prev, status) ==
    IF action = "allow" /\ status \in DOMAIN BlockCode
    THEN [allowed |-> FALSE, code |-> BlockCode[status]]
    ELSE [allowed |-> TRUE,
          code |-> IF prev # Target(action) THEN "ok"
                   ELSE IF action = "allow" THEN "already_allowed" ELSE "already_denied"]

(* Mutant: a dry run hands back the state it would have set.                         *)
EnforceForReal(action, prev, dry) == Target(action)
(* The state the enforcement hands back: a dry run "applies" the one there was.      *)
Enforce(action, prev, dry) == IF dry THEN prev ELSE Target(action)

(* What applyPolicy decides: a blocked request keeps the state.                      *)
Decide(action, prev, status, dry) ==
    LET evaluation == Evaluate(action, prev, status) IN
    IF evaluation.allowed
    THEN [result |-> "applied", next |-> Enforce(action, prev, dry), code |-> evaluation.code]
    ELSE [result |-> "blocked", next |-> prev, code |-> evaluation.code]
=============================================================================
