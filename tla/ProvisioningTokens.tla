---------------------------- MODULE ProvisioningTokens ----------------------------
(* DeviceProvisioningService: the one row a device can have in                       *)
(* device_provisioning_tokens.  A token is random, so a fresh one is a new number;   *)
(* 0 is no token: no row, or no provisioning header.                                 *)
EXTENDS Integers

CONSTANT TokenTtl  \* DEVICE_PROVISIONING_TOKEN_TTL_MS
ASSUME TokenTtlAssumption == TokenTtl \in Nat

NoToken == 0
TokenRow == [token : Nat, expiresAt : Nat, consumed : BOOLEAN]
NoTokenRow == [token |-> NoToken, expiresAt |-> 0, consumed |-> FALSE]

(* issueToken overwrites the device's row, whatever became of the previous token.    *)
IssuedToken(x, t) == [token |-> x, expiresAt |-> t + TokenTtl, consumed |-> FALSE]

(* Mutant: the instant of expiry still counts as before it.                          *)
ConsumableAtExpiry(row, x, t) ==
    row.token # NoToken /\ x = row.token /\ ~row.consumed /\ t <= row.expiresAt
(* Every check of consumeToken passes.                                               *)
Consumable(row, x, t) ==
    /\ row.token # NoToken
    /\ x # NoToken
    /\ ~row.consumed
    /\ t < row.expiresAt
    /\ x = row.token

Consumed(row) == [row EXCEPT !.consumed = TRUE]
=============================================================================
