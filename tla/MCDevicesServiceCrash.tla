-------------------------- MODULE MCDevicesServiceCrash --------------------------
EXTENDS DevicesServiceCrash, TLC

(* The first instant in UTC ISO form, and the last in a text with a negative UTC     *)
(* offset, which sorts before its instant.                                           *)
MCTimestamp == {[at |-> 0, sortsAs |-> 0], [at |-> MaxTime, sortsAs |-> -MaxTime - 1]}

(* Keys are only compared, and the run checks no liveness.                           *)
KeySymmetry == Permutations(Key)
=============================================================================
