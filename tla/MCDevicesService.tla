----------------------------- MODULE MCDevicesService -----------------------------
EXTENDS DevicesService

(* One text in UTC ISO form, in time at every instant the clock shows, and one with  *)
(* a negative UTC offset for the last instant: it sorts before them all.             *)
MCTimestamp == {[at |-> 1, sortsAs |-> 1], [at |-> MaxTime, sortsAs |-> -MaxTime]}
=============================================================================
