--------------------------- MODULE MCTelemetryStore ---------------------------
EXTENDS TelemetryStore

CONSTANTS s1, s2

(* Each service in a shard of its own: the count is what they share. *)
Apart == [s \in Services |-> IF s = s1 THEN 0 ELSE 1]
===============================================================================
