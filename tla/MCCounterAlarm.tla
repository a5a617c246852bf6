--------------------------- MODULE MCCounterAlarm ---------------------------
(* Small counters for CounterAlarm. *)
EXTENDS CounterAlarm
=============================================================================
