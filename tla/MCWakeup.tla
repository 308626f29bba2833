---- MODULE MCWakeup ----
(* TLC instances of Wakeup. *)
EXTENDS Wakeup

====
