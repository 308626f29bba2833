---- MODULE MCKthread ----
(* TLC instances of Kthread. *)
EXTENDS Kthread

====
