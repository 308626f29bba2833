---- MODULE MCKthreadWorker ----
(* TLC instances of KthreadWorker. *)
EXTENDS KthreadWorker

====
