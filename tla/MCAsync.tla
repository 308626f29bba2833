---- MODULE MCAsync ----
(* TLC instances of Async. *)
EXTENDS Async

====
