---- MODULE MCRwSem ----
(* TLC instances of RwSem. *)
EXTENDS RwSem

====
