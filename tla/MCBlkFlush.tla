---- MODULE MCBlkFlush ----
(* TLC instances of BlkFlush: some requests are of any kind, others only   *)
(* flush the cache.                                                        *)
EXTENDS BlkFlush, TLC

CONSTANTS General, Flusher

AllRequests == General \cup Flusher
AllCapabilities == {{}, {"FLUSH"}, {"FLUSH", "FUA"}}
AllAsks == [r \in AllRequests |-> IF r \in General THEN Kinds ELSE {[flags |-> {"FLUSH"}, sectors |-> FALSE]}]

(* Requests with the same kinds are interchangeable. *)
AnyOrder == Permutations(General) \cup Permutations(Flusher)
====
