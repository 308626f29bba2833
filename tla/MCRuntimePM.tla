---- MODULE MCRuntimePM ----
(* TLC instances of RuntimePM: a device and its parent, a bridge. *)
EXTENDS RuntimePM

CONSTANTS bridge, card

Devices == {bridge, card}
ParentOf == [d \in Devices |-> IF d = card THEN bridge ELSE NoParent]
Faults == {<<"resume", bridge, "error">>, <<"resume", card, "error">>, <<"suspend", card, "busy">>,
           <<"suspend", card, "error">>}
PutCalls == {<<"idle", {"ASYNC"}>>, <<"suspend", {"AUTO"}>>}
====
