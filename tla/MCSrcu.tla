---- MODULE MCSrcu ----
(* TLC instances of Srcu. *)
EXTENDS Srcu, TLC

Symmetry == Permutations(Reader) \cup Permutations(Updater) \cup Permutations(CPU)

====
