------------------------------ MODULE WaitList ------------------------------
(***************************************************************************)
(* The list of the waiters of a sleeping lock (struct list_head): a waiter *)
(* is on the stack of its task, goes on at the tail and is taken off from  *)
(* wherever it stands, so the list is a sequence without repetitions.      *)
(***************************************************************************)
EXTENDS Integers, Sequences

OnList(s, w) == \E i \in 1..Len(s) : s[i] = w

(* No waiter is on the list twice. *)
OnceEach(s) == \A i, j \in 1..Len(s) : s[i] = s[j] => i = j

list_add_tail(s, w) == Append(s, w)

list_del(s, w) ==
  LET k == CHOOSE i \in 1..Len(s) : s[i] = w
  IN  [i \in 1..(Len(s) - 1) |-> IF i < k THEN s[i] ELSE s[i + 1]]

=============================================================================
