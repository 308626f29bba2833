------------------------------- MODULE RwLock -------------------------------
(***************************************************************************)
(* What a reader/writer semaphore promises to its callers: many readers or *)
(* one writer hold it, those who cannot have it at once queue, nobody      *)
(* overtakes the queue, and the queue is served whenever a holder leaves.  *)
(* There is no counter, no sleeping and no waking here: who is served is   *)
(* said of the queue as a whole.                                           *)
(***************************************************************************)
EXTENDS Integers, Sequences

CONSTANT Task

VARIABLES
  readers,   \* the tasks that hold the semaphore for reading
  writers,   \* the tasks that hold it for writing
  queue      \* those that wait, [task, kind], in order of arrival

lvars == <<readers, writers, queue>>

Kinds == {"read", "write"}

LInit == readers = {} /\ writers = {} /\ queue = <<>>

Outside(t) == /\ t \notin readers \cup writers
              /\ \A i \in 1..Len(queue) : queue[i].task # t

(* May one more of kind k join the holders r and w? *)
Compatible(k, r, w) == w = {} /\ (k = "write" => r = {})

Enter(t, k) ==
  /\ Outside(t)
  /\ IF queue = <<>> /\ Compatible(k, readers, writers)
       THEN /\ readers' = IF k = "read" THEN readers \cup {t} ELSE readers
            /\ writers' = IF k = "write" THEN writers \cup {t} ELSE writers
            /\ UNCHANGED queue
       ELSE /\ queue' = Append(queue, [task |-> t, kind |-> k])
            /\ UNCHANGED <<readers, writers>>

(***************************************************************************)
(* The first n of the queue may all have the semaphore, together with the  *)
(* holders r and w, and the next in the queue may not join them.           *)
(***************************************************************************)
MayServe(n, r, w) ==
  \/ n = 0
  \/ n = 1 /\ Compatible(queue[1].kind, r, w)
  \/ w = {} /\ \A i \in 1..n : queue[i].kind = "read"

FirstTasks(n, k) == {queue[i].task : i \in {j \in 1..n : queue[j].kind = k}}

(* The queue is served once the holders are r and w. *)
Serve(r, w) ==
  \E n \in 0..Len(queue) :
    /\ MayServe(n, r, w)
    /\ \A m \in (n + 1)..Len(queue) : ~MayServe(m, r, w)
    /\ readers' = r \cup FirstTasks(n, "read")
    /\ writers' = w \cup FirstTasks(n, "write")
    /\ queue'   = SubSeq(queue, n + 1, Len(queue))

LeaveRead(t)  == t \in readers /\ Serve(readers \ {t}, writers)
LeaveWrite(t) == t \in writers /\ Serve(readers, writers \ {t})
Downgrade(t)  == t \in writers /\ Serve(readers \cup {t}, writers \ {t})

LNext ==
  \E t \in Task :
    \/ \E k \in Kinds : Enter(t, k)
    \/ LeaveRead(t) \/ LeaveWrite(t) \/ Downgrade(t)

LSpec == LInit /\ [][LNext]_lvars

=============================================================================
