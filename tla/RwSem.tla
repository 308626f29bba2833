------------------------------- MODULE RwSem -------------------------------
(***************************************************************************)
(* The reader/writer semaphore of lib/rwsem-spinlock.c, the one this       *)
(* board's configuration selects (CONFIG_RWSEM_GENERIC_SPINLOCK).          *)
(*                                                                         *)
(* sem->wait_lock is held around every access to the semaphore, so each    *)
(* operation is one action, with one exception: the wait for the grant.    *)
(* The sleeper looks at waiter.task on its own stack without the lock,     *)
(* while __rwsem_do_wake() or __rwsem_wake_one_writer() clears it and only *)
(* then calls wake_up_process().  Between the two the sleeper may already  *)
(* have seen the grant and gone its way.                                   *)
(***************************************************************************)
EXTENDS Integers, Sequences, FiniteSets, TaskSched, WaitList

CONSTANT Task        \* the tasks that use the semaphore
ASSUME TaskAssumption == IsFiniteSet(Task)

VARIABLES
  activity,    \* sem->activity: readers that are active, or -1: a writer is
  wait_list,   \* sem->wait_list, the tasks of the waiters
  flags,       \* waiter.flags of a task that waits, or how a task holds
  granted,     \* waiter.task of a task that waits is NULL
  waking,      \* the tasks whose wake_up_process() is still to come; as long
               \* as there is one the releaser holds sem->wait_lock
  pc,          \* where every task is, see Locations
  state        \* task_struct.state

vars == <<activity, wait_list, flags, granted, waking, pc, state>>

READ  == "read"
WRITE == "write"
Kinds == {READ, WRITE}

(* "out": not in the semaphore; "check": before the look at waiter.task;   *)
(* "sched": in schedule(); "in": holds the semaphore, has returned.        *)
Locations == {"out", "check", "sched", "in"}

Init ==
  /\ activity  = 0
  /\ wait_list = <<>>
  /\ flags     = [t \in Task |-> READ]
  /\ granted   = [t \in Task |-> FALSE]
  /\ waking    = {}
  /\ pc        = [t \in Task |-> "out"]
  /\ state     = [t \in Task |-> TASK_RUNNING]

wait_lock_free == waking = {}

----------------------------------------------------------------------------
uncontended_ignores_list(k) ==   \* mutant: no list_empty()
  IF k = READ THEN activity >= 0 ELSE activity = 0

(* Can a task of kind k have the semaphore at once? *)
uncontended(k) ==
  /\ wait_list = <<>>
  /\ IF k = READ THEN activity >= 0 ELSE activity = 0

take(t, k) ==
  /\ uncontended(k)
  /\ activity' = IF k = READ THEN activity + 1 ELSE -1
  /\ flags' = [flags EXCEPT ![t] = k]
  /\ pc' = [pc EXCEPT ![t] = "in"]
  /\ UNCHANGED <<wait_list, granted, waking, state>>

queue_up(t, k) ==
  /\ ~uncontended(k)
  /\ state' = [state EXCEPT ![t] = TASK_UNINTERRUPTIBLE]
  /\ flags' = [flags EXCEPT ![t] = k]
  /\ wait_list' = list_add_tail(wait_list, t)
  /\ pc' = [pc EXCEPT ![t] = "check"]
  /\ UNCHANGED <<activity, granted, waking>>

down_with(t, k) ==
  /\ pc[t] = "out"
  /\ wait_lock_free
  /\ take(t, k) \/ queue_up(t, k)

__down_read(t)  == down_with(t, READ)
__down_write(t) == down_with(t, WRITE)

(* A trylock that fails changes nothing. *)
trylock(t, k) == pc[t] = "out" /\ wait_lock_free /\ take(t, k)

__down_read_trylock(t)  == trylock(t, READ)
__down_write_trylock(t) == trylock(t, WRITE)

(* The wait for the grant: look at waiter.task, schedule(), set the state, *)
(* look again.                                                             *)
wait_check(t) ==
  /\ pc[t] = "check"
  /\ IF granted[t]
       THEN /\ pc' = [pc EXCEPT ![t] = "in"]
            /\ granted' = [granted EXCEPT ![t] = FALSE]
            /\ state' = [state EXCEPT ![t] = TASK_RUNNING]
       ELSE pc' = [pc EXCEPT ![t] = "sched"] /\ UNCHANGED <<granted, state>>
  /\ UNCHANGED <<activity, wait_list, flags, waking>>

wait_resume(t) ==
  /\ pc[t] = "sched"
  /\ state[t] = TASK_RUNNING
  /\ state' = [state EXCEPT ![t] = TASK_UNINTERRUPTIBLE]
  /\ pc' = [pc EXCEPT ![t] = "check"]
  /\ UNCHANGED <<activity, wait_list, flags, granted, waking>>

----------------------------------------------------------------------------
(* The first n waiters are granted the semaphore, with the activity a.     *)
grant(n, a) ==
  LET chosen == {wait_list[i] : i \in 1..n} IN
  /\ activity' = a
  /\ wait_list' = SubSeq(wait_list, n + 1, Len(wait_list))
  /\ granted' = [t \in Task |-> granted[t] \/ t \in chosen]
  /\ waking' = chosen

is_read(i)  == flags[wait_list[i]] = READ
is_write(i) == flags[wait_list[i]] = WRITE

first_reader_only(n) == n = 1 /\ is_read(1)   \* mutant: no loop over the readers

(* n waiters at the front of the list wait to read, and the next does not. *)
front_readers(n) ==
  /\ \A i \in 1..n : is_read(i)
  /\ n < Len(wait_list) => is_write(n + 1)

(* __rwsem_do_wake() on a list that is not empty, called with activity a.  *)
__rwsem_do_wake(wakewrite, a) ==
  \/ is_write(1) /\ wakewrite  /\ grant(1, -1)
  \/ is_write(1) /\ ~wakewrite /\ grant(0, a)
  \/ is_read(1)  /\ \E n \in 1..Len(wait_list) : front_readers(n) /\ grant(n, a + n)

__rwsem_wake_one_writer == grant(1, -1)

__up_read(t) ==
  /\ pc[t] = "in" /\ flags[t] = READ
  /\ wait_lock_free
  /\ IF activity - 1 = 0 /\ wait_list # <<>>
       THEN __rwsem_wake_one_writer
       ELSE grant(0, activity - 1)
  /\ pc' = [pc EXCEPT ![t] = "out"]
  /\ UNCHANGED <<flags, state>>

__up_write_wakes_one(t) ==   \* mutant: one waiter, whatever it waits for
  /\ pc[t] = "in" /\ flags[t] = WRITE
  /\ wait_lock_free
  /\ IF wait_list # <<>> THEN grant(1, IF is_write(1) THEN -1 ELSE 1) ELSE grant(0, 0)
  /\ pc' = [pc EXCEPT ![t] = "out"]
  /\ UNCHANGED <<flags, state>>

__up_write(t) ==
  /\ pc[t] = "in" /\ flags[t] = WRITE
  /\ wait_lock_free
  /\ IF wait_list # <<>> THEN __rwsem_do_wake(TRUE, 0) ELSE grant(0, 0)
  /\ pc' = [pc EXCEPT ![t] = "out"]
  /\ UNCHANGED <<flags, state>>

__downgrade_wakes_writer(t) ==   \* mutant: wakewrite is 1
  /\ pc[t] = "in" /\ flags[t] = WRITE
  /\ wait_lock_free
  /\ IF wait_list # <<>> THEN __rwsem_do_wake(TRUE, 1) ELSE grant(0, 1)
  /\ flags' = [flags EXCEPT ![t] = READ]
  /\ UNCHANGED <<pc, state>>

__downgrade_write(t) ==
  /\ pc[t] = "in" /\ flags[t] = WRITE
  /\ wait_lock_free
  /\ IF wait_list # <<>> THEN __rwsem_do_wake(FALSE, 1) ELSE grant(0, 1)
  /\ flags' = [flags EXCEPT ![t] = READ]
  /\ UNCHANGED <<pc, state>>

(* The releaser, still with wait_lock, wakes one of those it has chosen.   *)
wake_up_process(t) ==
  /\ t \in waking
  /\ waking' = waking \ {t}
  /\ state' = [state EXCEPT ![t] = TASK_RUNNING]
  /\ UNCHANGED <<activity, wait_list, flags, granted, pc>>

(* A wake-up that has nothing to do with the semaphore. *)
stray_wake_up(t) ==
  /\ state[t] # TASK_RUNNING
  /\ state' = [state EXCEPT ![t] = TASK_RUNNING]
  /\ UNCHANGED <<activity, wait_list, flags, granted, waking, pc>>

----------------------------------------------------------------------------
Release(t) == __up_read(t) \/ __up_write(t)

Next ==
  \E t \in Task :
    \/ __down_read(t) \/ __down_write(t)
    \/ __down_read_trylock(t) \/ __down_write_trylock(t)
    \/ wait_check(t) \/ wait_resume(t)
    \/ Release(t) \/ __downgrade_write(t)
    \/ wake_up_process(t) \/ stray_wake_up(t)

Spec == Init /\ [][Next]_vars

(* Tasks that can run do, a releaser finishes its wake-ups, and those that *)
(* hold the semaphore release it.                                          *)
Fairness ==
  \A t \in Task :
    /\ WF_vars(wait_check(t)) /\ WF_vars(wait_resume(t)) /\ WF_vars(wake_up_process(t))
    /\ WF_vars(Release(t))

FairSpec == Spec /\ Fairness

----------------------------------------------------------------------------
(* A task has the semaphore from its grant on, whether or not it has run.  *)
Holds(t, k) == flags[t] = k /\ (pc[t] = "in" \/ granted[t])
ReadHolders  == {t \in Task : Holds(t, READ)}
WriteHolders == {t \in Task : Holds(t, WRITE)}

TypeOK ==
  /\ activity \in -1..Cardinality(Task)
  /\ wait_list \in Seq(Task)
  /\ flags \in [Task -> Kinds]
  /\ granted \in [Task -> BOOLEAN]
  /\ waking \subseteq Task
  /\ pc \in [Task -> Locations]
  /\ state \in [Task -> {TASK_RUNNING, TASK_UNINTERRUPTIBLE}]

(* A task that waits is on the list or granted, and one that is granted    *)
(* will notice: it is awake, or about to be woken.                         *)
GrantIsSeen ==
  \A t \in Task :
    /\ pc[t] \in {"check", "sched"} <=> (OnList(wait_list, t) \/ granted[t])
    /\ ~(OnList(wait_list, t) /\ granted[t])
    /\ granted[t] /\ pc[t] = "sched" => state[t] = TASK_RUNNING \/ t \in waking

(* activity counts those that read, a writer is alone, no free semaphore   *)
(* has waiters, and nobody sleeps on after the releaser has granted it the *)
(* semaphore.                                                              *)
Exclusion ==
  /\ TypeOK /\ GrantIsSeen
  /\ WriteHolders # {} => ReadHolders = {} /\ Cardinality(WriteHolders) = 1
  /\ activity = IF WriteHolders # {} THEN -1 ELSE Cardinality(ReadHolders)
  /\ activity = 0 => wait_list = <<>>

(* What __up_read() relies on without looking when it calls                *)
(* __rwsem_wake_one_writer(): while readers are active the first waiter is *)
(* a writer.                                                               *)
WriterAtHead == activity > 0 /\ wait_list # <<>> => flags[Head(wait_list)] = WRITE

(* Nobody starves: a task that waits gets the semaphore, since later       *)
(* callers queue behind it, readers and trylocks included.                 *)
NobodyStarves == \A t \in Task : pc[t] \in {"check", "sched"} ~> pc[t] = "in"

(* Those that wait, with what they wait for. *)
Queue == [i \in 1..Len(wait_list) |->
            [task |-> wait_list[i], kind |-> flags[wait_list[i]]]]

(* The semaphore is a reader/writer lock: the count, the grants to         *)
(* sleepers and the wake-ups implement RwLock.                             *)
Lock == INSTANCE RwLock WITH
          readers <- ReadHolders,
          writers <- WriteHolders,
          queue   <- Queue

ImplementsRwLock == Lock!LSpec

=============================================================================
