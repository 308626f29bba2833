------------------------------- MODULE Mutex -------------------------------
(***************************************************************************)
(* The mutex of kernel/mutex.c on top of the swap fast paths of            *)
(* include/asm-generic/mutex-xchg.h, which is what arch/arm/include/asm/   *)
(* mutex.h selects for this SoC (ARM926, __LINUX_ARM_ARCH__ < 6).          *)
(*                                                                         *)
(* count is 1: unlocked, 0: locked, -1: locked and somebody may be waiting *)
(* on wait_list.  Fast paths swap count without any lock; slow paths hold  *)
(* the spinlock wait_lock, which does not keep fast paths of others away.  *)
(* So every access to count is an action of its own, together with what    *)
(* the task does before and after it to state nobody else can see or may   *)
(* change: its locals, and what wait_lock protects while it holds it.      *)
(*                                                                         *)
(* The swap fast path is for uniprocessors: lock->owner, optimistic        *)
(* spinning (CONFIG_MUTEX_SPIN_ON_OWNER) and CONFIG_DEBUG_MUTEXES are not  *)
(* in its build.  Interleavings stand for preemption of one task by        *)
(* another.                                                                *)
(***************************************************************************)
EXTENDS Integers, Sequences, TaskSched, WaitList

CONSTANT Task        \* the tasks that use the mutex

VARIABLES
  count,       \* lock->count
  wait_lock,   \* the task that holds lock->wait_lock, or NoTask
  wait_list,   \* lock->wait_list, the tasks of the waiters
  pc,          \* where every task is, see Locations
  kind,        \* the state argument of the task's __mutex_lock_common()
  state,       \* task_struct.state
  sig          \* the signal pending for the task

vars == <<count, wait_lock, wait_list, pc, kind, state, sig>>

NoTask == "NoTask"
ASSUME TaskAssumption == NoTask \notin Task

(***************************************************************************)
(* "idle"    outside the mutex functions, does not hold the mutex          *)
(* "slow"    the fast path has failed, wait_lock is still to be taken      *)
(* "loop"    on the list, holds wait_lock, before the swap of the loop     *)
(* "sched"   on the list, in schedule()                                    *)
(* "done"    on the list, holds wait_lock and the mutex                    *)
(* "cs"      holds the mutex, the lock function has returned               *)
(* "unlock"  has given the mutex up, __mutex_unlock_slowpath() to come     *)
(* "try"     between the two swaps of __mutex_fastpath_trylock()           *)
(***************************************************************************)
Locations == {"idle", "slow", "loop", "sched", "done", "cs", "unlock", "try"}

Init ==
  /\ count     = 1
  /\ wait_lock = NoTask
  /\ wait_list = <<>>
  /\ pc        = [t \in Task |-> "idle"]
  /\ kind      = [t \in Task |-> TASK_UNINTERRUPTIBLE]
  /\ state     = [t \in Task |-> TASK_RUNNING]
  /\ sig       = [t \in Task |-> SIG_NONE]

goto(t, l) == pc' = [pc EXCEPT ![t] = l]

(* The locals of __mutex_lock_common() die with it. *)
forget_kind(t) == kind' = [kind EXCEPT ![t] = TASK_UNINTERRUPTIBLE]

----------------------------------------------------------------------------
(* mutex_lock(), mutex_lock_interruptible() and mutex_lock_killable(). *)
__mutex_fastpath_lock(t, s) ==
  /\ pc[t] = "idle"
  /\ count' = 0
  /\ goto(t, IF count = 1 THEN "cs" ELSE "slow")
  /\ kind' = IF count = 1 THEN kind ELSE [kind EXCEPT ![t] = s]
  /\ UNCHANGED <<wait_lock, wait_list, state, sig>>

mutex_lock(t)               == __mutex_fastpath_lock(t, TASK_UNINTERRUPTIBLE)
mutex_lock_interruptible(t) == __mutex_fastpath_lock(t, TASK_INTERRUPTIBLE)
mutex_lock_killable(t)      == __mutex_fastpath_lock(t, TASK_KILLABLE)

(* The first half of __mutex_lock_common(): on the list, then the first swap. *)
lock_slow_enter(t) ==
  /\ pc[t] = "slow"
  /\ wait_lock = NoTask
  /\ wait_lock' = t
  /\ wait_list' = list_add_tail(wait_list, t)
  /\ count' = -1
  /\ goto(t, IF count = 1 THEN "done" ELSE "loop")
  /\ UNCHANGED <<kind, state, sig>>

(* A turn of its for loop, with wait_lock held: take the mutex, or give up *)
(* on a signal, or sleep.                                                  *)
lock_got_it(t) ==
  /\ count = 1
  /\ goto(t, "done")
  /\ wait_lock' = t
  /\ UNCHANGED <<wait_list, kind, state>>

lock_interrupted_stays(t) ==   \* mutant: no mutex_remove_waiter()
  /\ count # 1
  /\ signal_pending_state(kind[t], sig[t])
  /\ wait_lock' = NoTask
  /\ goto(t, "idle")
  /\ forget_kind(t)
  /\ UNCHANGED <<wait_list, state>>

lock_interrupted(t) ==
  /\ count # 1
  /\ signal_pending_state(kind[t], sig[t])
  /\ wait_list' = list_del(wait_list, t)
  /\ wait_lock' = NoTask
  /\ goto(t, "idle")
  /\ forget_kind(t)
  /\ UNCHANGED state

lock_sleep(t) ==
  /\ count # 1
  /\ ~signal_pending_state(kind[t], sig[t])
  /\ wait_lock' = NoTask
  /\ state' = [state EXCEPT ![t] = kind[t]]
  /\ goto(t, "sched")
  /\ UNCHANGED <<wait_list, kind>>

lock_turn_signal_first(t) ==   \* mutant: looks for a signal before it swaps count
  /\ IF signal_pending_state(kind[t], sig[t])
       THEN /\ wait_list' = list_del(wait_list, t)
            /\ wait_lock' = NoTask
            /\ goto(t, "idle")
            /\ forget_kind(t)
            /\ UNCHANGED <<count, state>>
       ELSE (lock_got_it(t) \/ lock_sleep(t)) /\ count' = -1
  /\ UNCHANGED sig

lock_turn(t) ==
  /\ lock_got_it(t) \/ lock_interrupted(t) \/ lock_sleep(t)
  /\ count' = -1
  /\ UNCHANGED sig

lock_loop(t)   == pc[t] = "loop" /\ lock_turn(t)

(* schedule() has returned, and wait_lock is taken again. *)
lock_resume(t) ==
  /\ pc[t] = "sched"
  /\ state[t] = TASK_RUNNING
  /\ wait_lock = NoTask
  /\ lock_turn(t)

lock_done_unmarks(t) ==   \* mutant: count is set to 0 with waiters on the list
  /\ pc[t] = "done"
  /\ wait_list' = list_del(wait_list, t)
  /\ count' = 0
  /\ wait_lock' = NoTask
  /\ goto(t, "cs")
  /\ forget_kind(t)
  /\ UNCHANGED <<state, sig>>

(* The label done: of __mutex_lock_common(). *)
lock_done(t) ==
  /\ pc[t] = "done"
  /\ wait_list' = list_del(wait_list, t)
  /\ count' = IF wait_list' = <<>> THEN 0 ELSE count
  /\ wait_lock' = NoTask
  /\ goto(t, "cs")
  /\ forget_kind(t)
  /\ UNCHANGED <<state, sig>>

----------------------------------------------------------------------------
(* mutex_unlock(): the mutex is free after the swap, also for the slow     *)
(* path, __mutex_slowpath_needs_to_unlock() being 0.                       *)
__mutex_fastpath_unlock(t) ==
  /\ pc[t] = "cs"
  /\ count' = 1
  /\ goto(t, IF count = 0 THEN "idle" ELSE "unlock")
  /\ UNCHANGED <<wait_lock, wait_list, kind, state, sig>>

__mutex_unlock_no_wake(t) ==   \* mutant: no wake_up_process()
  /\ pc[t] = "unlock"
  /\ wait_lock = NoTask
  /\ goto(t, "idle")
  /\ UNCHANGED <<count, wait_lock, wait_list, kind, state, sig>>

(* The first waiter is woken.  It stays on the list until it has run. *)
__mutex_unlock_slowpath(t) ==
  /\ pc[t] = "unlock"
  /\ wait_lock = NoTask
  /\ state' = IF wait_list # <<>> THEN [state EXCEPT ![Head(wait_list)] = TASK_RUNNING]
                                  ELSE state
  /\ goto(t, "idle")
  /\ UNCHANGED <<count, wait_lock, wait_list, kind, sig>>

(* mutex_trylock(): the swap to 0 may wipe out the mark of a contended     *)
(* lock, which a second swap then puts back.                               *)
mutex_trylock(t) ==
  /\ pc[t] = "idle"
  /\ count' = 0
  /\ \/ count = 1  /\ goto(t, "cs")
     \/ count = 0  /\ UNCHANGED pc
     \/ count = -1 /\ goto(t, "try")
  /\ UNCHANGED <<wait_lock, wait_list, kind, state, sig>>

trylock_restore_blind(t) ==   \* mutant: does not look at what it swapped out
  /\ pc[t] = "try"
  /\ count' = -1
  /\ goto(t, "idle")
  /\ UNCHANGED <<wait_lock, wait_list, kind, state, sig>>

trylock_restore(t) ==
  /\ pc[t] = "try"
  /\ count' = -1
  /\ goto(t, IF count = 1 THEN "cs" ELSE "idle")
  /\ UNCHANGED <<wait_lock, wait_list, kind, state, sig>>

----------------------------------------------------------------------------
(* The environment: signals, and wake-ups that have nothing to do with the *)
(* mutex.  A signal that comes while the task is on its way into its sleep *)
(* ends the sleep too: schedule() looks for one.                           *)
send_signal(t, sg) ==
  /\ sig[t] # SIG_KILL
  /\ sg # sig[t]
  /\ sig' = [sig EXCEPT ![t] = sg]
  /\ state' = IF signal_pending_state(state[t], sg)
                THEN [state EXCEPT ![t] = TASK_RUNNING] ELSE state
  /\ UNCHANGED <<count, wait_lock, wait_list, pc, kind>>

take_signal(t) ==
  /\ pc[t] = "idle"
  /\ sig[t] # SIG_NONE
  /\ sig' = [sig EXCEPT ![t] = SIG_NONE]
  /\ UNCHANGED <<count, wait_lock, wait_list, pc, kind, state>>

stray_wake_up(t) ==
  /\ pc[t] = "sched"
  /\ state[t] # TASK_RUNNING
  /\ state' = [state EXCEPT ![t] = TASK_RUNNING]
  /\ UNCHANGED <<count, wait_lock, wait_list, pc, kind, sig>>

----------------------------------------------------------------------------
(* What a task does of itself once it is in a mutex function. *)
Proceed(t) == \/ lock_slow_enter(t) \/ lock_loop(t) \/ lock_resume(t) \/ lock_done(t)
              \/ __mutex_unlock_slowpath(t) \/ trylock_restore(t)

Next ==
  \E t \in Task :
    \/ mutex_lock(t) \/ mutex_lock_interruptible(t) \/ mutex_lock_killable(t)
    \/ mutex_trylock(t)
    \/ Proceed(t)
    \/ __mutex_fastpath_unlock(t)
    \/ \E sg \in {SIG_OTHER, SIG_KILL} : send_signal(t, sg)
    \/ take_signal(t)
    \/ stray_wake_up(t)

Spec == Init /\ [][Next]_vars

(* A task that can run does, a wait_lock that keeps becoming free is got   *)
(* at last, and the critical section ends.                                 *)
Fairness == \A t \in Task : WF_vars(Proceed(t)) /\ WF_vars(__mutex_fastpath_unlock(t))

FairSpec == Spec /\ Fairness

----------------------------------------------------------------------------
Holders == {t \in Task : pc[t] \in {"cs", "done"}}
Waiters == {t \in Task : pc[t] \in {"loop", "sched", "done"}}

TypeOK ==
  /\ count \in {-1, 0, 1}
  /\ wait_lock \in Task \cup {NoTask}
  /\ wait_list \in Seq(Task)
  /\ pc \in [Task -> Locations]
  /\ kind \in [Task -> SleepStates]
  /\ state \in [Task -> TaskStates]
  /\ sig \in [Task -> Signals]

(* Exactly one task holds a mutex whose count is not 1, and nobody holds   *)
(* one whose count is: the swaps of lock, trylock and unlock hand a single *)
(* token round, whatever their order.                                      *)
MutualExclusion ==
  /\ count = 1 <=> Holders = {}
  /\ \A t, u \in Holders : t = u

(* The list holds, once each, the tasks between their list_add_tail() and  *)
(* their list_del(), those inside wait_lock included.                      *)
ListMatches ==
  /\ \A t \in Task : OnList(wait_list, t) <=> t \in Waiters
  /\ OnceEach(wait_list)
  /\ \A t \in Task : wait_lock = t <=> pc[t] \in {"loop", "done"}

(* While there are waiters something will wake one: the mutex is marked    *)
(* contended, so that its unlock takes the slow path, or a task is on its  *)
(* way to mark it or to wake one, or a waiter is awake already.  The mark  *)
(* is wiped out by every fast path that fails, and a waiter that was woken *)
(* may give up on a signal.                                                *)
NoLostWakeup ==
  wait_list # <<>> =>
    \/ count = -1
    \/ \E t \in Task : pc[t] \in {"slow", "unlock", "try"}
    \/ \E t \in Task : pc[t] \in {"loop", "sched"} /\ state[t] = TASK_RUNNING

(* A free mutex does not stay free while a task waits for it. *)
FreeMutexIsTaken == count = 1 /\ wait_list # <<>> ~> count # 1 \/ wait_list = <<>>

(* Once no more callers come the mutex is got by all that wait for it, one *)
(* after the other, and ends up free and unmarked: the chain of wake-ups   *)
(* does not break.                                                         *)
NobodyCalls == \A t \in Task : pc[t] = "idle" => pc'[t] = "idle"
WaitersDrain == <>[][NobodyCalls]_vars => <>[](count = 1 /\ wait_list = <<>>)

=============================================================================
