---------------------------- MODULE MutexProofs ----------------------------
(***************************************************************************)
(* Proofs about the mutex, for every set of tasks.  Mutual exclusion rests *)
(* on the swaps alone; that no wake-up is lost rests on the list and       *)
(* wait_lock as well, so the invariants are proved in one induction.       *)
(***************************************************************************)
EXTENDS Mutex, LibProofs

MInv == TypeOK /\ ListMatches /\ MutualExclusion /\ NoLostWakeup

USE DEF Locations, TaskStates, SleepStates,
        TASK_RUNNING, TASK_INTERRUPTIBLE, TASK_KILLABLE, TASK_UNINTERRUPTIBLE,
        Signals, SIG_NONE, SIG_OTHER, SIG_KILL

LEMMA InitMInv == Init => MInv
BY TaskAssumption DEF Init, MInv, TypeOK, ListMatches, MutualExclusion, NoLostWakeup, Holders,
                      Waiters, OnList, OnceEach

(* The fast paths of lock and trylock, and the second swap of trylock: the *)
(* list and wait_lock are not touched.                                     *)
LEMMA FastLock ==
  ASSUME MInv, NEW t \in Task, NEW s \in SleepStates, __mutex_fastpath_lock(t, s)
  PROVE  MInv'
<1>1. TypeOK'
  BY DEF MInv, TypeOK, __mutex_fastpath_lock, goto
<1>2. ListMatches'
  BY DEF MInv, TypeOK, __mutex_fastpath_lock, goto, ListMatches, Waiters
<1>3. MutualExclusion'
  BY DEF MInv, TypeOK, __mutex_fastpath_lock, goto, MutualExclusion, Holders
<1>4. NoLostWakeup'
  BY DEF MInv, TypeOK, __mutex_fastpath_lock, goto, NoLostWakeup
<1> QED BY <1>1, <1>2, <1>3, <1>4 DEF MInv

LEMMA TryLock ==
  ASSUME MInv, NEW t \in Task, mutex_trylock(t) \/ trylock_restore(t)
  PROVE  MInv'
<1>1. TypeOK'
  BY DEF MInv, TypeOK, mutex_trylock, trylock_restore, goto
<1>2. ListMatches'
  BY DEF MInv, TypeOK, mutex_trylock, trylock_restore, goto, ListMatches, Waiters
<1>3. MutualExclusion'
  BY DEF MInv, TypeOK, mutex_trylock, trylock_restore, goto, MutualExclusion, Holders
<1>4. NoLostWakeup'
  BY DEF MInv, TypeOK, mutex_trylock, trylock_restore, goto, NoLostWakeup
<1> QED BY <1>1, <1>2, <1>3, <1>4 DEF MInv

LEMMA Unlock ==
  ASSUME MInv, NEW t \in Task, __mutex_fastpath_unlock(t)
  PROVE  MInv'
<1>1. TypeOK'
  BY DEF MInv, TypeOK, __mutex_fastpath_unlock, goto
<1>2. ListMatches'
  BY DEF MInv, TypeOK, __mutex_fastpath_unlock, goto, ListMatches, Waiters
<1>3. MutualExclusion'
  BY DEF MInv, TypeOK, __mutex_fastpath_unlock, goto, MutualExclusion, Holders
<1>4. NoLostWakeup'
  BY DEF MInv, TypeOK, __mutex_fastpath_unlock, goto, NoLostWakeup
<1> QED BY <1>1, <1>2, <1>3, <1>4 DEF MInv

(* The first waiter is asleep in schedule() when wait_lock is free, and is *)
(* awake afterwards.                                                       *)
LEMMA UnlockSlow ==
  ASSUME MInv, NEW t \in Task, __mutex_unlock_slowpath(t)
  PROVE  MInv'
<1> DEFINE h == Head(wait_list)
<1>1. CASE wait_list = <<>>
  BY <1>1 DEF MInv, TypeOK, ListMatches, MutualExclusion, NoLostWakeup, Holders, Waiters,
              __mutex_unlock_slowpath, goto
<1>2. CASE wait_list # <<>>
  <2>1. h \in Task /\ OnList(wait_list, h)
    BY <1>2, ListDelFirst DEF MInv, TypeOK, ListMatches
  <2> HIDE DEF h
  <2>2. pc[h] = "sched"
    BY <2>1, TaskAssumption DEF MInv, TypeOK, ListMatches, Waiters, __mutex_unlock_slowpath
  <2>3. state' = [state EXCEPT ![h] = TASK_RUNNING]
    BY <1>2 DEF __mutex_unlock_slowpath, h
  <2>4. TypeOK'
    BY <2>1, <2>3 DEF MInv, TypeOK, __mutex_unlock_slowpath, goto
  <2>5. ListMatches'
    BY DEF MInv, TypeOK, __mutex_unlock_slowpath, goto, ListMatches, Waiters
  <2>6. MutualExclusion'
    BY DEF MInv, TypeOK, __mutex_unlock_slowpath, goto, MutualExclusion, Holders
  <2>7. NoLostWakeup'
    <3>1. pc'[h] = "sched" /\ state'[h] = TASK_RUNNING
      BY <2>1, <2>2, <2>3 DEF MInv, TypeOK, __mutex_unlock_slowpath, goto
    <3> QED BY <2>1, <3>1 DEF NoLostWakeup
  <2> QED BY <2>4, <2>5, <2>6, <2>7 DEF MInv
<1> QED BY <1>1, <1>2

LEMMA SlowEnter ==
  ASSUME MInv, NEW t \in Task, lock_slow_enter(t)
  PROVE  MInv'
<1>1. /\ wait_list' \in Seq(Task) /\ OnceEach(wait_list') /\ OnList(wait_list', t)
      /\ \A u \in Task : u # t => (OnList(wait_list', u) <=> OnList(wait_list, u))
  <2>1. ~OnList(wait_list, t)
    BY DEF MInv, ListMatches, Waiters, lock_slow_enter
  <2> QED BY <2>1, ListAddTail DEF MInv, TypeOK, ListMatches, lock_slow_enter
<1>2. TypeOK'
  BY <1>1 DEF MInv, TypeOK, lock_slow_enter, goto
<1>3. ListMatches'
  BY <1>1, TaskAssumption DEF MInv, TypeOK, lock_slow_enter, goto, ListMatches, Waiters
<1>4. MutualExclusion'
  BY DEF MInv, TypeOK, lock_slow_enter, goto, MutualExclusion, Holders
<1>5. NoLostWakeup'
  BY DEF NoLostWakeup, lock_slow_enter
<1> QED BY <1>2, <1>3, <1>4, <1>5 DEF MInv

LEMMA LockTurn ==
  ASSUME MInv, NEW t \in Task, pc[t] \in {"loop", "sched"},
         wait_lock \in {t, NoTask}, lock_turn(t)
  PROVE  MInv'
<1>1. NoLostWakeup'
  BY DEF NoLostWakeup, lock_turn
<1>2. OnList(wait_list, t) /\ (\A u \in Task : u # t => pc[u] \notin {"loop", "done"})
  BY TaskAssumption DEF MInv, ListMatches, Waiters
<1>3. CASE lock_got_it(t)
  <2>1. TypeOK'
    BY <1>3 DEF MInv, TypeOK, lock_turn, lock_got_it, goto
  <2>2. ListMatches'
    BY <1>2, <1>3, TaskAssumption DEF MInv, TypeOK, lock_turn, lock_got_it, goto, ListMatches, Waiters
  <2>3. MutualExclusion'
    BY <1>3 DEF MInv, TypeOK, lock_turn, lock_got_it, goto, MutualExclusion, Holders
  <2> QED BY <1>1, <2>1, <2>2, <2>3 DEF MInv
<1>4. CASE lock_interrupted(t)
  <2>1. /\ wait_list' \in Seq(Task) /\ OnceEach(wait_list') /\ ~OnList(wait_list', t)
        /\ \A u \in Task : u # t => (OnList(wait_list', u) <=> OnList(wait_list, u))
    BY <1>2, <1>4, ListDel DEF MInv, TypeOK, ListMatches, lock_interrupted
  <2>2. TypeOK'
    BY <1>4, <2>1 DEF MInv, TypeOK, lock_turn, lock_interrupted, goto, forget_kind
  <2>3. ListMatches'
    BY <1>2, <1>4, <2>1, TaskAssumption
       DEF MInv, TypeOK, lock_interrupted, goto, ListMatches, Waiters
  <2>4. MutualExclusion'
    BY <1>4 DEF MInv, TypeOK, lock_turn, lock_interrupted, goto, MutualExclusion, Holders
  <2> QED BY <1>1, <2>2, <2>3, <2>4 DEF MInv
<1>5. CASE lock_sleep(t)
  <2>1. TypeOK'
    BY <1>5 DEF MInv, TypeOK, lock_turn, lock_sleep, goto
  <2>2. ListMatches'
    BY <1>2, <1>5, TaskAssumption DEF MInv, TypeOK, lock_sleep, goto, ListMatches, Waiters
  <2>3. MutualExclusion'
    BY <1>5 DEF MInv, TypeOK, lock_turn, lock_sleep, goto, MutualExclusion, Holders
  <2> QED BY <1>1, <2>1, <2>2, <2>3 DEF MInv
<1> QED BY <1>3, <1>4, <1>5 DEF lock_turn

LEMMA LockDone ==
  ASSUME MInv, NEW t \in Task, lock_done(t)
  PROVE  MInv'
<1>1. /\ wait_list' \in Seq(Task) /\ OnceEach(wait_list') /\ ~OnList(wait_list', t)
      /\ \A u \in Task : u # t => (OnList(wait_list', u) <=> OnList(wait_list, u))
  <2>1. OnList(wait_list, t)
    BY DEF MInv, ListMatches, Waiters, lock_done
  <2> QED BY <2>1, ListDel DEF MInv, TypeOK, ListMatches, lock_done
<1>2. count # 1 /\ count' # 1
  BY DEF MInv, MutualExclusion, Holders, lock_done
<1>3. TypeOK'
  BY <1>1 DEF MInv, TypeOK, lock_done, goto, forget_kind
<1>4. ListMatches'
  BY <1>1, TaskAssumption DEF MInv, TypeOK, lock_done, goto, ListMatches, Waiters
<1>5. MutualExclusion'
  BY <1>2 DEF MInv, TypeOK, lock_done, goto, MutualExclusion, Holders
<1>6. NoLostWakeup'
  <2> SUFFICES ASSUME wait_list' # <<>>
               PROVE  \/ count' = -1
                      \/ \E u \in Task : pc'[u] \in {"slow", "unlock", "try"}
                      \/ \E u \in Task : pc'[u] \in {"loop", "sched"} /\ state'[u] = TASK_RUNNING
    BY DEF NoLostWakeup
  <2>1. wait_list # <<>> /\ count' = count /\ pc[t] = "done" /\ state' = state
    BY DEF lock_done, MInv, ListMatches, Waiters, OnList
  <2> QED BY <2>1 DEF MInv, TypeOK, lock_done, goto, NoLostWakeup
<1> QED BY <1>3, <1>4, <1>5, <1>6 DEF MInv

LEMMA Wakeups ==
  ASSUME MInv, NEW t \in Task,
         \/ \E sg \in {SIG_OTHER, SIG_KILL} : send_signal(t, sg)
         \/ take_signal(t)
         \/ stray_wake_up(t)
  PROVE  MInv'
<1>1. /\ UNCHANGED <<count, wait_lock, wait_list, pc, kind>>
      /\ state' = state \/ state' = [state EXCEPT ![t] = TASK_RUNNING]
      /\ sig' \in [Task -> Signals]
  BY DEF MInv, TypeOK, send_signal, take_signal, stray_wake_up
<1>2. TypeOK'
  BY <1>1 DEF MInv, TypeOK
<1>3. ListMatches' /\ MutualExclusion'
  BY <1>1 DEF MInv, ListMatches, Waiters, MutualExclusion, Holders
<1>4. NoLostWakeup'
  BY <1>1 DEF MInv, TypeOK, NoLostWakeup
<1> QED BY <1>2, <1>3, <1>4 DEF MInv

LEMMA MInvStep == MInv /\ [Next]_vars => MInv'
<1> SUFFICES ASSUME MInv, [Next]_vars PROVE MInv'
  OBVIOUS
<1>1. ASSUME NEW t \in Task,
             mutex_lock(t) \/ mutex_lock_interruptible(t) \/ mutex_lock_killable(t)
      PROVE  MInv'
  BY <1>1, FastLock DEF mutex_lock, mutex_lock_interruptible, mutex_lock_killable
<1>2. ASSUME NEW t \in Task, Proceed(t) PROVE MInv'
  <2>1. CASE lock_loop(t) \/ lock_resume(t)
    <3>1. pc[t] \in {"loop", "sched"} /\ wait_lock \in {t, NoTask} /\ lock_turn(t)
      BY <2>1 DEF lock_loop, lock_resume, MInv, ListMatches
    <3> QED BY <3>1, LockTurn
  <2> QED BY <1>2, <2>1, SlowEnter, LockDone, UnlockSlow, TryLock DEF Proceed
<1>3. CASE UNCHANGED vars
  BY <1>3 DEF vars, MInv, TypeOK, ListMatches, MutualExclusion, NoLostWakeup, Holders, Waiters
<1> QED BY <1>1, <1>2, <1>3, TryLock, Unlock, Wakeups DEF Next

LEMMA MInvInvariant == Spec => []MInv
BY InitMInv, MInvStep, PTL DEF Spec

(* All variables keep their types, and wait_list holds exactly the tasks   *)
(* that are between their list_add_tail() and their list_del(), once each. *)
THEOREM ListCorrect == Spec => [](TypeOK /\ ListMatches)
BY MInvInvariant, PTL DEF MInv

(* No two tasks hold the mutex, and count says whether one does, for any   *)
(* number of tasks and any interleaving of fast and slow paths.            *)
THEOREM MutexExcludes == Spec => []MutualExclusion
BY MInvInvariant, PTL DEF MInv

(* The contended mark that failing fast paths wipe out is always put back  *)
(* or made up for: no state has sleepers and nothing that will wake one.   *)
THEOREM WakeupsAreKept == Spec => []NoLostWakeup
BY MInvInvariant, PTL DEF MInv

=============================================================================
