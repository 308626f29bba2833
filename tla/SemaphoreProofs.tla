-------------------------- MODULE SemaphoreProofs --------------------------
(***************************************************************************)
(* Proofs about the counting semaphore, for every set of tasks and every   *)
(* initial count.  The type invariant is not inductive by itself: that     *)
(* list_del() yields a list needs the waiter to be on it, which is what    *)
(* WaitersQueued says, so both are proved together.                        *)
(***************************************************************************)
EXTENDS Semaphore, LibProofs, FiniteSetTheorems

(* What the sleep and wake-up part of the semaphore keeps. *)
QInv == TypeOK /\ WaitersQueued

USE DEF Locations, Timeouts, TMO_MAX, TMO_SOME, TMO_ZERO, TaskStates, SleepStates,
        TASK_RUNNING, TASK_INTERRUPTIBLE, TASK_KILLABLE, TASK_UNINTERRUPTIBLE,
        Signals, SIG_NONE, SIG_OTHER, SIG_KILL

(* One turn of the loop of __down_common(), by a task whose waiter is on   *)
(* the list l, keeps the list and the locations in step.                   *)
LEMMA DownLoop ==
  ASSUME NEW t \in Task, NEW l \in Seq(Task), NEW s \in SleepStates, NEW tmo \in Timeouts,
         TypeOK, OnceEach(l), OnList(l, t), ~up[t],
         \A u \in Task : u # t => (pc[u] = "sched" <=> (OnList(l, u) \/ up[u])),
         \A u \in Task : up[u] => ~OnList(l, u) /\ state[u] = TASK_RUNNING,
         down_loop(t, l, s, tmo), UNCHANGED <<count, up, sig, supply>>
  PROVE  QInv'
<1>1. CASE interrupted(t, l, s) \/ timed_out(t, l, s, tmo)
  <2>1. /\ wait_list' = list_del(l, t) /\ state' = state
        /\ pc' = [pc EXCEPT ![t] = "out"]
    BY <1>1 DEF interrupted, timed_out
  <2>2. /\ wait_list' \in Seq(Task) /\ OnceEach(wait_list')
        /\ ~OnList(wait_list', t)
        /\ \A u \in Task : u # t => (OnList(wait_list', u) <=> OnList(l, u))
    BY <2>1, ListDel
  <2>3. TypeOK'
    BY <2>1, <2>2 DEF TypeOK, down_loop
  <2>4. WaitersQueued'
    BY <2>1, <2>2 DEF TypeOK, WaitersQueued
  <2> QED BY <2>3, <2>4 DEF QInv
<1>2. CASE go_to_sleep(t, l, s, tmo)
  <2>1. TypeOK'
    BY <1>2 DEF TypeOK, down_loop, go_to_sleep
  <2>2. WaitersQueued'
    BY <1>2 DEF TypeOK, WaitersQueued, go_to_sleep
  <2> QED BY <2>1, <2>2 DEF QInv
<1> QED BY <1>1, <1>2 DEF down_loop

LEMMA TakeCount ==
  ASSUME QInv, NEW t \in Task, pc[t] = "out", take_count(t)
  PROVE  QInv'
BY DEF QInv, TypeOK, WaitersQueued, take_count

LEMMA DownWith ==
  ASSUME QInv, NEW t \in Task, NEW s \in SleepStates, NEW tmo \in Timeouts,
         down_with(t, s, tmo)
  PROVE  QInv'
<1>1. CASE take_count(t)
  BY <1>1, TakeCount DEF down_with
<1>2. CASE __down_common(t, s, tmo)
  <2>1. pc[t] = "out" /\ ~up[t] /\ ~OnList(wait_list, t) /\ OnceEach(wait_list)
    BY DEF down_with, QInv, WaitersQueued
  <2> DEFINE l == list_add_tail(wait_list, t)
  <2>2. /\ l \in Seq(Task) /\ OnceEach(l) /\ OnList(l, t)
        /\ \A u \in Task : u # t => (OnList(l, u) <=> OnList(wait_list, u))
    BY <2>1, ListAddTail DEF QInv, TypeOK
  <2>3. UNCHANGED <<count, up, sig, supply>> /\ down_loop(t, l, s, tmo)
    BY <1>2, <2>1 DEF __down_common, QInv, TypeOK
  <2> HIDE DEF l
  <2>4. /\ \A u \in Task : u # t => (pc[u] = "sched" <=> (OnList(l, u) \/ up[u]))
        /\ \A u \in Task : up[u] => ~OnList(l, u) /\ state[u] = TASK_RUNNING
    BY <2>1, <2>2 DEF QInv, WaitersQueued
  <2> QED BY <2>1, <2>2, <2>3, <2>4, DownLoop DEF QInv
<1> QED BY <1>1, <1>2 DEF down_with

LEMMA DownStep ==
  ASSUME QInv, NEW t \in Task, Down(t)
  PROVE  QInv'
<1>1. CASE down(t) \/ down_interruptible(t) \/ down_killable(t)
  BY <1>1, DownWith DEF down, down_interruptible, down_killable
<1>2. CASE down_timeout(t)
  BY <1>2, DownWith DEF down_timeout
<1>3. CASE down_trylock(t)
  BY <1>3, TakeCount DEF down_trylock
<1> QED BY <1>1, <1>2, <1>3 DEF Down

LEMMA DownResume ==
  ASSUME QInv, NEW t \in Task, down_resume(t)
  PROVE  QInv'
<1>1. PICK tmo \in remaining(t) : wakes_with_permit(t) \/ wakes_without_permit(t, tmo)
  BY DEF down_resume
<1>2. tmo \in Timeouts
  BY DEF remaining, QInv, TypeOK
<1>3. CASE wakes_with_permit(t)
  BY <1>3 DEF wakes_with_permit, down_resume, QInv, TypeOK, WaitersQueued
<1>4. CASE wakes_without_permit(t, tmo)
  <2>1. /\ ~up[t] /\ pc[t] = "sched" /\ OnList(wait_list, t)
        /\ down_loop(t, wait_list, kind[t], tmo) /\ UNCHANGED <<count, up, sig, supply>>
    BY <1>4 DEF wakes_without_permit, down_resume, QInv, WaitersQueued
  <2> QED BY <1>2, <2>1, DownLoop DEF QInv, TypeOK, WaitersQueued
<1> QED BY <1>1, <1>3, <1>4

(* The part of up() that up_holder and up_stranger share, when there is a  *)
(* waiter.                                                                 *)
LEMMA UpWaiter ==
  ASSUME QInv, wait_list # <<>>, __up(Head(wait_list))
  PROVE  /\ Head(wait_list) \in Task /\ OnList(wait_list, Head(wait_list))
         /\ pc[Head(wait_list)] = "sched" /\ ~up[Head(wait_list)]
         /\ wait_list' \in Seq(Task) /\ OnceEach(wait_list')
         /\ up' = [up EXCEPT ![Head(wait_list)] = TRUE]
         /\ up' \in [Task -> BOOLEAN] /\ state' \in [Task -> TaskStates]
         /\ \A u \in Task : up'[u] => ~OnList(wait_list', u) /\ state'[u] = TASK_RUNNING
         /\ \A u \in Task : (OnList(wait_list', u) \/ up'[u]) <=> (OnList(wait_list, u) \/ up[u])
<1> DEFINE h == Head(wait_list)
<1>1. /\ h \in Task /\ OnList(wait_list, h)
      /\ wait_list' \in Seq(Task) /\ OnceEach(wait_list')
      /\ ~OnList(wait_list', h)
      /\ \A u \in Task : u # h => (OnList(wait_list', u) <=> OnList(wait_list, u))
  BY ListDelFirst DEF QInv, TypeOK, WaitersQueued, __up
<1> HIDE DEF h
<1>2. /\ up' = [up EXCEPT ![h] = TRUE]
      /\ state' = [state EXCEPT ![h] = TASK_RUNNING]
  BY DEF __up, h
<1> QED BY <1>1, <1>2 DEF QInv, TypeOK, WaitersQueued, h

LEMMA UpCommon ==
  ASSUME QInv, up_common
  PROVE  /\ count' \in Nat /\ wait_list' \in Seq(Task) /\ OnceEach(wait_list')
         /\ up' \in [Task -> BOOLEAN] /\ state' \in [Task -> TaskStates]
         /\ \A u \in Task : up'[u] => ~OnList(wait_list', u) /\ state'[u] = TASK_RUNNING
         /\ \A u \in Task : (OnList(wait_list', u) \/ up'[u]) <=> (OnList(wait_list, u) \/ up[u])
<1>1. CASE wait_list = <<>>
  BY <1>1 DEF up_common, QInv, TypeOK, WaitersQueued
<1>2. CASE wait_list # <<>>
  <2>1. __up(Head(wait_list)) /\ count' = count
    BY <1>2 DEF up_common, __up
  <2> QED BY <1>2, <2>1, UpWaiter DEF QInv, TypeOK
<1> QED BY <1>1, <1>2

LEMMA EnvironmentStep ==
  ASSUME QInv, NEW t \in Task, Environment(t)
  PROVE  QInv'
<1>1. CASE process_timeout(t)
  BY <1>1 DEF process_timeout, QInv, TypeOK, WaitersQueued
<1>2. ASSUME NEW sg \in {SIG_OTHER, SIG_KILL}, send_signal(t, sg) PROVE QInv'
  BY <1>2 DEF send_signal, QInv, TypeOK, WaitersQueued
<1>3. CASE take_signal(t)
  BY <1>3 DEF take_signal, QInv, TypeOK, WaitersQueued
<1>4. CASE stray_wake_up(t)
  BY <1>4 DEF stray_wake_up, QInv, TypeOK, WaitersQueued
<1> QED BY <1>1, <1>2, <1>3, <1>4 DEF Environment

LEMMA QInvStep == QInv /\ [Next]_vars => QInv'
<1> SUFFICES ASSUME QInv, [Next]_vars PROVE QInv'
  OBVIOUS
<1>1. ASSUME NEW t \in Task, Down(t) PROVE QInv'
  BY <1>1, DownStep
<1>2. ASSUME NEW t \in Task, down_resume(t) PROVE QInv'
  BY <1>2, DownResume
<1>3. ASSUME NEW t \in Task, up_holder(t) PROVE QInv'
  <2>1. up_common /\ pc' = [pc EXCEPT ![t] = "out"] /\ pc[t] = "in"
    BY <1>3 DEF up_holder
  <2> QED BY <1>3, <2>1, UpCommon DEF up_holder, QInv, TypeOK, WaitersQueued
<1>4. ASSUME NEW t \in Task, Environment(t) PROVE QInv'
  BY <1>4, EnvironmentStep
<1>5. CASE up_stranger
  <2>1. up_common
    BY <1>5 DEF up_stranger
  <2> QED BY <1>5, <2>1, UpCommon DEF up_stranger, QInv, TypeOK, WaitersQueued
<1>6. CASE UNCHANGED vars
  BY <1>6 DEF vars, QInv, TypeOK, WaitersQueued
<1> QED BY <1>1, <1>2, <1>3, <1>4, <1>5, <1>6 DEF Next

(* A task sleeps in a down function exactly when its waiter is on the list *)
(* or an up() has served it, the list holds nobody twice, and all          *)
(* variables have their types.                                             *)
THEOREM QueueCorrect == Spec => [](TypeOK /\ WaitersQueued)
<1>1. Init => QInv
  BY InitAssumption DEF Init, QInv, TypeOK, WaitersQueued, OnList, OnceEach
<1>2. QED BY <1>1, QInvStep, PTL DEF Spec, QInv

----------------------------------------------------------------------------
(* The accounts of the semaphore: permits and who may take one. *)
Account == QInv /\ NoBarging /\ PermitsConserved

LEMMA PermittedFinite == IsFiniteSet(Permitted) /\ Cardinality(Permitted) \in Nat
BY TaskAssumption, FS_Subset, FS_CardinalityType DEF Permitted

LEMMA PermitGained ==
  ASSUME NEW t, t \notin Permitted, Permitted' = Permitted \cup {t}
  PROVE  Cardinality(Permitted') = Cardinality(Permitted) + 1
BY PermittedFinite, FS_AddElement

LEMMA PermitReturned ==
  ASSUME NEW t \in Permitted, Permitted' = Permitted \ {t}
  PROVE  Cardinality(Permitted') = Cardinality(Permitted) - 1
BY PermittedFinite, FS_RemoveElement

LEMMA PermitPassed ==
  ASSUME NEW t \in Permitted, NEW h, h \notin Permitted,
         Permitted' = (Permitted \ {t}) \cup {h}
  PROVE  Cardinality(Permitted') = Cardinality(Permitted)
<1> DEFINE R == Permitted \ {t}
<1>1. IsFiniteSet(R) /\ Cardinality(R) = Cardinality(Permitted) - 1
  BY PermittedFinite, FS_RemoveElement
<1>2. Cardinality(R \cup {h}) = Cardinality(R) + 1
  BY <1>1, FS_AddElement
<1> QED BY <1>1, <1>2, PermittedFinite

LEMMA TakeCountAccount ==
  ASSUME Account, NEW t \in Task, pc[t] = "out", take_count(t)
  PROVE  NoBarging' /\ PermitsConserved'
<1>1. t \notin Permitted /\ Permitted' = Permitted \cup {t}
  BY DEF take_count, Permitted, Account, QInv, TypeOK, WaitersQueued
<1>2. PermitsConserved'
  <2>1. Cardinality(Permitted') = Cardinality(Permitted) + 1
    BY <1>1, PermitGained
  <2> QED BY <2>1, PermittedFinite DEF take_count, PermitsConserved, Account, QInv, TypeOK
<1>3. NoBarging'
  BY DEF take_count, NoBarging, Account
<1> QED BY <1>2, <1>3

(* A turn of the loop moves no permit, and leaves a list where count is 0. *)
LEMMA DownLoopAccount ==
  ASSUME Account, NEW t \in Task, pc[t] # "in", ~up[t], NEW l, NEW s, NEW tmo,
         down_loop(t, l, s, tmo), UNCHANGED <<count, up, supply>>
  PROVE  PermitsConserved'
<1>1. pc' = [pc EXCEPT ![t] = "out"] \/ pc' = [pc EXCEPT ![t] = "sched"]
  BY DEF down_loop, interrupted, timed_out, go_to_sleep
<1>2. Permitted' = Permitted
  BY <1>1 DEF Permitted, Account, QInv, TypeOK
<1> QED BY <1>2 DEF PermitsConserved, Account

LEMMA DownWithAccount ==
  ASSUME Account, NEW t \in Task, NEW s \in SleepStates, NEW tmo \in Timeouts,
         down_with(t, s, tmo)
  PROVE  NoBarging' /\ PermitsConserved'
<1>1. CASE take_count(t)
  BY <1>1, TakeCountAccount DEF down_with
<1>2. CASE __down_common(t, s, tmo)
  <2>1. pc[t] = "out" /\ ~up[t] /\ count = 0 /\ UNCHANGED <<count, up, supply>>
    BY <1>2 DEF down_with, __down_common, Account, QInv, TypeOK, WaitersQueued
  <2>2. PermitsConserved'
    BY <1>2, <2>1, DownLoopAccount DEF __down_common
  <2> QED BY <2>1, <2>2 DEF NoBarging
<1> QED BY <1>1, <1>2 DEF down_with

LEMMA DownResumeAccount ==
  ASSUME Account, NEW t \in Task, down_resume(t)
  PROVE  NoBarging' /\ PermitsConserved'
<1>1. PICK tmo \in remaining(t) : wakes_with_permit(t) \/ wakes_without_permit(t, tmo)
  BY DEF down_resume
<1>2. CASE wakes_with_permit(t)
  <2>1. Permitted' = Permitted
    BY <1>2 DEF wakes_with_permit, Permitted, Account, QInv, TypeOK
  <2> QED BY <1>2, <2>1 DEF wakes_with_permit, down_resume, NoBarging, PermitsConserved, Account
<1>3. CASE wakes_without_permit(t, tmo)
  <2>1. /\ ~up[t] /\ pc[t] = "sched" /\ OnList(wait_list, t)
        /\ UNCHANGED <<count, up, supply>>
        /\ down_loop(t, wait_list, kind[t], tmo)
    BY <1>3 DEF wakes_without_permit, down_resume, Account, QInv, WaitersQueued
  <2>2. count' = 0
    BY <2>1 DEF OnList, Account, NoBarging
  <2> QED BY <2>1, <2>2, DownLoopAccount DEF NoBarging
<1> QED BY <1>1, <1>2, <1>3

LEMMA UpHolderAccount ==
  ASSUME Account, NEW t \in Task, up_holder(t)
  PROVE  NoBarging' /\ PermitsConserved'
<1>1. t \in Permitted /\ ~up[t] /\ pc' = [pc EXCEPT ![t] = "out"] /\ supply' = supply /\ up_common
  BY DEF up_holder, Permitted, Account, QInv, WaitersQueued
<1>2. CASE wait_list = <<>>
  <2>1. count' = count + 1 /\ UNCHANGED <<wait_list, up>>
    BY <1>1, <1>2 DEF up_common
  <2>2. Permitted' = Permitted \ {t}
    BY <1>1, <2>1 DEF Permitted, Account, QInv, TypeOK
  <2>3. PermitsConserved'
    <3>1. Cardinality(Permitted') = Cardinality(Permitted) - 1
      BY <1>1, <2>2, PermitReturned
    <3> QED BY <1>1, <2>1, <3>1, PermittedFinite DEF PermitsConserved, Account, QInv, TypeOK
  <2> QED BY <1>2, <2>1, <2>3 DEF NoBarging
<1>3. CASE wait_list # <<>>
  <2> DEFINE h == Head(wait_list)
  <2>1. __up(h) /\ count' = count
    BY <1>1, <1>3 DEF up_common, __up
  <2>2. h \in Task /\ pc[h] = "sched" /\ ~up[h] /\ up' = [up EXCEPT ![h] = TRUE]
    BY <1>3, <2>1, UpWaiter DEF Account
  <2> HIDE DEF h
  <2>3. h \notin Permitted /\ Permitted' = (Permitted \ {t}) \cup {h}
    BY <1>1, <2>2 DEF Permitted, Account, QInv, TypeOK
  <2>4. PermitsConserved'
    BY <1>1, <2>1, <2>3, PermitPassed DEF PermitsConserved, Account
  <2> QED BY <1>3, <2>1, <2>4 DEF NoBarging, Account
<1> QED BY <1>2, <1>3

LEMMA UpStrangerAccount ==
  ASSUME Account, up_stranger
  PROVE  NoBarging' /\ PermitsConserved'
<1>1. pc' = pc /\ supply' = supply + 1 /\ up_common
  BY DEF up_stranger
<1>2. CASE wait_list = <<>>
  <2>1. count' = count + 1 /\ UNCHANGED <<wait_list, up>>
    BY <1>1, <1>2 DEF up_common
  <2>2. Permitted' = Permitted
    BY <1>1, <2>1 DEF Permitted
  <2> QED BY <1>1, <1>2, <2>1, <2>2, PermittedFinite DEF NoBarging, PermitsConserved, Account, QInv, TypeOK
<1>3. CASE wait_list # <<>>
  <2> DEFINE h == Head(wait_list)
  <2>1. __up(h) /\ count' = count
    BY <1>1, <1>3 DEF up_common, __up
  <2>2. h \in Task /\ pc[h] = "sched" /\ ~up[h] /\ up' = [up EXCEPT ![h] = TRUE]
    BY <1>3, <2>1, UpWaiter DEF Account
  <2> HIDE DEF h
  <2>3. h \notin Permitted /\ Permitted' = Permitted \cup {h}
    BY <1>1, <2>2 DEF Permitted, Account, QInv, TypeOK
  <2>4. PermitsConserved'
    <3>1. Cardinality(Permitted') = Cardinality(Permitted) + 1
      BY <2>3, PermitGained
    <3> QED BY <1>1, <2>1, <3>1, PermittedFinite DEF PermitsConserved, Account, QInv, TypeOK
  <2> QED BY <1>3, <2>1, <2>4 DEF NoBarging, Account
<1> QED BY <1>2, <1>3

LEMMA AccountStep == Account /\ [Next]_vars => Account'
<1> SUFFICES ASSUME Account, [Next]_vars PROVE NoBarging' /\ PermitsConserved'
  BY QInvStep DEF Account
<1>1. ASSUME NEW t \in Task, Down(t) PROVE NoBarging' /\ PermitsConserved'
  BY <1>1, DownWithAccount, TakeCountAccount
     DEF Down, down, down_interruptible, down_killable, down_timeout, down_trylock
<1>2. ASSUME NEW t \in Task, down_resume(t) PROVE NoBarging' /\ PermitsConserved'
  BY <1>2, DownResumeAccount
<1>3. ASSUME NEW t \in Task, up_holder(t) PROVE NoBarging' /\ PermitsConserved'
  BY <1>3, UpHolderAccount
<1>4. CASE up_stranger
  BY <1>4, UpStrangerAccount
<1>5. ASSUME UNCHANGED <<count, wait_list, up, pc, supply>>
      PROVE  NoBarging' /\ PermitsConserved'
  BY <1>5 DEF NoBarging, PermitsConserved, Permitted, Account
<1>6. ASSUME NEW t \in Task, Environment(t) PROVE NoBarging' /\ PermitsConserved'
  BY <1>5, <1>6 DEF Environment, process_timeout, send_signal, take_signal, stray_wake_up
<1>7. CASE UNCHANGED vars
  BY <1>5, <1>7 DEF vars
<1> QED BY <1>1, <1>2, <1>3, <1>4, <1>6, <1>7 DEF Next

LEMMA AccountInvariant == Spec => []Account
<1>1. Init => Account
  <2> SUFFICES ASSUME Init PROVE Account
    OBVIOUS
  <2>1. QInv
    BY InitAssumption DEF Init, QInv, TypeOK, WaitersQueued, OnList, OnceEach
  <2>2. Permitted = {}
    BY DEF Init, Permitted
  <2> QED BY <2>1, <2>2, FS_EmptySet, InitAssumption DEF Account, NoBarging, PermitsConserved, Init
<1> QED BY <1>1, AccountStep, PTL DEF Spec

(* The permits that are free and the permits that are with a task always   *)
(* add up to those in circulation, for any number of tasks: no race of     *)
(* up(), timeout and signal in __down_common() loses or makes up a permit. *)
THEOREM PermitsAreConserved == Spec => []PermitsConserved
BY AccountInvariant, PTL DEF Account

(* There is no free permit while a task waits, so nobody overtakes it.     *)
THEOREM NobodyBarges == Spec => []NoBarging
BY AccountInvariant, PTL DEF Account

(* Only the first waiter of the list is ever handed a permit.              *)
THEOREM ServedInOrder == Spec => FirstComeFirstServed
<1> DEFINE Served == \A t \in Task : up'[t] /\ ~up[t] => wait_list # <<>> /\ t = wait_list[1]
<1>1. ASSUME QInv, [Next]_vars PROVE Served
  <2>1. ASSUME up_common PROVE Served
    <3>1. CASE wait_list = <<>>
      BY <2>1, <3>1 DEF up_common
    <3>2. CASE wait_list # <<>>
      <4>1. __up(Head(wait_list))
        BY <2>1, <3>2 DEF up_common
      <4>2. up' = [up EXCEPT ![wait_list[1]] = TRUE]
        BY <3>2, <4>1, <1>1 DEF __up, QInv, TypeOK
      <4> QED BY <1>1, <3>2, <4>2 DEF QInv, TypeOK
    <3> QED BY <3>1, <3>2
  <2>2. ASSUME NEW t \in Task, up' = [up EXCEPT ![t] = FALSE] \/ up' = up PROVE Served
    BY <1>1, <2>2 DEF QInv, TypeOK
  <2>3. ASSUME NEW t \in Task, Down(t) \/ down_resume(t) \/ Environment(t) PROVE Served
    <3>1. CASE Down(t)
      BY <2>2, <3>1 DEF Down, down, down_interruptible, down_killable, down_timeout,
                        down_trylock, down_with, take_count, __down_common
    <3>2. CASE down_resume(t)
      BY <2>2, <3>2 DEF down_resume, wakes_with_permit, wakes_without_permit
    <3>3. CASE Environment(t)
      BY <2>2, <3>3 DEF Environment, process_timeout, send_signal, take_signal, stray_wake_up
    <3> QED BY <2>3, <3>1, <3>2, <3>3
  <2>4. CASE UNCHANGED vars
    BY <2>4 DEF vars
  <2> QED BY <1>1, <2>1, <2>3, <2>4 DEF Next, up_holder, up_stranger
<1>2. QInv /\ [Next]_vars => [Served]_vars
  BY <1>1
<1>3. Spec => []QInv
  BY QueueCorrect, PTL DEF QInv
<1> QED BY <1>2, <1>3, PTL DEF Spec, FirstComeFirstServed

=============================================================================
