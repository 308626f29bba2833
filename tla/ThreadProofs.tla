--------------------------- MODULE ThreadProofs ----------------------------
(***************************************************************************)
(* Proofs about kernel/kthread.c and kernel/async.c.  First about kernel   *)
(* threads, for every set of callers.  What the two properties say is not  *)
(* inductive: the location of a thread must be known from the location of  *)
(* its caller, and what a thread has done so far from its own.  Then about *)
(* kthread workers, and about asynchronous function calls.                 *)
(***************************************************************************)
EXTENDS Kthread, KthreadWorker, Async, LibProofs

(* The caller has a request that is not answered. *)
Asking(c) == cpc[c] \in {"kick", "wait"} /\ ~created[c] /\ ~result[c]

(* The request is in one place at a time, the list, kthreadd or the new    *)
(* thread, and its caller waits.                                           *)
RequestInv ==
  /\ OnceEach(create_list)
  /\ \A c \in Caller :
       /\ OnList(create_list, c) => Asking(c) /\ tpc[c] = "none" /\ create # c
       /\ create = c => Asking(c) /\ tpc[c] = "none"
       /\ tpc[c] \in {"born", "tell"} => Asking(c)

(* The caller has a thread and is not yet back from kthread_stop(). *)
Owns(c) == cpc[c] \in {"have", "alive?", "stop", "wake", "join", "code"}

(* Where the thread is when the caller has been answered: parked until the *)
(* caller starts or stops it, and at its end when kthread_stop() is.       *)
PlaceInv ==
  \A c \in Caller :
    /\ cpc[c] \in {"kick", "wait"} =>
         /\ ~started[c] /\ ~called[c]
         /\ ~created[c] => ~result[c] /\ tpc[c] \in {"none", "born", "tell"}
         /\ created[c] => tpc[c] = IF result[c] THEN "parked" ELSE "none"
    /\ Owns(c) => tpc[c] \notin {"born", "tell"}
    /\ cpc[c] \in {"idle", "code"} => tpc[c] \in {"none", "last"}

(* What the thread has done. *)
LifeInv ==
  \A c \in Caller :
    /\ vfork_done[c] <=> (tpc[c] \in {"tell", "parked", "exit"} \cup InFunction)
    /\ exited[c] => tpc[c] \in {"none", "born"}
    /\ called[c] => started[c]
    /\ tpc[c] \in {"born", "tell", "parked"} => ~called[c]
    /\ tpc[c] \in InFunction => called[c]
    /\ tpc[c] \in {"tell", "parked"} /\ ~started[c] /\ ~should_stop[c]
         => tstate[c] # TASK_RUNNING
    /\ tpc[c] \in {"tell", "parked"} /\ cpc[c] \in {"kick", "wait"} => ~should_stop[c]
    /\ cpc[c] = "wake" => should_stop[c]
    /\ (Owns(c) /\ tpc[c] = "none") \/ tpc[c] \in {"exit", "last"}
         => exit_code[c] = IF called[c] THEN "ret" ELSE "EINTR"

KInv == TypeOK /\ RequestInv /\ PlaceInv /\ LifeInv

USE DEF CallerLocations, DaemonLocations, ThreadLocations, InFunction, ExitCodes, Asking, Owns,
        TaskStates, SleepStates, TASK_RUNNING, TASK_INTERRUPTIBLE, TASK_KILLABLE,
        TASK_UNINTERRUPTIBLE

(* The steps of a caller that do not touch the list. *)
LEMMA CallerStep ==
  ASSUME KInv, NEW c \in Caller,
         \/ create_kick(c) \/ create_return(c) \/ start(c)
         \/ kthread_stop(c) \/ stop_look(c) \/ stop_set(c)
         \/ stop_wake(c) \/ stop_join(c) \/ stop_return(c)
  PROVE  KInv'
<1> USE DEF KInv, dvars, cvars, tvars, ghosts
<1>1. CASE create_kick(c)
  <2>1. TypeOK'
    BY <1>1 DEF create_kick, caller_goto, TypeOK
  <2>2. RequestInv'
    BY <1>1 DEF create_kick, caller_goto, TypeOK, RequestInv
  <2>3. PlaceInv'
    BY <1>1 DEF create_kick, caller_goto, TypeOK, PlaceInv
  <2>4. LifeInv'
    BY <1>1 DEF create_kick, caller_goto, TypeOK, LifeInv
  <2> QED BY <2>1, <2>2, <2>3, <2>4
<1>2. CASE create_return(c)
  <2>1. TypeOK'
    BY <1>2 DEF create_return, caller_goto, TypeOK
  <2>2. RequestInv'
    BY <1>2 DEF create_return, caller_goto, TypeOK, RequestInv
  <2>3. PlaceInv'
    BY <1>2 DEF create_return, caller_goto, TypeOK, PlaceInv
  <2>4. LifeInv'
    BY <1>2 DEF create_return, caller_goto, TypeOK, PlaceInv, LifeInv
  <2> QED BY <2>1, <2>2, <2>3, <2>4
<1>3. CASE start(c)
  <2>1. TypeOK'
    BY <1>3 DEF start, wake_up_process, TypeOK
  <2>2. RequestInv'
    BY <1>3 DEF start, wake_up_process, TypeOK, RequestInv
  <2>3. PlaceInv'
    BY <1>3 DEF start, wake_up_process, TypeOK, PlaceInv
  <2>4. LifeInv'
    BY <1>3 DEF start, wake_up_process, TypeOK, LifeInv
  <2> QED BY <2>1, <2>2, <2>3, <2>4
<1>4. CASE kthread_stop(c)
  <2>1. TypeOK'
    BY <1>4 DEF kthread_stop, caller_goto, TypeOK
  <2>2. RequestInv'
    BY <1>4 DEF kthread_stop, caller_goto, TypeOK, RequestInv
  <2>3. PlaceInv'
    BY <1>4 DEF kthread_stop, caller_goto, TypeOK, PlaceInv
  <2>4. LifeInv'
    BY <1>4 DEF kthread_stop, caller_goto, TypeOK, LifeInv
  <2> QED BY <2>1, <2>2, <2>3, <2>4
<1>5. CASE stop_look(c)
  <2>1. TypeOK'
    BY <1>5 DEF stop_look, caller_goto, TypeOK
  <2>2. RequestInv'
    BY <1>5 DEF stop_look, caller_goto, TypeOK, RequestInv
  <2>3. PlaceInv'
    BY <1>5 DEF stop_look, caller_goto, TypeOK, PlaceInv, LifeInv
  <2>4. LifeInv'
    BY <1>5 DEF stop_look, caller_goto, TypeOK, LifeInv
  <2> QED BY <2>1, <2>2, <2>3, <2>4
<1>6. CASE stop_set(c)
  <2>1. TypeOK'
    BY <1>6 DEF stop_set, caller_goto, TypeOK
  <2>2. RequestInv'
    BY <1>6 DEF stop_set, caller_goto, TypeOK, RequestInv
  <2>3. PlaceInv'
    BY <1>6 DEF stop_set, caller_goto, TypeOK, PlaceInv
  <2>4. LifeInv'
    BY <1>6 DEF stop_set, caller_goto, TypeOK, LifeInv
  <2> QED BY <2>1, <2>2, <2>3, <2>4
<1>7. CASE stop_wake(c)
  <2>1. TypeOK'
    BY <1>7 DEF stop_wake, caller_goto, wake_up_process, TypeOK
  <2>2. RequestInv'
    BY <1>7 DEF stop_wake, caller_goto, wake_up_process, TypeOK, RequestInv
  <2>3. PlaceInv'
    BY <1>7 DEF stop_wake, caller_goto, wake_up_process, TypeOK, PlaceInv
  <2>4. LifeInv'
    BY <1>7 DEF stop_wake, caller_goto, wake_up_process, TypeOK, LifeInv
  <2> QED BY <2>1, <2>2, <2>3, <2>4
<1>8. CASE stop_join(c)
  <2>1. TypeOK'
    BY <1>8 DEF stop_join, caller_goto, TypeOK
  <2>2. RequestInv'
    BY <1>8 DEF stop_join, caller_goto, TypeOK, RequestInv
  <2>3. PlaceInv'
    BY <1>8 DEF stop_join, caller_goto, TypeOK, PlaceInv, LifeInv
  <2>4. LifeInv'
    BY <1>8 DEF stop_join, caller_goto, TypeOK, LifeInv
  <2> QED BY <2>1, <2>2, <2>3, <2>4
<1>9. CASE stop_return(c)
  <2>1. TypeOK'
    BY <1>9 DEF stop_return, caller_goto, TypeOK
  <2>2. RequestInv'
    BY <1>9 DEF stop_return, caller_goto, TypeOK, RequestInv
  <2>3. PlaceInv'
    BY <1>9 DEF stop_return, caller_goto, TypeOK, PlaceInv
  <2>4. LifeInv'
    BY <1>9 DEF stop_return, caller_goto, TypeOK, LifeInv
  <2> QED BY <2>1, <2>2, <2>3, <2>4
<1> QED BY <1>1, <1>2, <1>3, <1>4, <1>5, <1>6, <1>7, <1>8, <1>9

(* The steps of a thread. *)
LEMMA ThreadStep ==
  ASSUME KInv, NEW c \in Caller,
         \/ kthread(c) \/ kthread_tell(c) \/ kthread_unparked(c)
         \/ threadfn_ends(c) \/ threadfn_set(c) \/ kthread_should_stop(c)
         \/ threadfn_resume(c) \/ threadfn_wakes(c) \/ mm_release(c)
         \/ mm_release_complete(c)
  PROVE  KInv'
<1> USE DEF KInv, dvars, cvars, tvars, ghosts
<1>1. CASE kthread(c)
  <2>1. TypeOK'
    BY <1>1 DEF kthread, thread_goto, TypeOK
  <2>2. RequestInv'
    BY <1>1 DEF kthread, thread_goto, TypeOK, RequestInv
  <2>3. PlaceInv'
    BY <1>1 DEF kthread, thread_goto, TypeOK, PlaceInv
  <2>4. LifeInv'
    BY <1>1 DEF kthread, thread_goto, TypeOK, PlaceInv, LifeInv
  <2> QED BY <2>1, <2>2, <2>3, <2>4
<1>2. CASE kthread_tell(c)
  <2>1. TypeOK'
    BY <1>2 DEF kthread_tell, thread_goto, TypeOK
  <2>2. RequestInv'
    BY <1>2 DEF kthread_tell, thread_goto, TypeOK, RequestInv
  <2>3. PlaceInv'
    BY <1>2 DEF kthread_tell, thread_goto, TypeOK, PlaceInv
  <2>4. LifeInv'
    BY <1>2 DEF kthread_tell, thread_goto, TypeOK, LifeInv
  <2> QED BY <2>1, <2>2, <2>3, <2>4
<1>3. CASE kthread_unparked(c)
  <2>1. TypeOK'
    BY <1>3 DEF kthread_unparked, thread_goto, TypeOK
  <2>2. RequestInv'
    BY <1>3 DEF kthread_unparked, thread_goto, TypeOK, RequestInv
  <2>3. PlaceInv'
    <3>1. cpc[c] \notin {"kick", "wait", "idle", "code"}
      BY <1>3 DEF kthread_unparked, TypeOK, PlaceInv, LifeInv
    <3>2. tpc' = [tpc EXCEPT ![c] = tpc'[c]] /\ tpc'[c] \in {"exit", "fn"}
      BY <1>3 DEF kthread_unparked, thread_goto, TypeOK
    <3>3. \A b \in Caller \ {c} : called'[b] = called[b]
      BY <1>3 DEF kthread_unparked, TypeOK
    <3>4. cpc' = cpc /\ created' = created /\ result' = result /\ started' = started
      BY <1>3 DEF kthread_unparked
    <3> QED BY <3>1, <3>2, <3>3, <3>4 DEF TypeOK, PlaceInv
  <2>4. LifeInv'
    BY <1>3 DEF kthread_unparked, thread_goto, TypeOK, LifeInv
  <2> QED BY <2>1, <2>2, <2>3, <2>4
<1>4. CASE threadfn_ends(c)
  <2>1. TypeOK'
    BY <1>4 DEF threadfn_ends, thread_goto, threadfn_return, TypeOK
  <2>2. RequestInv'
    BY <1>4 DEF threadfn_ends, thread_goto, threadfn_return, TypeOK, RequestInv
  <2>3. PlaceInv'
    BY <1>4 DEF threadfn_ends, thread_goto, threadfn_return, TypeOK, PlaceInv
  <2>4. LifeInv'
    BY <1>4 DEF threadfn_ends, thread_goto, threadfn_return, TypeOK, LifeInv
  <2> QED BY <2>1, <2>2, <2>3, <2>4
<1>5. CASE threadfn_set(c)
  <2>1. TypeOK'
    BY <1>5 DEF threadfn_set, thread_goto, TypeOK
  <2>2. RequestInv'
    BY <1>5 DEF threadfn_set, thread_goto, TypeOK, RequestInv
  <2>3. PlaceInv'
    BY <1>5 DEF threadfn_set, thread_goto, TypeOK, PlaceInv
  <2>4. LifeInv'
    BY <1>5 DEF threadfn_set, thread_goto, TypeOK, LifeInv
  <2> QED BY <2>1, <2>2, <2>3, <2>4
<1>6. CASE kthread_should_stop(c)
  <2>1. TypeOK'
    BY <1>6 DEF kthread_should_stop, thread_goto, threadfn_return, wake_up_process, TypeOK
  <2>2. RequestInv'
    BY <1>6 DEF kthread_should_stop, thread_goto, threadfn_return, wake_up_process, TypeOK, RequestInv
  <2>3. PlaceInv'
    BY <1>6 DEF kthread_should_stop, thread_goto, threadfn_return, wake_up_process, TypeOK, PlaceInv
  <2>4. LifeInv'
    BY <1>6 DEF kthread_should_stop, thread_goto, threadfn_return, wake_up_process, TypeOK, LifeInv
  <2> QED BY <2>1, <2>2, <2>3, <2>4
<1>7. CASE threadfn_resume(c)
  <2>1. TypeOK'
    BY <1>7 DEF threadfn_resume, thread_goto, TypeOK
  <2>2. RequestInv'
    BY <1>7 DEF threadfn_resume, thread_goto, TypeOK, RequestInv
  <2>3. PlaceInv'
    BY <1>7 DEF threadfn_resume, thread_goto, TypeOK, PlaceInv
  <2>4. LifeInv'
    BY <1>7 DEF threadfn_resume, thread_goto, TypeOK, LifeInv
  <2> QED BY <2>1, <2>2, <2>3, <2>4
<1>8. CASE threadfn_wakes(c)
  <2>1. TypeOK'
    BY <1>8 DEF threadfn_wakes, wake_up_process, TypeOK
  <2>2. RequestInv'
    BY <1>8 DEF threadfn_wakes, wake_up_process, TypeOK, RequestInv
  <2>3. PlaceInv'
    BY <1>8 DEF threadfn_wakes, wake_up_process, TypeOK, PlaceInv
  <2>4. LifeInv'
    BY <1>8 DEF threadfn_wakes, wake_up_process, TypeOK, LifeInv
  <2> QED BY <2>1, <2>2, <2>3, <2>4
<1>9. CASE mm_release(c)
  <2>1. TypeOK'
    BY <1>9 DEF mm_release, thread_goto, TypeOK
  <2>2. RequestInv'
    BY <1>9 DEF mm_release, thread_goto, TypeOK, RequestInv
  <2>3. PlaceInv'
    BY <1>9 DEF mm_release, thread_goto, TypeOK, PlaceInv
  <2>4. LifeInv'
    BY <1>9 DEF mm_release, thread_goto, TypeOK, LifeInv
  <2> QED BY <2>1, <2>2, <2>3, <2>4
<1>10. CASE mm_release_complete(c)
  <2>1. TypeOK'
    BY <1>10 DEF mm_release_complete, thread_goto, TypeOK
  <2>2. RequestInv'
    BY <1>10 DEF mm_release_complete, thread_goto, TypeOK, RequestInv
  <2>3. PlaceInv'
    BY <1>10 DEF mm_release_complete, thread_goto, TypeOK, PlaceInv
  <2>4. LifeInv'
    BY <1>10 DEF mm_release_complete, thread_goto, TypeOK, LifeInv
  <2> QED BY <2>1, <2>2, <2>3, <2>4
<1> QED BY <1>1, <1>2, <1>3, <1>4, <1>5, <1>6, <1>7, <1>8, <1>9, <1>10

(* A new request goes to the tail of the list. *)
LEMMA CreateStep ==
  ASSUME KInv, NEW c \in Caller, kthread_create_on_node(c)
  PROVE  KInv'
<1> USE DEF KInv, dvars, cvars, tvars, ghosts
<1>1. ~OnList(create_list, c) /\ create # c
  BY DEF kthread_create_on_node, RequestInv
<1>2. /\ create_list' \in Seq(Caller) /\ OnceEach(create_list')
      /\ OnList(create_list', c)
      /\ \A b : b # c => (OnList(create_list', b) <=> OnList(create_list, b))
  BY <1>1, ListAddTail DEF kthread_create_on_node, TypeOK, RequestInv
<1>3. TypeOK'
  BY <1>2 DEF kthread_create_on_node, caller_goto, TypeOK
<1>4. RequestInv'
  BY <1>1, <1>2 DEF kthread_create_on_node, caller_goto, TypeOK, RequestInv
<1>5. PlaceInv'
  BY DEF kthread_create_on_node, caller_goto, TypeOK, PlaceInv
<1>6. LifeInv'
  BY DEF kthread_create_on_node, caller_goto, TypeOK, LifeInv
<1> QED BY <1>3, <1>4, <1>5, <1>6

(* kthreadd takes the requests from the head of the list, and answers one  *)
(* itself only when it cannot fork.                                        *)
LEMMA DaemonStep ==
  ASSUME KInv, Kthreadd
  PROVE  KInv'
<1> USE DEF KInv, dvars, cvars, tvars, ghosts
<1>1. CASE kthreadd_set \/ kthreadd_look \/ kthreadd_resume
  <2>1. /\ UNCHANGED <<create_list, create, cvars, tvars, ghosts>>
        /\ dpc # "fork" /\ dpc' \in DaemonLocations \ {"fork"} /\ dstate' \in TaskStates
    BY <1>1 DEF kthreadd_set, kthreadd_look, kthreadd_resume, TypeOK
  <2>2. TypeOK'
    BY <2>1 DEF TypeOK
  <2> QED BY <2>1, <2>2 DEF RequestInv, PlaceInv, LifeInv
<1>2. CASE kthreadd_take
  <2>1. CASE create_list = <<>>
    <3>1. UNCHANGED <<create_list, dstate, create, cvars, tvars, ghosts>> /\ dpc' = "set"
      BY <1>2, <2>1 DEF kthreadd_take
    <3>2. TypeOK'
      BY <1>2, <3>1 DEF kthreadd_take, TypeOK
    <3> QED BY <3>1, <3>2 DEF RequestInv, PlaceInv, LifeInv
  <2>2. CASE create_list # <<>>
    <3>1. /\ UNCHANGED <<dstate, cvars, tvars, ghosts>> /\ dpc' = "fork"
          /\ create' = Head(create_list) /\ create_list' = Tail(create_list)
      BY <1>2, <2>2 DEF kthreadd_take
    <3>2. /\ create' \in Caller /\ OnList(create_list, create')
          /\ create_list' \in Seq(Caller) /\ OnceEach(create_list')
          /\ ~OnList(create_list', create')
          /\ \A b : b # create' => (OnList(create_list', b) <=> OnList(create_list, b))
      BY <2>2, <3>1, ListDelFirst DEF TypeOK, RequestInv
    <3>3. create \notin Caller
      BY <1>2, CallerAssumption DEF kthreadd_take, TypeOK
    <3>4. TypeOK'
      BY <3>1, <3>2 DEF TypeOK
    <3>5. RequestInv'
      BY <3>1, <3>2, <3>3 DEF RequestInv
    <3>6. PlaceInv' /\ LifeInv'
      BY <3>1 DEF PlaceInv, LifeInv
    <3> QED BY <3>4, <3>5, <3>6
  <2> QED BY <2>1, <2>2
<1>3. CASE create_kthread
  <2> DEFINE c == create
  <2>1. c \in Caller /\ Asking(c) /\ tpc[c] = "none" /\ ~OnList(create_list, c)
    BY <1>3 DEF create_kthread, TypeOK, RequestInv
  <2>2. /\ UNCHANGED <<create_list, dstate, cpc, tstate, vfork_done, should_stop, exited, exit_code, ghosts>>
        /\ create' = NoCaller /\ dpc' = "take" /\ NoCaller \notin Caller
    BY <1>3, CallerAssumption DEF create_kthread
  <2>3. CASE fork_succeeds
    <3>1. tpc' = [tpc EXCEPT ![c] = "born"] /\ UNCHANGED <<created, result>>
      BY <2>3 DEF fork_succeeds, thread_goto
    <3>2. TypeOK'
      BY <2>1, <2>2, <3>1 DEF TypeOK
    <3>3. RequestInv'
      BY <2>1, <2>2, <3>1 DEF TypeOK, RequestInv
    <3>4. PlaceInv'
      BY <2>1, <2>2, <3>1 DEF TypeOK, PlaceInv
    <3>5. LifeInv'
      BY <2>1, <2>2, <3>1 DEF TypeOK, LifeInv, PlaceInv
    <3> QED BY <3>2, <3>3, <3>4, <3>5
  <2>4. CASE fork_fails
    <3>1. created' = [created EXCEPT ![c] = TRUE] /\ UNCHANGED <<result, tpc>>
      BY <2>4 DEF fork_fails
    <3>2. TypeOK'
      BY <2>1, <2>2, <3>1 DEF TypeOK
    <3>3. RequestInv'
      BY <2>1, <2>2, <3>1 DEF TypeOK, RequestInv
    <3>4. PlaceInv'
      BY <2>1, <2>2, <3>1 DEF TypeOK, PlaceInv
    <3>5. LifeInv'
      BY <2>2, <3>1 DEF LifeInv
    <3> QED BY <3>2, <3>3, <3>4, <3>5
  <2> QED BY <1>3, <2>3, <2>4 DEF create_kthread
<1> QED BY <1>1, <1>2, <1>3 DEF Kthreadd

(* What the two properties rest on holds in every state. *)
THEOREM KthreadInvariant == Spec => []KInv
<1>1. Init => KInv
  <2> SUFFICES ASSUME Init PROVE KInv
    OBVIOUS
  <2>1. TypeOK
    BY DEF Init, TypeOK
  <2>2. RequestInv
    BY CallerAssumption DEF Init, RequestInv, OnList, OnceEach
  <2>3. PlaceInv /\ LifeInv
    BY DEF Init, PlaceInv, LifeInv
  <2> QED BY <2>1, <2>2, <2>3 DEF KInv
<1>2. KInv /\ [Next]_vars => KInv'
  <2> SUFFICES ASSUME KInv, [Next]_vars PROVE KInv'
    OBVIOUS
  <2>1. CASE Kthreadd
    BY <2>1, DaemonStep
  <2>2. ASSUME NEW c \in Caller,
               \/ kthread_create_on_node(c) \/ start(c) \/ kthread_stop(c)
               \/ Proceed(c) \/ Thread(c) \/ threadfn_ends(c) \/ threadfn_wakes(c)
        PROVE  KInv'
    <3>1. CASE kthread_create_on_node(c)
      BY <3>1, CreateStep
    <3>2. CASE start(c) \/ kthread_stop(c) \/ Proceed(c)
      BY <3>2, CallerStep DEF Proceed
    <3>3. CASE Thread(c) \/ threadfn_ends(c) \/ threadfn_wakes(c)
      BY <3>3, ThreadStep DEF Thread
    <3> QED BY <2>2, <3>1, <3>2, <3>3
  <2>3. CASE UNCHANGED vars
    BY <2>3 DEF vars, dvars, cvars, tvars, ghosts, KInv, TypeOK, RequestInv, PlaceInv, LifeInv
  <2> QED BY <2>1, <2>2, <2>3 DEF Next
<1> QED BY <1>1, <1>2, PTL DEF Spec

(* The struct kthread_create_info on the stack of a caller is used by one  *)
(* of the list, kthreadd and the new thread at a time, and only while the  *)
(* caller waits.                                                           *)
THEOREM KthreadInfoOutlivesUse == Spec => []InfoOutlivesUse
<1>1. KInv => InfoOutlivesUse
  <2> SUFFICES ASSUME KInv PROVE InfoOutlivesUse
    OBVIOUS
  <2> SUFFICES ASSUME NEW c \in Caller
               PROVE  /\ (\E i \in 1..3 : InfoUsers(c)[i]) => cpc[c] \in {"kick", "wait"} /\ ~created[c]
                      /\ \A i, j \in 1..3 : InfoUsers(c)[i] /\ InfoUsers(c)[j] => i = j
    BY DEF KInv, InfoOutlivesUse
  <2>1. /\ InfoUsers(c)[1] = OnList(create_list, c)
        /\ InfoUsers(c)[2] = (create = c)
        /\ InfoUsers(c)[3] = (tpc[c] \in {"born", "tell"})
    BY DEF InfoUsers
  <2>2. \A i \in 1..3 : i = 1 \/ i = 2 \/ i = 3
    OBVIOUS
  <2> QED BY <2>1, <2>2 DEF KInv, RequestInv
<1> QED BY <1>1, KthreadInvariant, PTL

(* A thread that was not started never calls its function, and when        *)
(* kthread_stop() reads the exit code the function is over and the code    *)
(* tells whether it was called.                                            *)
THEOREM KthreadStopIsFinal == Spec => []StopIsFinal
<1>1. KInv => StopIsFinal
  BY DEF KInv, StopIsFinal, PlaceInv, LifeInv
<1> QED BY <1>1, KthreadInvariant, PTL

----------------------------------------------------------------------------
(***************************************************************************)
(* Kthread workers, for every set of items, every finite set of flushing   *)
(* tasks and every width of the sequence numbers, wherever they start and  *)
(* however often they wrap round.                                          *)
(***************************************************************************)
(* The thread has an item exactly while it is busy with one, a task has a  *)
(* target exactly while it flushes one.                                    *)
CurrentInv == current \in IF wpc \in {"func", "seq", "wake"} THEN Items ELSE {NoItem}
TargetInv ==
  \A t \in Task : target[t] \in IF pc[t] \in {"inc", "wait"} THEN Work ELSE {NoItem}

(* flushing counts the tasks between their increment and their decrement.  *)
Flushers(i) == {t \in Task : pc[t] = "wait" /\ target[t] = i}
FlushingInv == \A i \in Items : flushing[i] = Cardinality(Flushers(i))

(* Every queuing is on the list, being run or has been run. *)
Queued(i) == IF OnList(work_list, i) THEN 1 ELSE 0
BeingRun(i) == IF Executing(i) THEN 1 ELSE 0
AccountInv == \A i \in Items : queuings[i] = runs[i] + Queued(i) + BeingRun(i)

(* queue_seq counts the queuings.  As long as an item is not queued while  *)
(* it runs, done_seq counts the runs whose number is already set.          *)
NotYetSet(i) == IF current = i /\ wpc = "seq" THEN 1 ELSE 0
SeqInv ==
  \A i \in Items :
    /\ queue_seq[i] = Wrap(FirstSeq + queuings[i])
    /\ ~overlap[i] =>
         /\ done_seq[i] = Wrap(FirstSeq + (runs[i] - NotYetSet(i)))
         /\ current = i /\ wpc \in {"func", "seq"} => ~OnList(work_list, i)

(* What flush_kthread_work() has read. *)
TicketInv ==
  \A t \in Task : pc[t] \in {"inc", "wait"} =>
    /\ seq[t] = Wrap(FirstSeq + ticket[t][target[t]])
    /\ ticket[t][target[t]] <= queuings[target[t]]

(* The item of flush_kthread_worker() is on the list or being run until it *)
(* has completed fwork.done, and what was queued before the call is run    *)
(* before it.                                                              *)
Before(w, t) == \E i, j \in 1..Len(work_list) : i < j /\ work_list[i] = w /\ work_list[j] = t
Ahead(w, t) ==
  IF OnList(work_list, t) THEN BeingRun(w) + (IF Before(w, t) THEN 1 ELSE 0) ELSE 0
OwnItemInv ==
  \A t \in Task :
    /\ ~(OnList(work_list, t) /\ Executing(t))
    /\ OnList(work_list, t) \/ Executing(t) <=> pc[t] = "complete" /\ ~done[t]
    /\ pc[t] = "complete" =>
         \A w \in Work : ticket[t][w] <= runs[w] + Ahead(w, t)

(* The inductive invariant of the worker. *)
KWInv ==
  /\ WorkerTypeOK /\ OnceEach(work_list) /\ AccountInv /\ CurrentInv /\ TargetInv
  /\ FlushingInv /\ SeqInv /\ TicketInv /\ OwnItemInv

(* Arithmetic on sequence numbers is arithmetic modulo 2^SeqBits. *)
LEMMA WrapFacts ==
  /\ FirstSeq \in Int
  /\ Modulus \in Nat /\ Modulus >= 4
  /\ \A n \in Int : Wrap(n) \in 0..(Modulus - 1)
  /\ \A n \in 0..(Modulus - 1) : Wrap(n) = n
  /\ \A m, n \in Int : Wrap(Wrap(m) + n) = Wrap(m + n)
<1> DEFINE a == SeqBits - 2
           M == Modulus
<1>1. a \in Nat /\ a + 1 \in Nat /\ SeqBits = (a + 1) + 1
  BY SeqAssumption
<1> HIDE DEF a
<1>2. 2^a \in Nat /\ 2^a > 0 /\ 2^(a + 1) = 2 * 2^a /\ 2^((a + 1) + 1) = 2 * 2^(a + 1)
  BY <1>1, PowerPositive, PowerDouble
<1>3. M \in Nat /\ M >= 4 /\ M \in Nat \ {0}
  BY <1>1, <1>2 DEF Modulus
<1>4. \A n : Wrap(n) = n % M
  BY DEF Wrap
<1> HIDE DEF M
<1>5. \A n \in Int : n % M \in 0..(M - 1)
  BY <1>3, ModDivision
<1>6. \A n \in 0..(M - 1) : n % M = n
  BY <1>3, ModSmall
<1>7. \A m, n \in Int : ((m % M) + n) % M = (m + n) % M
  BY <1>3, ModAdd
<1>8. FirstSeq \in Int
  BY SeqAssumption, PowerPositive
<1> QED BY <1>3, <1>4, <1>5, <1>6, <1>7, <1>8 DEF M

(* The test of flush_kthread_work() fails for a number that is one ahead   *)
(* of done_seq.                                                            *)
LEMMA OneAhead ==
  ASSUME NEW n \in Int
  PROVE  Signed(Wrap(n + 1) - Wrap(n)) = 1
<1> DEFINE d == Wrap(n)
<1>1. d \in Int /\ Wrap(d + 1) = Wrap(n + 1)
  BY WrapFacts
<1> HIDE DEF d
<1>2. Wrap(Wrap(d + 1) + (-d)) = Wrap((d + 1) + (-d))
  BY <1>1, WrapFacts
<1>3. Wrap(d + 1) \in Int /\ Wrap(d + 1) + (-d) = Wrap(d + 1) - d /\ (d + 1) + (-d) = 1
  BY <1>1, WrapFacts
<1>4. Wrap(1) = 1
  BY WrapFacts
<1>5. Wrap(Wrap(d + 1) - d) = 1
  BY <1>2, <1>3, <1>4
<1>6. ~(1 >= Modulus \div 2)
  BY WrapFacts
<1>7. Signed(Wrap(d + 1) - d) = 1
  BY <1>5, <1>6 DEF Signed
<1> QED BY <1>1, <1>7 DEF d

(* Nothing changes. *)
LEMMA NoStep ==
  ASSUME KWInv, UNCHANGED worker_vars
  PROVE  KWInv'
<1> USE DEF KWInv, worker_vars, item_vars, thread_vars, flush_vars, work_ghosts
<1>1. WorkerTypeOK' /\ OnceEach(work_list)'
  BY DEF WorkerTypeOK
<1>2. AccountInv'
  BY DEF AccountInv, Queued, BeingRun, Executing
<1>3. CurrentInv' /\ TargetInv' /\ FlushingInv'
  BY DEF CurrentInv, TargetInv, FlushingInv, Flushers
<1>4. SeqInv' /\ TicketInv'
  BY DEF SeqInv, NotYetSet, TicketInv
<1>5. OwnItemInv'
  BY DEF OwnItemInv, Ahead, Before, BeingRun, Executing
<1> QED BY <1>1, <1>2, <1>3, <1>4, <1>5

(* The thread looks round, sleeps, is stopped or replaced. *)
LEMMA LoopStep ==
  ASSUME KWInv,
         \/ worker_start \/ worker_set_state \/ worker_look_stop \/ worker_exit
         \/ worker_resume \/ worker_thawed
         \/ worker_stop_set \/ worker_stop_wake \/ worker_stop_return
  PROVE  KWInv'
<1> USE DEF KWInv
<1>1. /\ UNCHANGED <<work_list, item_vars, current, flush_vars, work_ghosts>>
      /\ wpc' = wpc \/ (wpc \notin {"func", "seq", "wake"} /\ wpc' \notin {"func", "seq", "wake"})
  BY DEF worker_start, worker_set_state, worker_look_stop, worker_exit, worker_resume, worker_thawed,
         worker_stop_set, worker_stop_wake, worker_stop_return, worker_at, worker_goto,
         worker_leaves, thread_vars
<1>2. WorkerTypeOK'
  <2>0. stops' = stops \/ (stops < MaxStop /\ stops' = stops + 1)
    BY DEF worker_start, worker_set_state, worker_look_stop, worker_exit, worker_resume, worker_thawed,
           worker_stop_set, worker_stop_wake, worker_stop_return, worker_leaves
  <2>1. /\ attached' \in BOOLEAN /\ wshould_stop' \in BOOLEAN
        /\ wpc' \in WorkerLocations /\ wstate' \in TaskStates
        /\ spc' \in {"idle", "wake", "wait"}
    BY DEF worker_start, worker_set_state, worker_look_stop, worker_exit, worker_resume, worker_thawed,
           worker_stop_set, worker_stop_wake, worker_stop_return, worker_at, worker_goto,
           worker_leaves, thread_vars, WorkerTypeOK, WorkerLocations
  <2>2. stops' \in 0..MaxStop
    BY <2>0, BoundAssumption DEF WorkerTypeOK
  <2> QED BY <1>1, <2>1, <2>2 DEF WorkerTypeOK, item_vars, flush_vars, work_ghosts
<1>3. \A i : Executing(i)' <=> Executing(i)
  BY <1>1 DEF Executing, CurrentInv
<1>4. OnceEach(work_list)' /\ AccountInv'
  BY <1>1, <1>3 DEF AccountInv, Queued, BeingRun, work_ghosts
<1>5. CurrentInv' /\ TargetInv' /\ FlushingInv'
  BY <1>1 DEF CurrentInv, TargetInv, FlushingInv, Flushers, item_vars, flush_vars
<1>6. SeqInv'
  BY <1>1 DEF SeqInv, NotYetSet, item_vars, work_ghosts
<1>7. TicketInv'
  BY <1>1 DEF TicketInv, flush_vars, work_ghosts
<1>8. OwnItemInv'
  BY <1>1, <1>3 DEF OwnItemInv, Ahead, BeingRun, Before, flush_vars, work_ghosts
<1> QED BY <1>2, <1>4, <1>5, <1>6, <1>7, <1>8

(* The thread takes the first item of the list, or finds none. *)
LEMMA GetStep ==
  ASSUME KWInv, worker_get
  PROVE  KWInv'
<1> USE DEF KWInv
<1>1. /\ wpc = "get" /\ current = NoItem /\ NoItem \notin Items
      /\ UNCHANGED <<attached, queue_seq, done_seq, flushing, wshould_stop, spc, stops,
                     pc, target, seq, awake, done, ticket, queuings, runs, overlap>>
  BY ItemAssumption DEF worker_get, worker_at, CurrentInv, item_vars, flush_vars, work_ghosts
<1>2. CASE work_list = <<>>
  <2>1. wpc' = "sched" /\ UNCHANGED <<current, work_list, wstate>>
    BY <1>2 DEF worker_get, worker_goto
  <2>2. WorkerTypeOK'
    BY <1>1, <2>1 DEF WorkerTypeOK, WorkerLocations
  <2>3. \A i : Executing(i)' <=> Executing(i)
    BY <1>1, <2>1 DEF Executing
  <2>4. OnceEach(work_list)' /\ AccountInv'
    BY <1>1, <2>1, <2>3 DEF AccountInv, Queued, BeingRun
  <2>5. CurrentInv' /\ TargetInv' /\ FlushingInv'
    BY <1>1, <2>1 DEF CurrentInv, TargetInv, FlushingInv, Flushers
  <2>6. SeqInv' /\ TicketInv'
    BY <1>1, <2>1 DEF SeqInv, NotYetSet, TicketInv
  <2>7. OwnItemInv'
    BY <1>1, <2>1, <2>3 DEF OwnItemInv, Ahead, BeingRun, Before
  <2> QED BY <2>2, <2>4, <2>5, <2>6, <2>7
<1>3. CASE work_list # <<>>
  <2> DEFINE h == Head(work_list)
  <2>1. /\ current' = h /\ work_list' = Tail(work_list)
        /\ wstate' = TASK_RUNNING /\ wpc' = "func"
    BY <1>3 DEF worker_get, worker_goto
  <2>2. /\ h \in Items /\ OnList(work_list, h)
        /\ work_list' \in Seq(Items)
        /\ ~OnList(work_list', h)
        /\ \A v : v # h => (OnList(work_list', v) <=> OnList(work_list, v))
        /\ OnceEach(work_list')
    BY <1>3, <2>1, ListDelFirst DEF WorkerTypeOK
  <2>3. \A i \in Items : ~Executing(i) /\ (Executing(i)' <=> i = h)
    BY <1>1, <2>1 DEF Executing
  <2>4. WorkerTypeOK'
    BY <1>1, <2>1, <2>2 DEF WorkerTypeOK, WorkerLocations
  <2>5. AccountInv'
    <3> SUFFICES ASSUME NEW i \in Items PROVE queuings[i] = runs[i] + Queued(i)' + BeingRun(i)'
      BY <1>1 DEF AccountInv
    <3>1. queuings[i] = runs[i] + Queued(i) + BeingRun(i) /\ runs[i] \in Int
      BY DEF AccountInv, WorkerTypeOK
    <3>2. Queued(i)' + BeingRun(i)' = Queued(i) + BeingRun(i)
      BY <2>2, <2>3 DEF Queued, BeingRun
    <3> QED BY <3>1, <3>2 DEF Queued, BeingRun
  <2>6. CurrentInv' /\ TargetInv' /\ FlushingInv'
    BY <1>1, <2>1, <2>2 DEF CurrentInv, TargetInv, FlushingInv, Flushers
  <2>7. SeqInv'
    <3>1. \A i \in Items : NotYetSet(i)' = NotYetSet(i)
      BY <1>1, <2>1 DEF NotYetSet
    <3>2. \A i \in Items : current' = i => ~OnList(work_list', i)
      BY <2>1, <2>2
    <3> QED BY <1>1, <3>1, <3>2 DEF SeqInv
  <2>8. TicketInv'
    BY <1>1 DEF TicketInv
  <2>9. OwnItemInv'
    <3>1. \A t \in Task : t \in Items
      BY DEF Items
    <3> SUFFICES ASSUME NEW t \in Task
                 PROVE  /\ ~(OnList(work_list, t)' /\ Executing(t)')
                        /\ OnList(work_list, t)' \/ Executing(t)' <=> pc[t] = "complete" /\ ~done[t]
                        /\ pc[t] = "complete" =>
                             \A w \in Work : ticket[t][w] <= runs[w] + Ahead(w, t)'
      BY <1>1 DEF OwnItemInv
    <3>2. ~(OnList(work_list, t)' /\ Executing(t)')
      BY <2>2, <2>3, <3>1
    <3>3. OnList(work_list, t)' \/ Executing(t)' <=> OnList(work_list, t) \/ Executing(t)
      BY <2>2, <2>3, <3>1
    <3>4. OnList(work_list, t) \/ Executing(t) <=> pc[t] = "complete" /\ ~done[t]
      BY DEF OwnItemInv
    <3>5. ASSUME pc[t] = "complete", NEW w \in Work
          PROVE  ticket[t][w] <= runs[w] + Ahead(w, t)'
      <4>1. w \in Items /\ w # t /\ ~Executing(w)
        BY <2>3, ItemAssumption DEF Items
      <4>2. ticket[t][w] <= runs[w] + Ahead(w, t) /\ ticket[t][w] \in Int /\ runs[w] \in Int
        BY <3>1, <3>5, <4>1 DEF OwnItemInv, WorkerTypeOK
      <4>3. CASE ~Before(w, t)
        BY <4>1, <4>2, <4>3 DEF Ahead, BeingRun
      <4>4. CASE Before(w, t)
        <5>1. PICK i, j \in 1..Len(work_list) : i < j /\ work_list[i] = w /\ work_list[j] = t
          BY <4>4 DEF Before
        <5>2. /\ Len(work_list) \in Nat /\ Len(work_list') = Len(work_list) - 1 /\ h = work_list[1]
              /\ \A n \in 1..Len(work_list') : work_list'[n] = work_list[n + 1]
          BY <1>3, <2>1 DEF WorkerTypeOK
        <5>3. j - 1 \in 1..Len(work_list') /\ work_list'[j - 1] = t
          BY <5>1, <5>2
        <5>4. OnList(work_list, t)'
          BY <5>3 DEF OnList
        <5>5. CASE i = 1
          BY <2>3, <4>1, <4>2, <5>1, <5>2, <5>4, <5>5 DEF Ahead, BeingRun
        <5>6. CASE i # 1
          <6>1. i - 1 \in 1..Len(work_list') /\ work_list'[i - 1] = w /\ i - 1 < j - 1
            BY <5>1, <5>2, <5>6
          <6>2. Before(w, t)'
            BY <5>3, <6>1 DEF Before
          <6> QED BY <4>1, <4>2, <5>4, <6>2 DEF Ahead, BeingRun
        <5> QED BY <5>5, <5>6
      <4> QED BY <4>3, <4>4
    <3> QED BY <3>2, <3>3, <3>4, <3>5
  <2> QED BY <2>2, <2>4, <2>5, <2>6, <2>7, <2>8, <2>9
<1> QED BY <1>2, <1>3

(* The function of the item returns. *)
LEMMA FuncStep ==
  ASSUME KWInv, worker_func
  PROVE  KWInv'
<1> USE DEF KWInv
<1> DEFINE c == current
<1>1. /\ wpc = "func" /\ wpc' = "seq" /\ c \in Items
      /\ runs' = [runs EXCEPT ![c] = @ + 1]
      /\ done' = IF c \in Task THEN [done EXCEPT ![c] = TRUE] ELSE done
      /\ UNCHANGED <<work_list, attached, queue_seq, done_seq, flushing, wstate, current, wshould_stop,
                     spc, stops, pc, target, seq, awake, ticket, queuings, overlap>>
  BY DEF worker_func, worker_at, worker_goto, CurrentInv, item_vars
<1>2. \A i : (Executing(i) <=> i = c) /\ ~Executing(i)'
  BY <1>1 DEF Executing
<1>3. AccountInv'
  <2> SUFFICES ASSUME NEW i \in Items PROVE queuings[i] = runs'[i] + Queued(i)' + BeingRun(i)'
    BY <1>1 DEF AccountInv
  <2>1. queuings[i] = runs[i] + Queued(i) + BeingRun(i) /\ runs[i] \in Int
    BY DEF AccountInv, WorkerTypeOK
  <2>2. Queued(i)' = Queued(i) /\ Queued(i) \in Int /\ BeingRun(i)' = 0 /\ BeingRun(i) \in Int
    BY <1>1, <1>2 DEF Queued, BeingRun
  <2>3. runs'[i] = runs[i] + BeingRun(i)
    BY <1>1, <1>2, <2>1 DEF BeingRun, WorkerTypeOK
  <2> QED BY <2>1, <2>2, <2>3
<1>4. WorkerTypeOK'
  <2>1. \A i \in Items : runs'[i] \in 0..MaxQueue
    <3> SUFFICES ASSUME NEW i \in Items PROVE runs'[i] \in 0..MaxQueue
      OBVIOUS
    <3>1. queuings[i] = runs'[i] + Queued(i)' + BeingRun(i)' /\ queuings[i] \in 0..MaxQueue
      BY <1>1, <1>3 DEF AccountInv, WorkerTypeOK
    <3>2. runs'[i] \in Nat
      BY <1>1 DEF WorkerTypeOK
    <3> QED BY <3>1, <3>2, BoundAssumption DEF Queued, BeingRun
  <2>2. runs' \in [Items -> 0..MaxQueue]
    BY <1>1, <2>1 DEF WorkerTypeOK
  <2>3. done' \in [Task -> BOOLEAN]
    BY <1>1 DEF WorkerTypeOK
  <2> QED BY <1>1, <2>2, <2>3 DEF WorkerTypeOK, WorkerLocations
<1>5. CurrentInv' /\ TargetInv' /\ FlushingInv' /\ TicketInv'
  BY <1>1 DEF CurrentInv, TargetInv, FlushingInv, Flushers, TicketInv
<1>6. SeqInv'
  <2> SUFFICES ASSUME NEW i \in Items
               PROVE  /\ queue_seq[i] = Wrap(FirstSeq + queuings[i])
                      /\ ~overlap[i] =>
                           /\ done_seq[i] = Wrap(FirstSeq + (runs'[i] - NotYetSet(i)'))
                           /\ c = i => ~OnList(work_list, i)
    BY <1>1 DEF SeqInv
  <2>1. runs'[i] - NotYetSet(i)' = runs[i] - NotYetSet(i)
    BY <1>1 DEF NotYetSet, WorkerTypeOK
  <2> QED BY <1>1, <2>1 DEF SeqInv
<1>7. OwnItemInv'
  <2> SUFFICES ASSUME NEW t \in Task
               PROVE  /\ ~(OnList(work_list, t) /\ Executing(t)')
                      /\ OnList(work_list, t) \/ Executing(t)' <=> pc[t] = "complete" /\ ~done'[t]
                      /\ pc[t] = "complete" => \A w \in Work : ticket[t][w] <= runs'[w] + Ahead(w, t)'
    BY <1>1 DEF OwnItemInv
  <2>1. /\ ~(OnList(work_list, t) /\ Executing(t))
        /\ OnList(work_list, t) \/ Executing(t) <=> pc[t] = "complete" /\ ~done[t]
        /\ pc[t] = "complete" => \A w \in Work : ticket[t][w] <= runs[w] + Ahead(w, t)
    BY DEF OwnItemInv
  <2>2. done'[t] = IF t = c THEN TRUE ELSE done[t]
    BY <1>1 DEF WorkerTypeOK
  <2>3. OnList(work_list, t) <=> pc[t] = "complete" /\ ~done'[t]
    BY <1>2, <2>1, <2>2
  <2>4. ASSUME NEW w \in Work PROVE runs'[w] + Ahead(w, t)' >= runs[w] + Ahead(w, t) /\ runs[w] \in Int
                                    /\ ticket[t][w] \in Int /\ runs'[w] + Ahead(w, t)' \in Int
                                    /\ runs[w] + Ahead(w, t) \in Int
    <3>1. w \in Items /\ t \in Items /\ runs[w] \in Int /\ ticket[t][w] \in Int
      BY DEF Items, WorkerTypeOK
    <3>2. BeingRun(w) = (IF w = c THEN 1 ELSE 0) /\ BeingRun(w)' = 0
      BY <1>2 DEF BeingRun
    <3>4. runs'[w] = runs[w] + BeingRun(w)
      <4>1. runs'[w] = IF w = c THEN runs[w] + 1 ELSE runs[w]
        BY <1>1, <3>1 DEF WorkerTypeOK
      <4> HIDE DEF c
      <4> QED BY <3>1, <3>2, <4>1
    <3>3. Before(w, t)' <=> Before(w, t)
      BY <1>1 DEF Before
    <3> HIDE DEF c
    <3> QED BY <1>1, <3>1, <3>2, <3>3, <3>4 DEF Ahead
  <2> QED BY <1>2, <2>1, <2>3, <2>4
<1> QED BY <1>1, <1>3, <1>4, <1>5, <1>6, <1>7

(* done_seq of the item is set. *)
LEMMA SetDoneStep ==
  ASSUME KWInv, worker_set_done
  PROVE  KWInv'
<1> USE DEF KWInv
<1> DEFINE c == current
<1>1. /\ wpc = "seq" /\ wpc' = "wake" /\ c \in Items
      /\ done_seq' = [done_seq EXCEPT ![c] = queue_seq[c]]
      /\ UNCHANGED <<work_list, attached, queue_seq, flushing, wstate, current, wshould_stop,
                     spc, stops, pc, target, seq, awake, done, ticket, queuings, runs, overlap>>
  BY DEF worker_set_done, worker_at, worker_goto, CurrentInv, flush_vars, work_ghosts
<1>2. \A i : ~Executing(i) /\ ~Executing(i)'
  BY <1>1 DEF Executing
<1>3. AccountInv'
  BY <1>1, <1>2 DEF AccountInv, Queued, BeingRun
<1>4. WorkerTypeOK'
  BY <1>1 DEF WorkerTypeOK, WorkerLocations
<1>5. CurrentInv' /\ TargetInv' /\ FlushingInv' /\ TicketInv'
  BY <1>1 DEF CurrentInv, TargetInv, FlushingInv, Flushers, TicketInv
<1>6. SeqInv'
  <2> SUFFICES ASSUME NEW i \in Items, ~overlap[i]
               PROVE  done_seq'[i] = Wrap(FirstSeq + (runs[i] - NotYetSet(i)'))
    BY <1>1 DEF SeqInv
  <2>1. NotYetSet(i)' = 0
    BY <1>1 DEF NotYetSet
  <2>2. CASE i # c
    <3>1. NotYetSet(i) = 0 /\ done_seq'[i] = done_seq[i]
      BY <1>1, <2>2 DEF NotYetSet, WorkerTypeOK
    <3> QED BY <2>1, <3>1 DEF SeqInv
  <2>3. CASE i = c
    <3>1. ~OnList(work_list, i) /\ ~Executing(i)
      BY <1>1, <1>2, <2>3 DEF SeqInv
    <3>2. queuings[i] = runs[i] /\ runs[i] \in Int
      BY <3>1 DEF AccountInv, Queued, BeingRun, WorkerTypeOK
    <3>3. done_seq'[i] = queue_seq[i]
      BY <1>1, <2>3 DEF WorkerTypeOK
    <3>4. queue_seq[i] = Wrap(FirstSeq + queuings[i])
      BY DEF SeqInv
    <3>5. runs[i] - NotYetSet(i)' = queuings[i]
      BY <2>1, <3>2
    <3> QED BY <3>3, <3>4, <3>5
  <2> QED BY <2>2, <2>3
<1>7. OwnItemInv'
  BY <1>1, <1>2 DEF OwnItemInv, Ahead, BeingRun, Before
<1> QED BY <1>1, <1>3, <1>4, <1>5, <1>6, <1>7

(* The thread looks at flushing and goes back to the beginning. *)
LEMMA WakeStep ==
  ASSUME KWInv, worker_wake
  PROVE  KWInv'
<1> USE DEF KWInv
<1>1. /\ wpc = "wake" /\ wpc' = "repeat" /\ current' = NoItem
      /\ awake' = awake \/ awake' = [t \in Task |-> awake[t] \/ target[t] = current]
      /\ UNCHANGED <<work_list, attached, queue_seq, done_seq, flushing, wstate, wshould_stop,
                     spc, stops, pc, target, seq, done, ticket, queuings, runs, overlap>>
  BY DEF worker_wake, worker_at, worker_goto, item_vars, work_ghosts
<1>2. \A i : ~Executing(i) /\ ~Executing(i)'
  BY <1>1 DEF Executing
<1>3. AccountInv'
  BY <1>1, <1>2 DEF AccountInv, Queued, BeingRun
<1>4. WorkerTypeOK'
  <2>1. awake' \in [Task -> BOOLEAN]
    BY <1>1 DEF WorkerTypeOK
  <2> QED BY <1>1, <2>1 DEF WorkerTypeOK, WorkerLocations
<1>5. CurrentInv' /\ TargetInv' /\ FlushingInv' /\ TicketInv'
  BY <1>1 DEF CurrentInv, TargetInv, FlushingInv, Flushers, TicketInv
<1>6. SeqInv'
  BY <1>1 DEF SeqInv, NotYetSet
<1>7. OwnItemInv'
  BY <1>1, <1>2 DEF OwnItemInv, Ahead, BeingRun, Before
<1> QED BY <1>1, <1>3, <1>4, <1>5, <1>6, <1>7

(* queue_kthread_work() of an item that is not on the list, as far as it   *)
(* does not concern the one who calls it.                                  *)
LEMMA QueueStep ==
  ASSUME KWInv, NEW i \in Items, queue_kthread_work(i), ~OnList(work_list, i), queuings[i] < MaxQueue
  PROVE  /\ work_list' = list_add_tail(work_list, i) /\ work_list' \in Seq(Items) /\ OnceEach(work_list)'
         /\ OnList(work_list, i)' /\ \A v : v # i => (OnList(work_list, v)' <=> OnList(work_list, v))
         /\ queuings' = [queuings EXCEPT ![i] = @ + 1] /\ queuings' \in [Items -> 0..MaxQueue]
         /\ queue_seq' \in [Items -> 0..(Modulus - 1)]
         /\ wstate' \in TaskStates /\ overlap' \in [Items -> BOOLEAN]
         /\ UNCHANGED <<attached, done_seq, flushing, wpc, current, wshould_stop, spc, stops, runs>>
         /\ AccountInv' /\ CurrentInv' /\ SeqInv'
<1> USE DEF KWInv
<1>1. /\ work_list' = list_add_tail(work_list, i)
      /\ queue_seq' = [queue_seq EXCEPT ![i] = Wrap(@ + 1)]
      /\ wstate' = IF attached THEN TASK_RUNNING ELSE wstate
      /\ queuings' = [queuings EXCEPT ![i] = @ + 1]
      /\ overlap' = [overlap EXCEPT ![i] = @ \/ (current = i /\ wpc \in {"func", "seq"})]
      /\ UNCHANGED <<attached, done_seq, flushing, wpc, current, wshould_stop, spc, stops, runs>>
  BY DEF queue_kthread_work
<1>2. /\ work_list' \in Seq(Items) /\ OnceEach(work_list)' /\ OnList(work_list, i)'
      /\ \A v : v # i => (OnList(work_list, v)' <=> OnList(work_list, v))
  BY <1>1, ListAddTail DEF WorkerTypeOK
<1>3. queuings' \in [Items -> 0..MaxQueue]
  BY <1>1, BoundAssumption DEF WorkerTypeOK
<1>4. queue_seq' \in [Items -> 0..(Modulus - 1)]
  <2>1. queue_seq[i] \in 0..(Modulus - 1) /\ Modulus \in Nat
    BY WrapFacts DEF WorkerTypeOK
  <2>2. queue_seq[i] + 1 \in Int
    BY <2>1
  <2>3. Wrap(queue_seq[i] + 1) \in 0..(Modulus - 1)
    BY <2>2, WrapFacts, Zenon
  <2> QED BY <1>1, <2>3 DEF WorkerTypeOK
<1>5. wstate' \in TaskStates /\ overlap' \in [Items -> BOOLEAN]
  BY <1>1 DEF WorkerTypeOK
<1>6. AccountInv'
  <2> SUFFICES ASSUME NEW j \in Items PROVE queuings'[j] = runs[j] + Queued(j)' + BeingRun(j)'
    BY <1>1 DEF AccountInv
  <2>1. queuings[j] = runs[j] + Queued(j) + BeingRun(j) /\ runs[j] \in Int /\ queuings[j] \in Int
    BY DEF AccountInv, WorkerTypeOK
  <2>2. BeingRun(j)' = BeingRun(j) /\ BeingRun(j) \in Int
    BY <1>1 DEF BeingRun, Executing
  <2>3. Queued(j)' = Queued(j) + (IF j = i THEN 1 ELSE 0) /\ Queued(j) \in Int
    BY <1>2 DEF Queued
  <2>4. queuings'[j] = queuings[j] + (IF j = i THEN 1 ELSE 0)
    BY <1>1, <2>1 DEF WorkerTypeOK
  <2> QED BY <2>1, <2>2, <2>3, <2>4
<1>7. CurrentInv'
  BY <1>1 DEF CurrentInv
<1>8. SeqInv'
  <2> SUFFICES ASSUME NEW j \in Items
               PROVE  /\ queue_seq'[j] = Wrap(FirstSeq + queuings'[j])
                      /\ ~overlap'[j] =>
                           /\ done_seq[j] = Wrap(FirstSeq + (runs[j] - NotYetSet(j)'))
                           /\ current = j /\ wpc \in {"func", "seq"} => ~OnList(work_list, j)'
    BY <1>1 DEF SeqInv
  <2>1. NotYetSet(j)' = NotYetSet(j)
    BY <1>1 DEF NotYetSet
  <2>2. queue_seq[j] = Wrap(FirstSeq + queuings[j])
    BY DEF SeqInv
  <2>3. CASE j # i
    <3>1. queue_seq'[j] = queue_seq[j] /\ queuings'[j] = queuings[j] /\ overlap'[j] = overlap[j]
      BY <1>1, <2>3 DEF WorkerTypeOK
    <3> QED BY <1>2, <2>1, <2>3, <3>1 DEF SeqInv
  <2>4. CASE j = i
    <3>1. queue_seq'[j] = Wrap(queue_seq[j] + 1) /\ queuings'[j] = queuings[j] + 1
      BY <1>1, <2>4 DEF WorkerTypeOK
    <3> DEFINE n == FirstSeq + queuings[j]
    <3>2. n \in Int /\ n + 1 = FirstSeq + (queuings[j] + 1)
      <4>1. queuings[j] \in Int
        BY DEF WorkerTypeOK
      <4>2. FirstSeq \in Int
        BY WrapFacts, Zenon
      <4> QED BY <4>1, <4>2
    <3>3. queue_seq[j] = Wrap(n)
      BY <2>2
    <3> HIDE DEF n
    <3>6. Wrap(Wrap(n) + 1) = Wrap(n + 1)
      BY <3>2, WrapFacts
    <3>4. queue_seq'[j] = Wrap(FirstSeq + queuings'[j])
      BY <3>1, <3>2, <3>3, <3>6
    <3>5. ~overlap'[j] => ~overlap[j] /\ ~(current = j /\ wpc \in {"func", "seq"})
      BY <1>1, <2>4 DEF WorkerTypeOK
    <3> QED BY <2>1, <3>4, <3>5 DEF SeqInv
  <2> QED BY <2>3, <2>4
<1> QED BY <1>1, <1>2, <1>3, <1>4, <1>5, <1>6, <1>7, <1>8

(* Before is not changed for an item that was on the list, by one that is  *)
(* put behind it, and the one that is put on the list has all the others   *)
(* before it.                                                              *)
LEMMA BehindAll ==
  ASSUME NEW i \in Items, work_list \in Seq(Items), ~OnList(work_list, i),
         work_list' = list_add_tail(work_list, i)
  PROVE  /\ \A w : OnList(work_list, w) => Before(w, i)'
         /\ \A w, t : t # i => (Before(w, t)' <=> Before(w, t))
<1>1. /\ Len(work_list) \in Nat /\ Len(work_list') = Len(work_list) + 1
      /\ work_list'[Len(work_list) + 1] = i
      /\ \A n \in 1..Len(work_list) : work_list'[n] = work_list[n]
  BY DEF list_add_tail
<1>2. ASSUME NEW w, OnList(work_list, w) PROVE Before(w, i)'
  <2>1. PICK n \in 1..Len(work_list) : work_list[n] = w
    BY <1>2 DEF OnList
  <2>2. /\ n \in 1..Len(work_list') /\ Len(work_list) + 1 \in 1..Len(work_list')
        /\ n < Len(work_list) + 1 /\ work_list'[n] = w
    BY <1>1, <2>1
  <2> QED BY <1>1, <2>2 DEF Before
<1>3. ASSUME NEW w, NEW t, t # i, Before(w, t) PROVE Before(w, t)'
  <2>1. PICK m, n \in 1..Len(work_list) : m < n /\ work_list[m] = w /\ work_list[n] = t
    BY <1>3 DEF Before
  <2>2. m \in 1..Len(work_list') /\ n \in 1..Len(work_list')
    BY <1>1
  <2>3. work_list'[m] = w /\ work_list'[n] = t
    BY <1>1, <2>1
  <2> QED BY <2>1, <2>2, <2>3 DEF Before
<1>4. ASSUME NEW w, NEW t, t # i, Before(w, t)' PROVE Before(w, t)
  <2>1. PICK m, n \in 1..Len(work_list') : m < n /\ work_list'[m] = w /\ work_list'[n] = t
    BY <1>4 DEF Before
  <2>2. n # Len(work_list) + 1
    BY <1>1, <1>4, <2>1
  <2>3. m \in 1..Len(work_list) /\ n \in 1..Len(work_list)
    BY <1>1, <2>1, <2>2
  <2>4. work_list[m] = w /\ work_list[n] = t
    BY <1>1, <2>1, <2>3
  <2> QED BY <2>1, <2>3, <2>4 DEF Before
<1> QED BY <1>2, <1>3, <1>4

(* Somebody queues an item. *)
LEMMA QueueWorkStep ==
  ASSUME KWInv, NEW w \in Work, queue(w)
  PROVE  KWInv'
<1> USE DEF KWInv
<1>1. /\ queuings[w] < MaxQueue /\ queue_kthread_work(w) /\ w \in Items
      /\ UNCHANGED <<pc, target, seq, awake, done, ticket>>
  BY DEF queue, flush_vars, Items
<1>2. CASE OnList(work_list, w)
  <2>1. UNCHANGED worker_vars
    BY <1>1, <1>2 DEF queue_kthread_work, worker_vars, item_vars, thread_vars, flush_vars, work_ghosts
  <2> QED BY <2>1, NoStep
<1>3. CASE ~OnList(work_list, w)
  <2>1. /\ work_list' = list_add_tail(work_list, w) /\ work_list' \in Seq(Items) /\ OnceEach(work_list)'
        /\ OnList(work_list, w)' /\ \A v : v # w => (OnList(work_list, v)' <=> OnList(work_list, v))
        /\ queuings' = [queuings EXCEPT ![w] = @ + 1] /\ queuings' \in [Items -> 0..MaxQueue]
        /\ queue_seq' \in [Items -> 0..(Modulus - 1)]
        /\ wstate' \in TaskStates /\ overlap' \in [Items -> BOOLEAN]
        /\ UNCHANGED <<attached, done_seq, flushing, wpc, current, wshould_stop, spc, stops, runs>>
        /\ AccountInv' /\ CurrentInv' /\ SeqInv'
    BY <1>1, <1>3, QueueStep
  <2>2. WorkerTypeOK'
    BY <1>1, <2>1 DEF WorkerTypeOK
  <2>3. TargetInv' /\ FlushingInv'
    BY <1>1, <2>1 DEF TargetInv, FlushingInv, Flushers
  <2>4. TicketInv'
    <3>1. \A i \in Items : queuings'[i] >= queuings[i] /\ queuings[i] \in Int /\ queuings'[i] \in Int
      BY <2>1 DEF WorkerTypeOK
    <3>2. \A t \in Task : pc[t] \in {"inc", "wait"} => target[t] \in Items /\ ticket[t][target[t]] \in Int
      BY DEF TargetInv, Items, WorkerTypeOK
    <3> QED BY <1>1, <3>1, <3>2 DEF TicketInv
  <2>5. OwnItemInv'
    <3> SUFFICES ASSUME NEW t \in Task
                 PROVE  /\ ~(OnList(work_list, t)' /\ Executing(t)')
                        /\ OnList(work_list, t)' \/ Executing(t)' <=> pc[t] = "complete" /\ ~done[t]
                        /\ pc[t] = "complete" => \A v \in Work : ticket[t][v] <= runs[v] + Ahead(v, t)'
      BY <1>1, <2>1 DEF OwnItemInv
    <3>1. t # w
      BY ItemAssumption
    <3>2. OnList(work_list, t)' <=> OnList(work_list, t)
      BY <2>1, <3>1
    <3>3. \A i : Executing(i)' <=> Executing(i)
      BY <2>1 DEF Executing
    <3>4. \A v : Before(v, t)' <=> Before(v, t)
      BY <1>1, <1>3, <2>1, <3>1, BehindAll DEF WorkerTypeOK
    <3>5. \A v : Ahead(v, t)' = Ahead(v, t)
      BY <3>2, <3>3, <3>4 DEF Ahead, BeingRun
    <3> QED BY <3>2, <3>3, <3>5 DEF OwnItemInv
  <2> QED BY <2>1, <2>2, <2>3, <2>4, <2>5
<1> QED BY <1>2, <1>3

(* The steps of flush_kthread_work() touch nothing but flushing and the    *)
(* task's own variables.                                                   *)
LEMMA FlusherStep ==
  ASSUME KWInv, NEW t \in Task,
         /\ UNCHANGED <<work_list, attached, queue_seq, done_seq, thread_vars, spc, stops, done, work_ghosts>>
         /\ \A u \in Task \ {t} : pc'[u] = pc[u] /\ target'[u] = target[u] /\ ticket'[u] = ticket[u]
                                                                 /\ seq'[u] = seq[u]
         /\ pc[t] = "complete" => done[t]
         /\ pc'[t] # "complete",
         WorkerTypeOK', FlushingInv',
         target'[t] \in IF pc'[t] \in {"inc", "wait"} THEN Work ELSE {NoItem},
         pc'[t] \in {"inc", "wait"} =>
           /\ seq'[t] = Wrap(FirstSeq + ticket'[t][target'[t]])
           /\ ticket'[t][target'[t]] <= queuings[target'[t]]
  PROVE  KWInv'
<1> USE DEF KWInv, thread_vars, work_ghosts
<1>1. OnceEach(work_list)' /\ AccountInv'
  BY DEF AccountInv, Queued, BeingRun, Executing
<1>2. CurrentInv' /\ SeqInv'
  BY DEF CurrentInv, SeqInv, NotYetSet
<1>3. TargetInv'
  BY DEF TargetInv
<1>4. TicketInv'
  BY DEF TicketInv
<1>5. OwnItemInv'
  <2>1. /\ \A i : Executing(i)' <=> Executing(i)
        /\ \A i : OnList(work_list, i)' <=> OnList(work_list, i)
    BY DEF Executing
  <2>2. \A u, w : Ahead(w, u)' = Ahead(w, u)
    BY DEF Ahead, Before, BeingRun, Executing
  <2>3. ASSUME NEW u \in Task
        PROVE  /\ ~(OnList(work_list, u)' /\ Executing(u)')
               /\ OnList(work_list, u)' \/ Executing(u)' <=> pc'[u] = "complete" /\ ~done'[u]
               /\ pc'[u] = "complete" => \A w \in Work : ticket'[u][w] <= runs'[w] + Ahead(w, u)'
    <3>1. CASE u = t
      BY <2>1, <3>1 DEF OwnItemInv
    <3>2. CASE u # t
      <4>1. pc'[u] = pc[u] /\ ticket'[u] = ticket[u] /\ done'[u] = done[u] /\ runs' = runs
        BY <3>2
      <4> QED BY <2>1, <2>2, <4>1 DEF OwnItemInv
    <3> QED BY <3>1, <3>2
  <2> QED BY <2>3 DEF OwnItemInv
<1> QED BY <1>1, <1>2, <1>3, <1>4, <1>5

(* The steps of a flush: the call, the increment, the wait, the returns.   *)
LEMMA FlushStep ==
  ASSUME KWInv, NEW t \in Task, Flush(t) \/ \E w \in Work : flush_kthread_work(t, w)
  PROVE  KWInv'
<1> USE DEF KWInv
<1>0. /\ pc \in [Task -> Locations] /\ target \in [Task -> Work \cup {NoItem}]
      /\ seq \in [Task -> 0..(Modulus - 1)] /\ awake \in [Task -> BOOLEAN]
      /\ ticket \in [Task -> [Items -> 0..MaxQueue]] /\ flushing \in [Items -> Nat]
      /\ Work \subseteq Items /\ NoItem \notin Items
      /\ \A i : IsFiniteSet(Flushers(i)) /\ Cardinality(Flushers(i)) \in Nat
  <2>1. ASSUME NEW i PROVE IsFiniteSet(Flushers(i))
    <3>1. Flushers(i) \subseteq Task
      BY DEF Flushers
    <3> QED BY <3>1, FlusherAssumption, FS_Subset
  <2> QED BY <2>1, FS_CardinalityType, ItemAssumption DEF WorkerTypeOK, Items
<1>1. ASSUME NEW w \in Work, flush_kthread_work(t, w) PROVE KWInv'
  <2>1. /\ pc[t] = "idle" /\ pc' = [pc EXCEPT ![t] = "inc"]
        /\ seq' = [seq EXCEPT ![t] = queue_seq[w]] /\ target' = [target EXCEPT ![t] = w]
        /\ ticket' = [ticket EXCEPT ![t] = queuings]
        /\ UNCHANGED <<work_list, attached, queue_seq, done_seq, flushing, thread_vars, spc, stops,
                       awake, done, work_ghosts>>
    BY <1>1 DEF flush_kthread_work, item_vars
  <2>2. WorkerTypeOK'
    BY <1>0, <2>1 DEF WorkerTypeOK, Locations, thread_vars, work_ghosts
  <2>3. FlushingInv'
    <3>1. \A i : Flushers(i)' = Flushers(i)
      BY <1>0, <2>1 DEF Flushers
    <3> QED BY <2>1, <3>1 DEF FlushingInv
  <2>4. /\ seq'[t] = queue_seq[w] /\ target'[t] = w /\ pc'[t] = "inc" /\ ticket'[t][w] = queuings[w]
        /\ \A u \in Task \ {t} : pc'[u] = pc[u] /\ target'[u] = target[u] /\ ticket'[u] = ticket[u]
                                                                /\ seq'[u] = seq[u]
    BY <1>0, <2>1
  <2>5. queue_seq[w] = Wrap(FirstSeq + queuings[w]) /\ queuings[w] <= queuings[w]
    BY <1>0 DEF SeqInv, WorkerTypeOK
  <2> QED BY <2>1, <2>2, <2>3, <2>4, <2>5, FlusherStep
<1>2. CASE flush_inc(t)
  <2> DEFINE w == target[t]
  <2>1. /\ pc[t] = "inc" /\ pc' = [pc EXCEPT ![t] = "wait"] /\ w \in Work /\ w \in Items
        /\ flushing' = [flushing EXCEPT ![w] = @ + 1]
        /\ awake' = [awake EXCEPT ![t] = TRUE]
        /\ UNCHANGED <<work_list, attached, queue_seq, done_seq, thread_vars, spc, stops,
                       target, seq, done, ticket, work_ghosts>>
    BY <1>0, <1>2 DEF flush_inc, TargetInv
  <2>2. WorkerTypeOK'
    BY <1>0, <2>1 DEF WorkerTypeOK, Locations, thread_vars, work_ghosts
  <2>3. FlushingInv'
    <3> SUFFICES ASSUME NEW i \in Items PROVE flushing'[i] = Cardinality(Flushers(i)')
      BY DEF FlushingInv
    <3>1. CASE i = w
      <4>1. Flushers(i)' = Flushers(i) \cup {t} /\ t \notin Flushers(i)
        BY <1>0, <2>1, <3>1 DEF Flushers
      <4>2. Cardinality(Flushers(i)') = Cardinality(Flushers(i)) + 1
        BY <1>0, <4>1, FS_AddElement
      <4> QED BY <1>0, <2>1, <3>1, <4>2 DEF FlushingInv
    <3>2. CASE i # w
      <4>1. Flushers(i)' = Flushers(i)
        BY <1>0, <2>1, <3>2 DEF Flushers
      <4> QED BY <1>0, <2>1, <3>2, <4>1 DEF FlushingInv
    <3> QED BY <3>1, <3>2
  <2>4. /\ pc'[t] = "wait" /\ target'[t] = w
        /\ \A u \in Task \ {t} : pc'[u] = pc[u] /\ target'[u] = target[u] /\ ticket'[u] = ticket[u]
                                                                /\ seq'[u] = seq[u]
    BY <1>0, <2>1
  <2>5. seq'[t] = Wrap(FirstSeq + ticket'[t][w]) /\ ticket'[t][w] <= queuings[w]
    BY <2>1 DEF TicketInv
  <2> QED BY <2>1, <2>2, <2>3, <2>4, <2>5, FlusherStep
<1>3. CASE flush_wait(t)
  <2>1. /\ pc[t] = "wait" /\ awake' = [awake EXCEPT ![t] = FALSE]
        /\ UNCHANGED <<work_list, attached, queue_seq, done_seq, flushing, thread_vars, spc, stops,
                       pc, target, seq, done, ticket, work_ghosts>>
    BY <1>3 DEF flush_wait, item_vars
  <2>2. WorkerTypeOK'
    BY <1>0, <2>1 DEF WorkerTypeOK, thread_vars, work_ghosts
  <2>3. FlushingInv'
    BY <2>1 DEF FlushingInv, Flushers
  <2>4. target'[t] \in Work
    BY <2>1 DEF TargetInv
  <2>5. seq'[t] = Wrap(FirstSeq + ticket'[t][target'[t]]) /\ ticket'[t][target'[t]] <= queuings[target'[t]]
    BY <2>1 DEF TicketInv
  <2> QED BY <2>1, <2>2, <2>3, <2>4, <2>5, FlusherStep
<1>4. CASE flush_return(t) \/ flush_worker_return(t)
  <2>1. /\ pc' = [pc EXCEPT ![t] = "idle"] /\ target' = [target EXCEPT ![t] = NoItem]
        /\ seq' = [seq EXCEPT ![t] = 0] /\ ticket' = [ticket EXCEPT ![t] = [i \in Items |-> 0]]
        /\ UNCHANGED <<work_list, attached, queue_seq, done_seq, thread_vars, spc, stops,
                       awake, done, work_ghosts>>
    BY <1>4 DEF flush_return, flush_worker_return, forget_flush, item_vars
  <2>2. FlushingInv' /\ flushing' \in [Items -> Nat]
    <3>1. CASE flush_return(t)
      <4>0. pc[t] = "wait" /\ target[t] \in Work /\ flushing' = [flushing EXCEPT ![target[t]] = @ - 1]
        BY <3>1 DEF flush_return, TargetInv
      <4>1. PICK w \in Work : /\ target[t] = w /\ w \in Items /\ w # NoItem
                              /\ flushing' = [flushing EXCEPT ![w] = @ - 1]
        BY <1>0, <4>0
      <4>2. /\ t \in Flushers(w) /\ Flushers(w)' = Flushers(w) \ {t}
            /\ \A i \in Items : i # w => Flushers(i)' = Flushers(i)
        BY <1>0, <2>1, <4>0, <4>1 DEF Flushers
      <4>3. Cardinality(Flushers(w)') = Cardinality(Flushers(w)) - 1 /\ Cardinality(Flushers(w)') \in Nat
        <5>1. IsFiniteSet(Flushers(w)') /\ Cardinality(Flushers(w)') = Cardinality(Flushers(w)) - 1
          BY <1>0, <4>2, FS_RemoveElement
        <5> QED BY <5>1, FS_CardinalityType
      <4>4. flushing[w] = Cardinality(Flushers(w))
        BY <4>1 DEF FlushingInv
      <4>5. flushing'[w] = Cardinality(Flushers(w)') /\ \A i \in Items : i # w => flushing'[i] = flushing[i]
        BY <1>0, <4>1, <4>3, <4>4
      <4>6. FlushingInv'
        BY <4>2, <4>5 DEF FlushingInv
      <4>7. flushing' \in [Items -> Nat]
        BY <1>0, <4>1, <4>3, <4>4
      <4> QED BY <4>6, <4>7
    <3>2. CASE flush_worker_return(t)
      <4>1. pc[t] = "complete" /\ flushing' = flushing
        BY <3>2 DEF flush_worker_return, item_vars
      <4>2. \A i : Flushers(i)' = Flushers(i)
        BY <1>0, <2>1, <4>1 DEF Flushers
      <4> QED BY <1>0, <4>1, <4>2 DEF FlushingInv
    <3> QED BY <1>4, <3>1, <3>2
  <2>3. WorkerTypeOK'
    <3>1. 0 \in 0..(Modulus - 1) /\ 0 \in 0..MaxQueue
      BY WrapFacts, BoundAssumption
    <3> QED BY <1>0, <2>1, <2>2, <3>1 DEF WorkerTypeOK, Locations, thread_vars, work_ghosts
  <2>4. /\ pc'[t] = "idle" /\ target'[t] = NoItem
        /\ \A u \in Task \ {t} : pc'[u] = pc[u] /\ target'[u] = target[u] /\ ticket'[u] = ticket[u]
                                                                /\ seq'[u] = seq[u]
    BY <1>0, <2>1
  <2>5. pc[t] = "complete" => done[t]
    BY <1>4 DEF flush_return, flush_worker_return
  <2> QED BY <2>1, <2>2, <2>3, <2>4, <2>5, FlusherStep
<1> QED BY <1>1, <1>2, <1>3, <1>4 DEF Flush

(* flush_kthread_worker() queues the caller's own item behind the others.  *)
LEMMA FlushWorkerStep ==
  ASSUME KWInv, NEW t \in Task, flush_kthread_worker(t)
  PROVE  KWInv'
<1> USE DEF KWInv
<1>1. /\ pc[t] = "idle" /\ queuings[t] < MaxQueue /\ queue_kthread_work(t) /\ t \in Items
      /\ done' = [done EXCEPT ![t] = FALSE] /\ pc' = [pc EXCEPT ![t] = "complete"]
      /\ ticket' = [ticket EXCEPT ![t] = queuings]
      /\ UNCHANGED <<target, seq, awake>>
  BY DEF flush_kthread_worker, Items
<1>2. ~OnList(work_list, t) /\ ~Executing(t)
  BY <1>1 DEF OwnItemInv
<1>3. /\ work_list' = list_add_tail(work_list, t) /\ work_list' \in Seq(Items) /\ OnceEach(work_list)'
      /\ OnList(work_list, t)' /\ \A v : v # t => (OnList(work_list, v)' <=> OnList(work_list, v))
      /\ queuings' = [queuings EXCEPT ![t] = @ + 1] /\ queuings' \in [Items -> 0..MaxQueue]
      /\ queue_seq' \in [Items -> 0..(Modulus - 1)]
      /\ wstate' \in TaskStates /\ overlap' \in [Items -> BOOLEAN]
      /\ UNCHANGED <<attached, done_seq, flushing, wpc, current, wshould_stop, spc, stops, runs>>
      /\ AccountInv' /\ CurrentInv' /\ SeqInv'
  BY <1>1, <1>2, QueueStep
<1>4. WorkerTypeOK'
  BY <1>1, <1>3 DEF WorkerTypeOK, Locations
<1>5. pc'[t] = "complete" /\ \A u \in Task \ {t} : pc'[u] = pc[u] /\ done'[u] = done[u] /\ ticket'[u] = ticket[u]
  BY <1>1 DEF WorkerTypeOK
<1>6. TargetInv'
  BY <1>1, <1>5 DEF TargetInv
<1>7. FlushingInv'
  <2>1. \A i : Flushers(i)' = Flushers(i)
    BY <1>1, <1>5 DEF Flushers
  <2> QED BY <1>3, <2>1 DEF FlushingInv
<1>8. TicketInv'
  <2> SUFFICES ASSUME NEW u \in Task, pc'[u] \in {"inc", "wait"}
               PROVE  /\ seq[u] = Wrap(FirstSeq + ticket[u][target[u]])
                      /\ ticket[u][target[u]] <= queuings'[target[u]]
    BY <1>1, <1>5 DEF TicketInv
  <2>1. pc[u] = pc'[u] /\ target[u] \in Work /\ target[u] \in Items /\ target[u] # t
    BY <1>1, <1>5, ItemAssumption DEF TargetInv, Items
  <2>2. queuings'[target[u]] = queuings[target[u]]
    BY <1>3, <2>1 DEF WorkerTypeOK
  <2> QED BY <2>1, <2>2 DEF TicketInv
<1>9. OwnItemInv'
  <2>1. \A i : Executing(i)' <=> Executing(i)
    BY <1>3 DEF Executing
  <2> SUFFICES ASSUME NEW u \in Task
               PROVE  /\ ~(OnList(work_list, u)' /\ Executing(u)')
                      /\ OnList(work_list, u)' \/ Executing(u)' <=> pc'[u] = "complete" /\ ~done'[u]
                      /\ pc'[u] = "complete" => \A w \in Work : ticket'[u][w] <= runs[w] + Ahead(w, u)'
    BY <1>3 DEF OwnItemInv
  <2>2. CASE u # t
    <3>1. /\ OnList(work_list, u)' <=> OnList(work_list, u)
          /\ \A w : Before(w, u)' <=> Before(w, u)
      BY <1>1, <1>2, <1>3, <2>2, BehindAll DEF WorkerTypeOK
    <3>2. \A w : Ahead(w, u)' = Ahead(w, u)
      BY <2>1, <3>1 DEF Ahead, BeingRun
    <3> QED BY <1>5, <2>1, <2>2, <3>1, <3>2 DEF OwnItemInv
  <2>3. CASE u = t
    <3>1. ~done'[t] /\ ticket'[t] = queuings
      BY <1>1 DEF WorkerTypeOK
    <3>2. ASSUME NEW w \in Work PROVE ticket'[t][w] <= runs[w] + Ahead(w, t)'
      <4>1. w \in Items /\ ticket'[t][w] = queuings[w]
        BY <3>1 DEF Items
      <4>2. queuings[w] = runs[w] + Queued(w) + BeingRun(w) /\ runs[w] \in Int
        BY <4>1 DEF AccountInv, WorkerTypeOK
      <4>3. OnList(work_list, w) => Before(w, t)'
        BY <1>1, <1>2, <1>3, BehindAll DEF WorkerTypeOK
      <4>4. BeingRun(w)' = BeingRun(w) /\ BeingRun(w) \in Int
        BY <2>1 DEF BeingRun
      <4>5. Ahead(w, t)' >= Queued(w) + BeingRun(w) /\ Ahead(w, t)' \in Int /\ Queued(w) \in Int
        BY <1>3, <4>3, <4>4 DEF Ahead, Queued
      <4> QED BY <4>1, <4>2, <4>4, <4>5
    <3> QED BY <1>2, <1>3, <1>5, <2>1, <2>3, <3>1, <3>2
  <2> QED BY <2>2, <2>3
<1> QED BY <1>3, <1>4, <1>6, <1>7, <1>8, <1>9

(* What the properties of the worker rest on holds in every state. *)
THEOREM WorkerInvariant == WorkerSpec => []KWInv
<1>1. WorkerInit => KWInv
  <2> SUFFICES ASSUME WorkerInit PROVE KWInv
    OBVIOUS
  <2> USE DEF WorkerInit
  <2>1. WorkerTypeOK
    <3>1. 0 \in 0..(Modulus - 1) /\ 0 \in 0..MaxQueue /\ 0 \in 0..MaxStop
      BY WrapFacts, BoundAssumption
    <3>2. FirstSeq \in 0..(Modulus - 1)
      BY SeqAssumption DEF Modulus
    <3>6. work_list \in Seq(Items) /\ stops \in 0..MaxStop
      BY <3>1
    <3>3. /\ attached \in BOOLEAN /\ wshould_stop \in BOOLEAN
          /\ wpc \in WorkerLocations /\ wstate \in TaskStates /\ current \in Items \cup {NoItem}
          /\ spc \in {"idle", "wake", "wait"}
      BY DEF WorkerLocations
    <3>4. /\ queue_seq \in [Items -> 0..(Modulus - 1)] /\ done_seq \in [Items -> 0..(Modulus - 1)]
          /\ flushing \in [Items -> Nat] /\ overlap \in [Items -> BOOLEAN]
          /\ queuings \in [Items -> 0..MaxQueue] /\ runs \in [Items -> 0..MaxQueue]
      BY <3>1, <3>2
    <3>5. /\ pc \in [Task -> Locations] /\ target \in [Task -> Work \cup {NoItem}]
          /\ seq \in [Task -> 0..(Modulus - 1)] /\ awake \in [Task -> BOOLEAN]
          /\ done \in [Task -> BOOLEAN] /\ ticket \in [Task -> [Items -> 0..MaxQueue]]
      BY <3>1 DEF Locations
    <3> QED BY <3>3, <3>4, <3>5, <3>6 DEF WorkerTypeOK
  <2>2. \A i : ~OnList(work_list, i) /\ ~Executing(i) /\ NotYetSet(i) = 0
    BY DEF OnList, Executing, NotYetSet
  <2>3. OnceEach(work_list) /\ CurrentInv /\ TargetInv /\ TicketInv
    BY DEF OnceEach, CurrentInv, TargetInv, TicketInv
  <2>4. AccountInv
    BY <2>2 DEF AccountInv, Queued, BeingRun
  <2>5. FlushingInv
    <3>1. \A i : Flushers(i) = {}
      BY DEF Flushers
    <3> QED BY <3>1, FS_EmptySet DEF FlushingInv
  <2>6. SeqInv
    <3>1. Wrap(FirstSeq + 0) = FirstSeq
      <4>1. FirstSeq \in 0..(Modulus - 1)
        BY SeqAssumption DEF Modulus
      <4>2. Wrap(FirstSeq) = FirstSeq
        BY <4>1, WrapFacts
      <4>3. FirstSeq + 0 = FirstSeq
        BY WrapFacts
      <4> QED BY <4>2, <4>3
    <3>2. ASSUME NEW i \in Items
          PROVE  queuings[i] = 0 /\ runs[i] - NotYetSet(i) = 0 /\ queue_seq[i] = FirstSeq /\ done_seq[i] = FirstSeq
      BY <2>2
    <3> QED BY <2>2, <3>1, <3>2 DEF SeqInv
  <2>7. OwnItemInv
    BY <2>2 DEF OwnItemInv
  <2> QED BY <2>1, <2>3, <2>4, <2>5, <2>6, <2>7 DEF KWInv
<1>2. KWInv /\ [WorkerNext]_worker_vars => KWInv'
  <2> SUFFICES ASSUME KWInv, [WorkerNext]_worker_vars PROVE KWInv'
    OBVIOUS
  <2>1. CASE Worker \/ worker_thawed \/ Stop \/ worker_stop_set
    BY <2>1, LoopStep, GetStep, FuncStep, SetDoneStep, WakeStep DEF Worker, Stop
  <2>2. ASSUME NEW w \in Work, queue(w) PROVE KWInv'
    BY <2>2, QueueWorkStep
  <2>3. ASSUME NEW t \in Task,
               Flush(t) \/ flush_kthread_worker(t) \/ \E w \in Work : flush_kthread_work(t, w)
        PROVE  KWInv'
    BY <2>3, FlushStep, FlushWorkerStep
  <2>4. CASE UNCHANGED worker_vars
    BY <2>4, NoStep
  <2> QED BY <2>1, <2>2, <2>3, <2>4 DEF WorkerNext
<1> QED BY <1>1, <1>2, PTL DEF WorkerSpec

(* Every queuing leads to one run, however queueing, running, stopping and *)
(* the replacement of the thread interleave.                               *)
THEOREM WorkerAccounted == WorkerSpec => []WorkAccounted
<1>1. KWInv => WorkAccounted
  BY DEF KWInv, WorkAccounted, AccountInv, Queued, BeingRun
<1> QED BY <1>1, WorkerInvariant, PTL

(* A task leaves a flush only by one of the two returns. *)
LEMMA LeavesFlush ==
  ASSUME KWInv, [WorkerNext]_worker_vars, NEW t \in Task, pc[t] # "idle", pc'[t] = "idle"
  PROVE  \/ pc[t] = "wait" /\ flush_satisfied(t)
         \/ pc[t] = "complete" /\ done[t]
<1>0. pc \in [Task -> Locations]
  BY DEF KWInv, WorkerTypeOK
<1>1. CASE Worker \/ worker_thawed \/ Stop \/ worker_stop_set
  <2>1. pc' = pc
    BY <1>1 DEF Worker, Stop, worker_start, worker_set_state, worker_look_stop, worker_exit, worker_get,
                worker_resume, worker_thawed, worker_func, worker_set_done, worker_wake,
                worker_stop_set, worker_stop_wake, worker_stop_return, worker_leaves, flush_vars
  <2> QED BY <2>1
<1>2. ASSUME NEW w \in Work, queue(w) PROVE FALSE
  BY <1>2 DEF queue, flush_vars
<1>3. ASSUME NEW u \in Task,
             Flush(u) \/ flush_kthread_worker(u) \/ \E w \in Work : flush_kthread_work(u, w)
      PROVE  \/ pc[t] = "wait" /\ flush_satisfied(t)
             \/ pc[t] = "complete" /\ done[t]
  <2>1. CASE flush_inc(u) \/ flush_wait(u) \/ flush_kthread_worker(u) \/ \E w \in Work : flush_kthread_work(u, w)
    BY <1>0, <2>1 DEF flush_inc, flush_wait, flush_kthread_worker, flush_kthread_work
  <2>2. CASE flush_return(u)
    <3>1. u = t
      BY <1>0, <2>2 DEF flush_return, forget_flush
    <3> QED BY <2>2, <3>1 DEF flush_return
  <2>3. CASE flush_worker_return(u)
    <3>1. u = t
      BY <1>0, <2>3 DEF flush_worker_return, forget_flush
    <3> QED BY <2>3, <3>1 DEF flush_worker_return
  <2> QED BY <1>3, <2>1, <2>2, <2>3 DEF Flush
<1>4. CASE UNCHANGED worker_vars
  BY <1>4 DEF worker_vars, flush_vars
<1> QED BY <1>1, <1>2, <1>3, <1>4 DEF WorkerNext

(* flush_kthread_work() returns only after the item has been run as often  *)
(* as it was queued before the call, unless it was queued again before the *)
(* done_seq of a run was set, though the numbers it compares wrap round.   *)
THEOREM WorkerFlushCompletePlain == WorkerSpec => FlushCompletePlain
<1>1. KWInv /\ [WorkerNext]_worker_vars
        => [\A t \in Task : FlushReturns(t) /\ ~overlap[target[t]]
              => runs[target[t]] >= ticket[t][target[t]]]_worker_vars
  <2> SUFFICES ASSUME KWInv, [WorkerNext]_worker_vars, NEW t \in Task, FlushReturns(t), ~overlap[target[t]]
               PROVE  runs[target[t]] >= ticket[t][target[t]]
    OBVIOUS
  <2> DEFINE w == target[t]
             a == ticket[t][w]
             b == runs[w] - NotYetSet(w)
             n == FirstSeq + b
  <2>1. pc[t] = "wait" /\ flush_satisfied(t)
    BY LeavesFlush DEF FlushReturns
  <2>2. w \in Work /\ w \in Items
    BY <2>1 DEF KWInv, TargetInv, Items
  <2>3. a \in Int /\ runs[w] \in Int /\ queuings[w] \in Int /\ FirstSeq \in Int
    BY <2>2, WrapFacts DEF KWInv, WorkerTypeOK
  <2>4. seq[t] = Wrap(FirstSeq + a) /\ a <= queuings[w] /\ done_seq[w] = Wrap(FirstSeq + b)
    BY <2>1, <2>2 DEF KWInv, TicketInv, SeqInv
  <2>5. queuings[w] = runs[w] + Queued(w) + BeingRun(w)
    BY <2>2 DEF KWInv, AccountInv
  <2>6. current = w /\ wpc \in {"func", "seq"} => ~OnList(work_list, w)
    BY <2>2 DEF KWInv, SeqInv
  <2>7. Queued(w) + BeingRun(w) + NotYetSet(w) \in 0..1 /\ NotYetSet(w) \in 0..1
        /\ Queued(w) \in 0..1 /\ BeingRun(w) \in 0..1
    BY <2>6 DEF Queued, BeingRun, NotYetSet, Executing
  <2> SUFFICES ASSUME ~(runs[w] >= a) PROVE FALSE
    OBVIOUS
  <2> HIDE DEF a
  <2>8. b \in Int /\ a = b + 1
    BY <2>3, <2>4, <2>5, <2>7
  <2> HIDE DEF b
  <2>9. n \in Int /\ FirstSeq + a = n + 1
    BY <2>3, <2>8
  <2> HIDE DEF n
  <2>10. Signed(Wrap(n + 1) - Wrap(n)) = 1
    BY <2>9, OneAhead
  <2>11. seq[t] = Wrap(n + 1) /\ done_seq[w] = Wrap(n)
    BY <2>4, <2>9 DEF n
  <2>12. Signed(seq[t] - done_seq[w]) <= 0
    BY <2>1 DEF flush_satisfied
  <2> QED BY <2>10, <2>11, <2>12
<1> QED BY <1>1, WorkerInvariant, PTL DEF WorkerSpec, FlushCompletePlain

(* flush_kthread_worker() returns only after all that was queued before    *)
(* the call has been run, also when the thread was stopped and replaced.   *)
THEOREM WorkerFlushAll == WorkerSpec => WorkerFlushComplete
<1>1. KWInv /\ [WorkerNext]_worker_vars
        => [\A t \in Task : pc[t] = "complete" /\ pc'[t] = "idle"
              => \A w \in Work : runs[w] >= ticket[t][w]]_worker_vars
  <2> SUFFICES ASSUME KWInv, [WorkerNext]_worker_vars, NEW t \in Task, pc[t] = "complete", pc'[t] = "idle",
                      NEW w \in Work
               PROVE  runs[w] >= ticket[t][w]
    OBVIOUS
  <2>1. done[t]
    BY LeavesFlush
  <2>2. ticket[t][w] <= runs[w] + Ahead(w, t) /\ ~OnList(work_list, t)
    BY <2>1 DEF KWInv, OwnItemInv
  <2>3. Ahead(w, t) = 0
    BY <2>2 DEF Ahead
  <2>4. ticket[t][w] \in Int /\ runs[w] \in Int
    BY DEF KWInv, WorkerTypeOK, Items
  <2> QED BY <2>2, <2>3, <2>4
<1> QED BY <1>1, WorkerInvariant, PTL DEF WorkerSpec, WorkerFlushComplete

----------------------------------------------------------------------------
(***************************************************************************)
(* Asynchronous function calls.                                            *)
(***************************************************************************)
Entry(c, d)   == [cookie |-> c, running |-> d]
Pending(c, d) == OnList(async_pending, Entry(c, d))
Running(c, d) == OnList(running[d], c)
AllInProgress == UNION {InProgress(d) : d \in Domain}
Adding        == {t \in AsyncTask : async_pc[t] = "add"}

(* The cookies and entries that are left are enough for the tasks that     *)
(* have read entry_count and are still to list their entry.                *)
RoomInv ==
  /\ next_cookie + Cardinality(Adding) <= MaxCookie
  /\ entry_count + Cardinality(Adding) <= MAX_WORK + Cardinality(AsyncTask)

Sorted(l) == \A i, j \in 1..Len(l) : i < j => l[i].cookie < l[j].cookie

(* A cookie that has been given is in one place, once. *)
PlacesInv ==
  /\ Sorted(async_pending) /\ OnceEach(async_pending)
  /\ \A d \in Domain : OnceEach(running[d])
  /\ \A c \in Cookies, d \in Domain : Pending(c, d) \/ Running(c, d) =>
       /\ c < next_cookie
       /\ ~(Pending(c, d) /\ Running(c, d))
       /\ \A e \in Domain : Pending(c, e) \/ Running(c, e) => e = d

AsyncCountInv ==
  /\ IsFiniteSet(AllInProgress)
  /\ entry_count = Cardinality(AllInProgress)

(* A task that is about to look at the lists once more has found nothing   *)
(* in progress, and if no cookie was given since, there is nothing.        *)
QuietInv ==
  \A t \in AsyncTask :
    /\ arg[t].cookie <= next_cookie
    /\ \A d \in Domain :
         async_pc[t] \in {"full1", "full2"} /\ arg[t].cookie = next_cookie /\ arg[t].dom = d
           => InProgress(d) = {}

AsyncInv == AsyncTypeOK /\ RoomInv /\ PlacesInv /\ AsyncCountInv /\ QuietInv

----------------------------------------------------------------------------
(* Taking an entry off the list leaves it sorted. *)
LEMMA SortedDel ==
  ASSUME NEW S, NEW s \in Seq(S), NEW w, OnList(s, w), Sorted(s)
  PROVE  Sorted(list_del(s, w))
<1> DEFINE k == CHOOSE i \in 1..Len(s) : s[i] = w
           l == list_del(s, w)
<1>1. k \in 1..Len(s)
  BY DEF OnList
<1>2. l = [i \in 1..(Len(s) - 1) |-> IF i < k THEN s[i] ELSE s[i + 1]]
  BY DEF list_del
<1> HIDE DEF k, l
<1>3. Len(s) \in Nat /\ Len(l) = Len(s) - 1
  BY <1>1, <1>2
<1>4. ASSUME NEW i \in 1..Len(l), NEW j \in 1..Len(l), i < j
      PROVE  l[i].cookie < l[j].cookie
  <2> DEFINE p == IF i < k THEN i ELSE i + 1
             q == IF j < k THEN j ELSE j + 1
  <2>1. p \in 1..Len(s) /\ q \in 1..Len(s) /\ p < q
    BY <1>1, <1>3, <1>4
  <2>2. l[i] = s[p] /\ l[j] = s[q]
    BY <1>2, <1>3
  <2> HIDE DEF p, q
  <2> QED BY <2>1, <2>2 DEF Sorted
<1>5. Sorted(l)
  BY <1>4 DEF Sorted
<1> QED BY <1>5 DEF l

----------------------------------------------------------------------------
(* What __lowest_in_progress() returns is next_cookie, or the cookie of a  *)
(* call in progress: it is next_cookie only for an empty domain.           *)
LEMMA LowestInProgress ==
  ASSUME AsyncTypeOK, PlacesInv, NEW d \in Domain,
         NEW low, low = __lowest_in_progress(d), low >= next_cookie
  PROVE  InProgress(d) = {}
<1> DEFINE mine == {i \in 1..Len(async_pending) : async_pending[i].running = d}
<1>1. /\ async_pending \in Seq(Entries) /\ running[d] \in Seq(Cookies) /\ next_cookie \in Nat
      /\ Cookies \subseteq Nat
  BY CountAssumption DEF AsyncTypeOK, Cookies
<1>2. running[d] = <<>>
  <2> SUFFICES ASSUME running[d] # <<>> PROVE FALSE
    OBVIOUS
  <2>1. low = Head(running[d])
    BY DEF __lowest_in_progress
  <2>2. Head(running[d]) \in Cookies /\ Running(Head(running[d]), d)
    BY <1>1 DEF Running, OnList
  <2>3. Head(running[d]) < next_cookie
    BY <2>2 DEF PlacesInv
  <2>4. low \in Nat /\ low < next_cookie
    BY <1>1, <2>1, <2>2, <2>3
  <2> QED BY <1>1, <2>4
<1>3. mine = {}
  <2> SUFFICES ASSUME mine # {} PROVE FALSE
    OBVIOUS
  <2> DEFINE m == CHOOSE i \in mine : \A j \in mine : i <= j
  <2>1. mine \subseteq Nat
    OBVIOUS
  <2>2. m \in mine
    BY <2>1, LeastNat
  <2>3. low = async_pending[m].cookie
    BY <1>2 DEF __lowest_in_progress
  <2> HIDE DEF m
  <2>4. m \in 1..Len(async_pending) /\ async_pending[m].running = d
    BY <2>2
  <2>5. async_pending[m] \in Entries
    BY <1>1, <2>4
  <2>6. async_pending[m].cookie \in Cookies /\ async_pending[m] = Entry(async_pending[m].cookie, d)
    BY <2>4, <2>5 DEF Entries, Entry
  <2>7. Pending(async_pending[m].cookie, d)
    BY <2>4, <2>6 DEF Pending, OnList
  <2>8. async_pending[m].cookie < next_cookie
    BY <2>6, <2>7 DEF PlacesInv
  <2>9. low \in Nat /\ low < next_cookie
    BY <1>1, <2>3, <2>6, <2>8
  <2> QED BY <1>1, <2>9
<1>4. ASSUME NEW c \in Cookies PROVE ~Pending(c, d) /\ ~Running(c, d)
  <2>1. ~Running(c, d)
    BY <1>2 DEF Running, OnList
  <2>2. ~Pending(c, d)
    <3> SUFFICES ASSUME NEW i \in 1..Len(async_pending), async_pending[i] = Entry(c, d) PROVE FALSE
      BY DEF Pending, OnList
    <3>1. async_pending[i].running = d
      BY DEF Entry
    <3> QED BY <1>3, <3>1
  <2> QED BY <2>1, <2>2
<1> QED BY <1>4 DEF InProgress, Pending, Running, Entry

LEMMA AsyncInitial == AsyncInit => AsyncInv
<1> SUFFICES ASSUME AsyncInit PROVE AsyncInv
  OBVIOUS
<1>0. 1 \in Cookies /\ async_running \in Domain
  BY CountAssumption, DomainAssumption DEF Cookies
<1>1. AsyncTypeOK
  BY <1>0 DEF AsyncInit, AsyncTypeOK, AsyncLocations, NoArg
<1>2. \A d \in Domain : InProgress(d) = {}
  BY DEF AsyncInit, InProgress, OnList
<1>3. Adding = {} /\ Cardinality(Adding) = 0 /\ Cardinality(AsyncTask) \in Nat
  BY FS_EmptySet, FS_CardinalityType, AsyncTaskAssumption DEF AsyncInit, Adding
<1>4. RoomInv
  BY <1>3, CountAssumption DEF AsyncInit, RoomInv
<1>5. PlacesInv
  BY DEF AsyncInit, PlacesInv, Sorted, OnceEach, Pending, Running, OnList
<1>6. AllInProgress = {}
  BY <1>2 DEF AllInProgress
<1>7. AsyncCountInv
  BY <1>6, FS_EmptySet DEF AsyncCountInv, AsyncInit
<1>8. QuietInv
  BY <1>0 DEF QuietInv, AsyncInit, NoArg, Cookies
<1> QED BY <1>1, <1>4, <1>5, <1>7, <1>8 DEF AsyncInv

----------------------------------------------------------------------------
(* The lists and counts of a step that does not touch them. *)
LEMMA AsyncListsSame ==
  ASSUME UNCHANGED <<async_pending, running>>
  PROVE  /\ \A c, d : (Pending(c, d)' <=> Pending(c, d)) /\ (Running(c, d)' <=> Running(c, d))
         /\ \A d : InProgress(d)' = InProgress(d)
         /\ AllInProgress' = AllInProgress
<1>1. \A d : InProgress(d)' = InProgress(d)
  BY DEF InProgress
<1>2. AllInProgress' = AllInProgress
  BY <1>1 DEF AllInProgress
<1>3. \A c, d : (Pending(c, d)' <=> Pending(c, d)) /\ (Running(c, d)' <=> Running(c, d))
  BY DEF Pending, Running
<1> QED BY <1>1, <1>2, <1>3

LEMMA PlacesSame ==
  ASSUME PlacesInv, AsyncTypeOK, UNCHANGED <<async_pending, running>>,
         next_cookie' \in Nat, next_cookie' >= next_cookie
  PROVE  PlacesInv'
<1>1. Sorted(async_pending)' /\ OnceEach(async_pending)' /\ \A d \in Domain : OnceEach(running[d])'
  BY DEF PlacesInv
<1>2. \A c \in Cookies : c < next_cookie => c < next_cookie'
  BY CountAssumption DEF AsyncTypeOK, Cookies
<1> QED BY <1>1, <1>2, AsyncListsSame DEF PlacesInv

LEMMA AddingSets ==
  /\ IsFiniteSet(Adding) /\ Cardinality(Adding) \in Nat
  /\ Cardinality(AsyncTask) \in Nat /\ Cardinality(Adding) <= Cardinality(AsyncTask)
<1>1. Adding \subseteq AsyncTask
  BY DEF Adding
<1> QED BY <1>1, FS_Subset, FS_CardinalityType, AsyncTaskAssumption

LEMMA AddingLeft ==
  ASSUME NEW t \in AsyncTask, AsyncTypeOK, NEW l, l # "add", goto(t, l)
  PROVE  /\ IsFiniteSet(Adding') /\ Cardinality(Adding') \in Nat
         /\ async_pc[t] # "add" => Adding' = Adding
         /\ async_pc[t] = "add" => Cardinality(Adding') = Cardinality(Adding) - 1
<1>1. Adding' = Adding \ {t}
  BY DEF goto, Adding, AsyncTypeOK
<1>2. async_pc[t] # "add" <=> t \notin Adding
  BY DEF Adding
<1> QED BY <1>1, <1>2, AddingSets, FS_RemoveElement, FS_CardinalityType

----------------------------------------------------------------------------
(* What the three changes of the lists do. *)
LEMMA AddEffect ==
  ASSUME AsyncTypeOK, PlacesInv, NEW t \in AsyncTask, async_schedule_add(t)
  PROVE  /\ async_pending' \in Seq(Entries)
         /\ Sorted(async_pending)' /\ OnceEach(async_pending)'
         /\ \A c \in Cookies, d \in Domain :
              Pending(c, d)' <=> Pending(c, d) \/ (c = next_cookie /\ d = arg[t].dom)
         /\ \A c, d : Running(c, d)' <=> Running(c, d)
<1> DEFINE n == next_cookie
           e == Entry(n, arg[t].dom)
<1>0. /\ async_pending \in Seq(Entries) /\ n \in Cookies /\ arg[t].dom \in Domain
      /\ Cookies \subseteq Nat /\ OnceEach(async_pending) /\ Sorted(async_pending)
  BY CountAssumption DEF AsyncTypeOK, Cookies, PlacesInv
<1>1. e \in Entries /\ e.cookie = n
  BY <1>0 DEF Entries, Entry
<1>2. async_pending' = list_add_tail(async_pending, e)
  BY DEF async_schedule_add, Entry
<1>3. ~OnList(async_pending, e)
  <2>1. Pending(n, arg[t].dom) => n < n
    BY <1>0 DEF PlacesInv
  <2> QED BY <1>0, <2>1 DEF Pending
<1>4. /\ async_pending' \in Seq(Entries)
      /\ OnList(async_pending', e)
      /\ \A v : v # e => (OnList(async_pending', v) <=> OnList(async_pending, v))
      /\ OnceEach(async_pending')
  BY <1>0, <1>1, <1>2, <1>3, ListAddTail
<1>5. Sorted(async_pending')
  <2>1. /\ Len(async_pending') = Len(async_pending) + 1 /\ Len(async_pending) \in Nat
        /\ \A i \in 1..Len(async_pending) : async_pending'[i] = async_pending[i]
        /\ async_pending'[Len(async_pending) + 1] = e
    BY <1>0, <1>2 DEF list_add_tail
  <2>2. ASSUME NEW i \in 1..Len(async_pending) PROVE async_pending[i].cookie < n
    <3>1. async_pending[i] \in Entries
      BY <1>0
    <3>2. PICK c \in Cookies, d \in Domain : async_pending[i] = Entry(c, d)
      BY <3>1 DEF Entries, Entry
    <3>3. Pending(c, d)
      BY <3>2 DEF Pending, OnList
    <3>4. c < n /\ Entry(c, d).cookie = c
      BY <3>3 DEF PlacesInv, Entry
    <3> QED BY <3>2, <3>4
  <2> SUFFICES ASSUME NEW i \in 1..Len(async_pending'), NEW j \in 1..Len(async_pending'), i < j
               PROVE  async_pending'[i].cookie < async_pending'[j].cookie
    BY DEF Sorted
  <2>3. i \in 1..Len(async_pending)
    BY <2>1
  <2>4. CASE j \in 1..Len(async_pending)
    BY <1>0, <2>1, <2>3, <2>4 DEF Sorted
  <2>5. CASE j = Len(async_pending) + 1
    BY <1>1, <2>1, <2>2, <2>3, <2>5
  <2> QED BY <2>1, <2>4, <2>5
<1>6. ASSUME NEW c \in Cookies, NEW d \in Domain
      PROVE  Pending(c, d)' <=> Pending(c, d) \/ (c = n /\ d = arg[t].dom)
  <2>1. Entry(c, d) = e <=> (c = n /\ d = arg[t].dom)
    BY DEF Entry
  <2> QED BY <1>4, <2>1 DEF Pending
<1>7. \A c, d : Running(c, d)' <=> Running(c, d)
  BY DEF async_schedule_add, Running
<1> QED BY <1>4, <1>5, <1>6, <1>7

LEMMA MoveEffect ==
  ASSUME AsyncTypeOK, PlacesInv, NEW e \in Entries, async_run_move(e)
  PROVE  /\ async_pending' \in Seq(Entries) /\ running' \in [Domain -> Seq(Cookies)]
         /\ Sorted(async_pending)' /\ OnceEach(async_pending)'
         /\ \A d \in Domain : OnceEach(running[d])'
         /\ Pending(e.cookie, e.running)
         /\ \A c \in Cookies, d \in Domain :
              /\ Pending(c, d)' <=> Pending(c, d) /\ ~(c = e.cookie /\ d = e.running)
              /\ Running(c, d)' <=> Running(c, d) \/ (c = e.cookie /\ d = e.running)
<1>0. /\ async_pending \in Seq(Entries) /\ running \in [Domain -> Seq(Cookies)]
      /\ Cookies \subseteq Nat /\ OnceEach(async_pending) /\ Sorted(async_pending)
      /\ \A d \in Domain : OnceEach(running[d])
  BY CountAssumption DEF AsyncTypeOK, Cookies, PlacesInv
<1>1. e.cookie \in Cookies /\ e.running \in Domain /\ e = Entry(e.cookie, e.running)
  BY DEF Entries, Entry
<1> DEFINE k == e.cookie
           w == e.running
<1>2. /\ OnList(async_pending, e) /\ async_pending' = list_del(async_pending, e)
      /\ running' = [running EXCEPT ![w] = list_add_tail(running[w], k)]
  BY DEF async_run_move
<1>3. /\ async_pending' \in Seq(Entries)
      /\ ~OnList(async_pending', e)
      /\ \A v : v # e => (OnList(async_pending', v) <=> OnList(async_pending, v))
      /\ OnceEach(async_pending')
  BY <1>0, <1>2, ListDel
<1>4. Pending(k, w) /\ ~Running(k, w)
  BY <1>1, <1>2 DEF Pending, PlacesInv
<1>5. /\ list_add_tail(running[w], k) \in Seq(Cookies)
      /\ OnList(list_add_tail(running[w], k), k)
      /\ \A v : v # k => (OnList(list_add_tail(running[w], k), v) <=> OnList(running[w], v))
      /\ OnceEach(list_add_tail(running[w], k))
  BY <1>0, <1>1, <1>4, ListAddTail DEF Running
<1>6. /\ running' \in [Domain -> Seq(Cookies)] /\ running'[w] = list_add_tail(running[w], k)
      /\ \A d \in Domain \ {w} : running'[d] = running[d]
  BY <1>0, <1>1, <1>2, <1>5
<1>7. \A d \in Domain : OnceEach(running'[d])
  BY <1>0, <1>5, <1>6
<1>8. Sorted(async_pending')
  BY <1>0, <1>2, SortedDel
<1>9. ASSUME NEW c \in Cookies, NEW d \in Domain
      PROVE  Pending(c, d)' <=> Pending(c, d) /\ ~(c = k /\ d = w)
  <2>1. Entry(c, d) = e <=> (c = k /\ d = w)
    BY <1>1 DEF Entry
  <2> QED BY <1>3, <2>1 DEF Pending
<1>10. ASSUME NEW c \in Cookies, NEW d \in Domain
       PROVE  Running(c, d)' <=> Running(c, d) \/ (c = k /\ d = w)
  BY <1>5, <1>6 DEF Running
<1> QED BY <1>3, <1>4, <1>6, <1>7, <1>8, <1>9, <1>10

LEMMA DoneEffect ==
  ASSUME AsyncTypeOK, PlacesInv, NEW w \in Domain, NEW k \in Cookies, async_run_done(w, k)
  PROVE  /\ running' \in [Domain -> Seq(Cookies)]
         /\ \A d \in Domain : OnceEach(running[d])'
         /\ Running(k, w)
         /\ \A c, d : Pending(c, d)' <=> Pending(c, d)
         /\ \A c \in Cookies, d \in Domain :
              Running(c, d)' <=> Running(c, d) /\ ~(c = k /\ d = w)
<1>0. /\ running \in [Domain -> Seq(Cookies)] /\ \A d \in Domain : OnceEach(running[d])
  BY DEF AsyncTypeOK, PlacesInv
<1>1. /\ OnList(running[w], k) /\ running' = [running EXCEPT ![w] = list_del(running[w], k)]
      /\ async_pending' = async_pending
  BY DEF async_run_done
<1>2. /\ list_del(running[w], k) \in Seq(Cookies)
      /\ ~OnList(list_del(running[w], k), k)
      /\ \A v : v # k => (OnList(list_del(running[w], k), v) <=> OnList(running[w], v))
      /\ OnceEach(list_del(running[w], k))
  BY <1>0, <1>1, ListDel
<1>3. /\ running' \in [Domain -> Seq(Cookies)] /\ running'[w] = list_del(running[w], k)
      /\ \A d \in Domain \ {w} : running'[d] = running[d]
  BY <1>0, <1>1, <1>2
<1>4. \A d \in Domain : OnceEach(running'[d])
  BY <1>0, <1>2, <1>3
<1>5. ASSUME NEW c \in Cookies, NEW d \in Domain
      PROVE  Running(c, d)' <=> Running(c, d) /\ ~(c = k /\ d = w)
  BY <1>2, <1>3 DEF Running
<1> QED BY <1>1, <1>3, <1>4, <1>5 DEF Pending, Running

LEMMA InProgressIs ==
  /\ \A d : InProgress(d) = {c \in Cookies : Pending(c, d) \/ Running(c, d)}
  /\ AllInProgress = {c \in Cookies : \E d \in Domain : Pending(c, d) \/ Running(c, d)}
<1>1. \A d : InProgress(d) = {c \in Cookies : Pending(c, d) \/ Running(c, d)}
  BY DEF InProgress, Pending, Running, Entry
<1> QED BY <1>1 DEF AllInProgress

LEMMA InProgressIsNext ==
  /\ \A d : InProgress(d)' = {c \in Cookies : Pending(c, d)' \/ Running(c, d)'}
  /\ AllInProgress' = {c \in Cookies : \E d \in Domain : Pending(c, d)' \/ Running(c, d)'}
<1>1. \A d : InProgress(d)' = {c \in Cookies : Pending(c, d)' \/ Running(c, d)'}
  BY DEF InProgress, Pending, Running, Entry
<1> QED BY <1>1 DEF AllInProgress

----------------------------------------------------------------------------
(* One lemma for each kind of step: a new entry, a move and an end change  *)
(* the lists; the others leave them alone.                                 *)
LEMMA AddStep ==
  ASSUME AsyncInv, NEW t \in AsyncTask, async_schedule_add(t)
  PROVE  AsyncInv'
<1> DEFINE n == next_cookie
           w == arg[t].dom
<1>0. /\ AsyncTypeOK /\ RoomInv /\ PlacesInv /\ AsyncCountInv /\ QuietInv
      /\ n \in Cookies /\ n \in Nat /\ w \in Domain /\ arg[t].cookie \in Cookies /\ Cookies \subseteq Nat
      /\ entry_count \in Nat
      /\ arg \in [AsyncTask -> [dom : Domain, cookie : Cookies]]
  BY CountAssumption DEF AsyncInv, AsyncTypeOK, Cookies
<1>1. /\ async_pc[t] = "add" /\ next_cookie' = n + 1 /\ entry_count' = entry_count + 1
      /\ goto(t, "queue") /\ UNCHANGED <<running, queued, finished, async_awake>>
      /\ arg' = [arg EXCEPT ![t] = [dom |-> w, cookie |-> n]]
  <2>1. arg[t] \in [dom : Domain, cookie : Cookies]
    BY <1>0
  <2>2. [arg[t] EXCEPT !.cookie = n] = [dom |-> w, cookie |-> n]
    BY <2>1
  <2>3. arg' = [arg EXCEPT ![t] = [arg[t] EXCEPT !.cookie = n]]
    BY DEF async_schedule_add
  <2> QED BY <2>2, <2>3 DEF async_schedule_add
<1>2. /\ async_pending' \in Seq(Entries)
      /\ Sorted(async_pending)' /\ OnceEach(async_pending)'
      /\ \A c \in Cookies, d \in Domain :
           Pending(c, d)' <=> Pending(c, d) \/ (c = n /\ d = w)
      /\ \A c, d : Running(c, d)' <=> Running(c, d)
  BY <1>0, AddEffect
<1>3. /\ Cardinality(Adding) \in Nat /\ Cardinality(Adding') \in Nat
      /\ Cardinality(Adding') = Cardinality(Adding) - 1 /\ Cardinality(AsyncTask) \in Nat
  BY <1>0, <1>1, AddingLeft, AddingSets
<1>4. RoomInv'
  BY <1>0, <1>1, <1>3, CountAssumption DEF RoomInv
<1>5. AsyncTypeOK'
  <2>1. next_cookie' \in Cookies
    BY <1>0, <1>1, <1>3, <1>4, CountAssumption DEF RoomInv, Cookies
  <2>2. arg' \in [AsyncTask -> [dom : Domain, cookie : Cookies]]
    BY <1>0, <1>1
  <2>3. async_pc' \in [AsyncTask -> AsyncLocations]
    BY <1>0, <1>1 DEF goto, AsyncTypeOK, AsyncLocations
  <2>4. entry_count' \in Nat
    BY <1>0, <1>1
  <2> QED BY <1>0, <1>1, <1>2, <2>1, <2>2, <2>3, <2>4 DEF AsyncTypeOK
<1>6. PlacesInv'
  <2>1. \A d \in Domain : OnceEach(running[d])'
    BY <1>0, <1>1 DEF PlacesInv
  <2>2. ASSUME NEW d \in Domain PROVE ~Pending(n, d) /\ ~Running(n, d)
    <3>1. Pending(n, d) \/ Running(n, d) => n < n
      BY <1>0 DEF PlacesInv
    <3> QED BY <1>0, <3>1
  <2>3. ASSUME NEW c \in Cookies, NEW d \in Domain, Pending(c, d)' \/ Running(c, d)'
        PROVE  /\ c < n + 1
               /\ ~(Pending(c, d)' /\ Running(c, d)')
               /\ \A e \in Domain : Pending(c, e)' \/ Running(c, e)' => e = d
    <3>1. CASE c = n
      <4>1. c < n + 1
        BY <1>0, <3>1
      <4> QED BY <1>2, <2>2, <2>3, <3>1, <4>1
    <3>2. CASE c # n
      <4>1. Pending(c, d) \/ Running(c, d)
        BY <1>2, <2>3, <3>2
      <4>2. /\ c < n /\ ~(Pending(c, d) /\ Running(c, d))
            /\ \A e \in Domain : Pending(c, e) \/ Running(c, e) => e = d
        BY <1>0, <4>1 DEF PlacesInv
      <4>3. c < n + 1
        BY <1>0, <4>2
      <4> QED BY <1>2, <3>2, <4>2, <4>3
    <3> QED BY <3>1, <3>2
  <2> QED BY <1>1, <1>2, <2>1, <2>3 DEF PlacesInv
<1>7. AsyncCountInv'
  <2>1. AllInProgress' = AllInProgress \cup {n}
    BY <1>0, <1>2, InProgressIs, InProgressIsNext
  <2>2. n \notin AllInProgress
    <3>1. ASSUME NEW d \in Domain, Pending(n, d) \/ Running(n, d) PROVE FALSE
      <4>1. n < n
        BY <1>0, <3>1 DEF PlacesInv
      <4> QED BY <1>0, <4>1
    <3> QED BY <3>1, InProgressIs
  <2>3. IsFiniteSet(AllInProgress) /\ entry_count = Cardinality(AllInProgress)
    BY <1>0 DEF AsyncCountInv
  <2>4. /\ IsFiniteSet(AllInProgress \cup {n})
        /\ Cardinality(AllInProgress \cup {n}) = Cardinality(AllInProgress) + 1
    BY <2>2, <2>3, FS_AddElement
  <2> QED BY <1>1, <2>1, <2>3, <2>4 DEF AsyncCountInv
<1>8. QuietInv'
  <2> SUFFICES ASSUME NEW u \in AsyncTask
               PROVE  /\ arg'[u].cookie <= n + 1
                      /\ ~(async_pc'[u] \in {"full1", "full2"} /\ arg'[u].cookie = n + 1)
    BY <1>1 DEF QuietInv
  <2>1. arg[u].cookie \in Nat /\ arg[u].cookie <= n
    BY <1>0 DEF QuietInv
  <2>2. arg'[u].cookie = IF u = t THEN n ELSE arg[u].cookie
    BY <1>0, <1>1
  <2> QED BY <1>0, <2>1, <2>2
<1> QED BY <1>4, <1>5, <1>6, <1>7, <1>8 DEF AsyncInv

LEMMA MoveStep ==
  ASSUME AsyncInv, NEW e \in Entries, async_run_move(e)
  PROVE  AsyncInv'
<1> DEFINE k == e.cookie
           w == e.running
<1>0. /\ AsyncTypeOK /\ RoomInv /\ PlacesInv /\ AsyncCountInv /\ QuietInv
      /\ k \in Cookies /\ w \in Domain
  BY DEF AsyncInv, Entries
<1>1. /\ queued' = queued \ {k}
      /\ UNCHANGED <<next_cookie, entry_count, finished, async_pc, arg, async_awake>>
  BY DEF async_run_move
<1>2. /\ async_pending' \in Seq(Entries) /\ running' \in [Domain -> Seq(Cookies)]
      /\ Sorted(async_pending)' /\ OnceEach(async_pending)'
      /\ \A d \in Domain : OnceEach(running[d])'
      /\ Pending(k, w)
      /\ \A c \in Cookies, d \in Domain :
           /\ Pending(c, d)' <=> Pending(c, d) /\ ~(c = k /\ d = w)
           /\ Running(c, d)' <=> Running(c, d) \/ (c = k /\ d = w)
  BY <1>0, MoveEffect
<1>3. AsyncTypeOK'
  BY <1>0, <1>1, <1>2 DEF AsyncTypeOK
<1>4. Adding' = Adding /\ RoomInv'
  BY <1>0, <1>1 DEF RoomInv, Adding
<1>5. PlacesInv'
  <2>1. ASSUME NEW c \in Cookies, NEW d \in Domain, Pending(c, d)' \/ Running(c, d)'
        PROVE  /\ c < next_cookie
               /\ ~(Pending(c, d)' /\ Running(c, d)')
               /\ \A f \in Domain : Pending(c, f)' \/ Running(c, f)' => f = d
    <3>1. Pending(c, d) \/ Running(c, d)
      BY <1>2, <2>1
    <3>2. /\ c < next_cookie /\ ~(Pending(c, d) /\ Running(c, d))
          /\ \A f \in Domain : Pending(c, f) \/ Running(c, f) => f = d
      BY <1>0, <3>1 DEF PlacesInv
    <3> QED BY <1>2, <3>2
  <2> QED BY <1>1, <1>2, <2>1 DEF PlacesInv
<1>6. \A d \in Domain : InProgress(d)' = InProgress(d)
  BY <1>0, <1>2, InProgressIs, InProgressIsNext
<1>7. AllInProgress' = AllInProgress
  BY <1>6 DEF AllInProgress
<1>8. AsyncCountInv'
  BY <1>0, <1>1, <1>7 DEF AsyncCountInv
<1>9. \A u \in AsyncTask : arg[u].dom \in Domain
  BY <1>0 DEF AsyncTypeOK
<1>10. QuietInv'
  BY <1>0, <1>1, <1>6, <1>9 DEF QuietInv
<1> QED BY <1>3, <1>4, <1>5, <1>8, <1>10 DEF AsyncInv

LEMMA DoneStep ==
  ASSUME AsyncInv, NEW w \in Domain, NEW k \in Cookies, async_run_done(w, k)
  PROVE  AsyncInv'
<1>0. /\ AsyncTypeOK /\ RoomInv /\ PlacesInv /\ AsyncCountInv /\ QuietInv
  BY DEF AsyncInv
<1>1. /\ entry_count' = entry_count - 1 /\ finished' = finished + 1
      /\ UNCHANGED <<next_cookie, async_pending, queued, async_pc, arg, async_awake>>
  BY DEF async_run_done
<1>2. /\ running' \in [Domain -> Seq(Cookies)]
      /\ \A d \in Domain : OnceEach(running[d])'
      /\ Running(k, w)
      /\ \A c, d : Pending(c, d)' <=> Pending(c, d)
      /\ \A c \in Cookies, d \in Domain :
           Running(c, d)' <=> Running(c, d) /\ ~(c = k /\ d = w)
  BY <1>0, DoneEffect
<1>3. PlacesInv'
  <2>1. ASSUME NEW c \in Cookies, NEW d \in Domain, Pending(c, d)' \/ Running(c, d)'
        PROVE  /\ c < next_cookie
               /\ ~(Pending(c, d)' /\ Running(c, d)')
               /\ \A f \in Domain : Pending(c, f)' \/ Running(c, f)' => f = d
    <3>1. Pending(c, d) \/ Running(c, d)
      BY <1>2, <2>1
    <3>2. /\ c < next_cookie /\ ~(Pending(c, d) /\ Running(c, d))
          /\ \A f \in Domain : Pending(c, f) \/ Running(c, f) => f = d
      BY <1>0, <3>1 DEF PlacesInv
    <3> QED BY <1>2, <3>2
  <2> QED BY <1>0, <1>1, <1>2, <2>1 DEF PlacesInv
<1>4. \A d \in Domain : InProgress(d)' \subseteq InProgress(d)
  BY <1>2, InProgressIs, InProgressIsNext
<1>5. k \in AllInProgress /\ AllInProgress' = AllInProgress \ {k}
  <2>1. \A d \in Domain : ~Pending(k, d) /\ (Running(k, d) => d = w)
    BY <1>0, <1>2 DEF PlacesInv
  <2> QED BY <1>2, <2>1, InProgressIs, InProgressIsNext
<1>6. /\ IsFiniteSet(AllInProgress') /\ Cardinality(AllInProgress') = entry_count - 1
      /\ entry_count - 1 \in Nat
  <2>1. IsFiniteSet(AllInProgress) /\ entry_count = Cardinality(AllInProgress)
    BY <1>0 DEF AsyncCountInv
  <2>2. /\ IsFiniteSet(AllInProgress \ {k})
        /\ Cardinality(AllInProgress \ {k}) = Cardinality(AllInProgress) - 1
    BY <1>5, <2>1, FS_RemoveElement
  <2>3. Cardinality(AllInProgress \ {k}) \in Nat
    BY <2>2, FS_CardinalityType
  <2> QED BY <1>5, <2>1, <2>2, <2>3
<1>7. AsyncCountInv'
  BY <1>1, <1>6 DEF AsyncCountInv
<1>8. AsyncTypeOK'
  BY <1>0, <1>1, <1>2, <1>6 DEF AsyncTypeOK
<1>9. Adding' = Adding /\ Cardinality(Adding) \in Nat /\ Cardinality(AsyncTask) \in Nat
  BY <1>1, AddingSets DEF Adding
<1>10. RoomInv'
  BY <1>0, <1>1, <1>6, <1>9, CountAssumption DEF RoomInv, AsyncTypeOK
<1>11. \A u \in AsyncTask : arg[u].dom \in Domain
  BY <1>0 DEF AsyncTypeOK
<1>12. QuietInv'
  BY <1>0, <1>1, <1>4, <1>11 DEF QuietInv
<1> QED BY <1>3, <1>7, <1>8, <1>10, <1>12 DEF AsyncInv

LEMMA SameLists ==
  ASSUME AsyncInv, UNCHANGED <<async_pending, running, entry_count>>,
         next_cookie' >= next_cookie, AsyncTypeOK', RoomInv', QuietInv'
  PROVE  AsyncInv'
<1>1. next_cookie' \in Nat
  BY CountAssumption DEF AsyncTypeOK, Cookies
<1>2. PlacesInv'
  BY <1>1, PlacesSame DEF AsyncInv
<1>3. AsyncCountInv'
  BY AsyncListsSame DEF AsyncInv, AsyncCountInv
<1> QED BY <1>2, <1>3 DEF AsyncInv

(* A task goes on without touching the lists or the next cookie. *)
LEMMA TaskStep ==
  ASSUME AsyncInv, NEW t \in AsyncTask, UNCHANGED <<async_pending, running, entry_count, next_cookie>>,
         NEW l \in AsyncLocations, l # "add", async_pc[t] # "add", goto(t, l),
         NEW x \in [dom : Domain, cookie : Cookies], arg' = [arg EXCEPT ![t] = x],
         x.cookie <= next_cookie,
         l \in {"full1", "full2"} /\ x.cookie = next_cookie => InProgress(x.dom) = {},
         queued' \subseteq Cookies, finished' \in Nat, async_awake' \in [AsyncTask -> BOOLEAN]
  PROVE  AsyncInv'
<1>0. AsyncTypeOK /\ RoomInv /\ QuietInv /\ next_cookie \in Nat
  BY CountAssumption DEF AsyncInv, AsyncTypeOK, Cookies
<1>1. AsyncTypeOK'
  BY <1>0 DEF AsyncTypeOK, goto
<1>2. Adding' = Adding
  BY <1>0, AddingLeft
<1>3. RoomInv'
  BY <1>0, <1>2 DEF RoomInv
<1>4. \A d : InProgress(d)' = InProgress(d)
  BY AsyncListsSame
<1>5. QuietInv'
  <2> SUFFICES ASSUME NEW u \in AsyncTask
               PROVE  /\ arg'[u].cookie <= next_cookie
                      /\ \A d \in Domain :
                           async_pc'[u] \in {"full1", "full2"} /\ arg'[u].cookie = next_cookie
                             /\ arg'[u].dom = d => InProgress(d)' = {}
    BY DEF QuietInv
  <2>1. CASE u = t
    <3>1. arg'[u] = x /\ async_pc'[u] = l
      BY <1>0, <2>1 DEF AsyncTypeOK, goto
    <3> QED BY <1>4, <3>1
  <2>2. CASE u # t
    <3>1. arg'[u] = arg[u] /\ async_pc'[u] = async_pc[u]
      BY <1>0, <2>2 DEF AsyncTypeOK, goto
    <3> QED BY <1>0, <1>4, <3>1 DEF QuietInv
  <2> QED BY <2>1, <2>2
<1> QED BY <1>0, <1>1, <1>3, <1>5, SameLists

LEMMA SubmitStep ==
  ASSUME AsyncInv, NEW t \in AsyncTask, Submit(t)
  PROVE  AsyncInv'
<1>0. /\ AsyncTypeOK /\ RoomInv /\ QuietInv /\ next_cookie \in Nat /\ Cookies \subseteq Nat
      /\ entry_count \in Nat /\ MAX_WORK \in Nat /\ MaxCookie \in Nat
  BY CountAssumption DEF AsyncInv, AsyncTypeOK, Cookies
<1>1. CASE async_schedule_direct(t)
  <2>1. /\ async_pc[t] = "idle" /\ next_cookie' = next_cookie + 1 /\ goto(t, "direct")
        /\ next_cookie + Cardinality(Adding) < MaxCookie
        /\ UNCHANGED <<lists, arg, async_awake>>
    BY <1>1 DEF async_schedule_direct, cookies_left, Adding
  <2>2. Adding' = Adding /\ Cardinality(Adding) \in Nat
    BY <1>0, <2>1, AddingLeft, AddingSets
  <2>3. RoomInv'
    BY <1>0, <2>1, <2>2 DEF RoomInv, lists
  <2>4. AsyncTypeOK'
    <3>1. next_cookie' \in Cookies
      BY <1>0, <2>1, <2>2 DEF Cookies
    <3>2. async_pc' \in [AsyncTask -> AsyncLocations]
      BY <1>0, <2>1 DEF goto, AsyncTypeOK, AsyncLocations
    <3> QED BY <1>0, <2>1, <3>1, <3>2 DEF AsyncTypeOK, lists
  <2>5. QuietInv'
    <3> SUFFICES ASSUME NEW u \in AsyncTask
                 PROVE  arg[u].cookie <= next_cookie + 1 /\ arg[u].cookie # next_cookie + 1
      BY <2>1 DEF QuietInv
    <3>1. arg[u].cookie \in Nat /\ arg[u].cookie <= next_cookie
      BY <1>0 DEF QuietInv, AsyncTypeOK
    <3> QED BY <1>0, <3>1
  <2>6. next_cookie' >= next_cookie
    BY <1>0, <2>1
  <2> QED BY <2>1, <2>3, <2>4, <2>5, <2>6, SameLists DEF lists
<1>2. ASSUME NEW d \in Domain, async_schedule_domain(t, d)
      PROVE  AsyncInv'
  <2>1. /\ async_pc[t] = "idle" /\ goto(t, "add") /\ ~(entry_count > MAX_WORK)
        /\ next_cookie + Cardinality(Adding) < MaxCookie
        /\ UNCHANGED <<next_cookie, lists, async_awake>>
    BY <1>2 DEF async_schedule_domain, cookies_left, Adding
  <2>2. arg' = [arg EXCEPT ![t] = [dom |-> d, cookie |-> arg[t].cookie]]
    <3>1. arg[t] \in [dom : Domain, cookie : Cookies]
      BY <1>0 DEF AsyncTypeOK
    <3>2. [arg[t] EXCEPT !.dom = d] = [dom |-> d, cookie |-> arg[t].cookie]
      BY <3>1
    <3>3. arg' = [arg EXCEPT ![t] = [arg[t] EXCEPT !.dom = d]]
      BY <1>2 DEF async_schedule_domain
    <3> QED BY <3>2, <3>3
  <2>3. Adding' = Adding \cup {t} /\ t \notin Adding
    BY <1>0, <2>1 DEF Adding, goto, AsyncTypeOK
  <2>4. /\ Cardinality(Adding') = Cardinality(Adding) + 1 /\ Cardinality(Adding) \in Nat
        /\ IsFiniteSet(Adding')
    BY <2>3, AddingSets, FS_AddElement
  <2>5. Cardinality(Adding') <= Cardinality(AsyncTask) /\ Cardinality(AsyncTask) \in Nat
    <3>1. Adding' \subseteq AsyncTask
      BY DEF Adding
    <3> QED BY <3>1, FS_Subset, FS_CardinalityType, AsyncTaskAssumption
  <2>6. RoomInv'
    BY <1>0, <2>1, <2>4, <2>5 DEF RoomInv, lists
  <2>7. AsyncTypeOK'
    <3>1. async_pc' \in [AsyncTask -> AsyncLocations]
      BY <1>0, <2>1 DEF goto, AsyncTypeOK, AsyncLocations
    <3>2. arg' \in [AsyncTask -> [dom : Domain, cookie : Cookies]]
      BY <1>0, <2>2 DEF AsyncTypeOK
    <3> QED BY <1>0, <2>1, <3>1, <3>2 DEF AsyncTypeOK, lists
  <2>8. \A e : InProgress(e)' = InProgress(e)
    BY <2>1, AsyncListsSame DEF lists
  <2>9. QuietInv'
    <3> SUFFICES ASSUME NEW u \in AsyncTask
                 PROVE  /\ arg'[u].cookie <= next_cookie
                        /\ \A e \in Domain :
                             async_pc'[u] \in {"full1", "full2"} /\ arg'[u].cookie = next_cookie
                               /\ arg'[u].dom = e => InProgress(e)' = {}
      BY <2>1 DEF QuietInv
    <3>1. CASE u = t
      <4>1. arg'[u].cookie = arg[t].cookie /\ async_pc'[u] = "add"
        BY <1>0, <2>1, <2>2, <3>1 DEF AsyncTypeOK, goto
      <4> QED BY <1>0, <4>1 DEF QuietInv
    <3>2. CASE u # t
      <4>1. arg'[u] = arg[u] /\ async_pc'[u] = async_pc[u]
        BY <1>0, <2>1, <2>2, <3>2 DEF AsyncTypeOK, goto
      <4> QED BY <1>0, <2>8, <4>1 DEF QuietInv
    <3> QED BY <3>1, <3>2
  <2>10. next_cookie' >= next_cookie
    BY <1>0, <2>1
  <2> QED BY <2>1, <2>6, <2>7, <2>9, <2>10, SameLists DEF lists
<1> QED BY <1>1, <1>2 DEF Submit

LEMMA BeginWaitStep ==
  ASSUME AsyncInv, NEW t \in AsyncTask, async_pc[t] # "add", NEW d \in Domain,
         NEW c \in Cookies, c <= next_cookie, NEW l \in {"wait", "fwait"}, begin_wait(t, c, d, l)
  PROVE  AsyncInv'
<1> DEFINE x == [dom |-> d, cookie |-> c]
<1>1. /\ arg' = [arg EXCEPT ![t] = x] /\ goto(t, l) /\ UNCHANGED <<next_cookie, lists, async_awake>>
  BY DEF begin_wait
<1>2. x \in [dom : Domain, cookie : Cookies] /\ x.cookie = c /\ l \in AsyncLocations /\ l # "add"
      /\ l \notin {"full1", "full2"}
  BY DEF AsyncLocations
<1>3. queued' \subseteq Cookies /\ finished' \in Nat /\ async_awake' \in [AsyncTask -> BOOLEAN]
  BY <1>1 DEF AsyncInv, AsyncTypeOK, lists
<1> HIDE DEF x
<1> QED BY <1>1, <1>2, <1>3, TaskStep DEF lists

LEMMA SynchronizeStep ==
  ASSUME AsyncInv, NEW t \in AsyncTask, Synchronize(t)
  PROVE  AsyncInv'
<1>0. next_cookie \in Cookies /\ next_cookie \in Nat /\ async_running \in Domain /\ MaxCookie \in Nat
      /\ next_cookie <= MaxCookie
  BY CountAssumption, DomainAssumption DEF AsyncInv, AsyncTypeOK, Cookies
<1>1. ASSUME NEW d \in Domain, NEW c \in 1..(next_cookie - 1), async_synchronize_cookie_domain(t, c, d)
      PROVE  AsyncInv'
  <2>1. c \in Cookies /\ c <= next_cookie
    BY <1>0 DEF Cookies
  <2>2. async_pc[t] # "add" /\ begin_wait(t, c, d, "wait")
    BY <1>1 DEF async_synchronize_cookie_domain
  <2> QED BY <2>1, <2>2, BeginWaitStep
<1>2. ASSUME NEW d \in Domain, async_synchronize_full_domain(t, d)
      PROVE  AsyncInv'
  <2>1. next_cookie <= next_cookie
    BY <1>0
  <2>2. async_pc[t] # "add" /\ begin_wait(t, next_cookie, d, "wait")
    BY <1>2 DEF async_synchronize_cookie_domain, async_synchronize_full_domain
  <2> QED BY <1>0, <2>1, <2>2, BeginWaitStep
<1>3. CASE async_synchronize_full(t)
  <2>1. next_cookie <= next_cookie
    BY <1>0
  <2>2. async_pc[t] # "add" /\ begin_wait(t, next_cookie, async_running, "fwait")
    BY <1>3 DEF async_synchronize_full
  <2> QED BY <1>0, <2>1, <2>2, BeginWaitStep
<1> QED BY <1>1, <1>2, <1>3 DEF Synchronize

LEMMA ProceedStep ==
  ASSUME AsyncInv, NEW t \in AsyncTask, AsyncProceed(t)
  PROVE  AsyncInv'
<1>0. /\ AsyncTypeOK /\ PlacesInv /\ QuietInv /\ next_cookie \in Cookies /\ next_cookie \in Nat
      /\ 1 \in Cookies /\ 1 <= next_cookie /\ async_running \in Domain /\ next_cookie <= next_cookie
      /\ queued \subseteq Cookies /\ finished \in Nat /\ async_awake \in [AsyncTask -> BOOLEAN]
      /\ arg \in [AsyncTask -> [dom : Domain, cookie : Cookies]]
  BY CountAssumption, DomainAssumption DEF AsyncInv, AsyncTypeOK, Cookies
<1>1. PICK x \in [dom : Domain, cookie : Cookies] : x = arg[t]
  BY <1>0
<1>2. arg = [arg EXCEPT ![t] = x] /\ x.cookie <= next_cookie /\ x.dom \in Domain
  BY <1>0, <1>1 DEF QuietInv
<1>3. PICK y \in [dom : Domain, cookie : Cookies] : y = NoArg
  BY <1>0 DEF NoArg
<1>4. y.cookie <= next_cookie
  BY <1>0, <1>3 DEF NoArg
<1>5. CASE async_direct_done(t)
  <2>1. /\ async_pc[t] # "add" /\ goto(t, "idle") /\ UNCHANGED <<next_cookie, lists, arg, async_awake>>
    BY <1>5 DEF async_direct_done
  <2>2. "idle" \in AsyncLocations /\ arg' = [arg EXCEPT ![t] = x]
    BY <1>2, <2>1 DEF AsyncLocations
  <2> QED BY <1>0, <1>2, <2>1, <2>2, TaskStep DEF lists
<1>6. CASE async_schedule_add(t)
  BY <1>6, AddStep
<1>7. CASE async_schedule_queue(t)
  <2>1. /\ async_pc[t] # "add" /\ goto(t, "idle") /\ arg' = [arg EXCEPT ![t] = y]
        /\ queued' = queued \cup {arg[t].cookie}
        /\ UNCHANGED <<next_cookie, async_pending, running, entry_count, finished, async_awake>>
    BY <1>3, <1>7 DEF async_schedule_queue
  <2>2. "idle" \in AsyncLocations /\ queued' \subseteq Cookies
    BY <1>0, <2>1 DEF AsyncLocations
  <2> QED BY <1>0, <1>4, <2>1, <2>2, TaskStep
<1>8. CASE wait_again(t)
  <2>1. PICK l \in {"wait", "fwait"} : async_pc[t] = l
    BY <1>8 DEF wait_again
  <2>2. /\ async_awake' = [async_awake EXCEPT ![t] = FALSE]
        /\ UNCHANGED <<next_cookie, lists, async_pc, arg>>
    BY <1>8 DEF wait_again
  <2>3. /\ l \in AsyncLocations /\ l # "add" /\ l \notin {"full1", "full2"} /\ goto(t, l)
        /\ async_pc[t] # "add"
    BY <1>0, <2>1, <2>2 DEF AsyncLocations, goto, AsyncTypeOK
  <2>4. arg' = [arg EXCEPT ![t] = x] /\ async_awake' \in [AsyncTask -> BOOLEAN]
    BY <1>0, <1>2, <2>2
  <2> QED BY <1>0, <1>2, <2>2, <2>3, <2>4, TaskStep DEF lists
<1>9. ASSUME leave(t), async_pc[t] # "add" PROVE AsyncInv'
  <2>1. /\ goto(t, "idle") /\ arg' = [arg EXCEPT ![t] = y]
        /\ UNCHANGED <<next_cookie, lists, async_awake>>
    BY <1>3, <1>9 DEF leave
  <2>2. "idle" \in AsyncLocations
    BY DEF AsyncLocations
  <2> QED BY <1>0, <1>4, <1>9, <2>1, <2>2, TaskStep DEF lists
<1>10. CASE wait_over(t)
  BY <1>9, <1>10 DEF wait_over
<1>11. ASSUME begin_wait(t, next_cookie, async_running, "fwait"), async_pc[t] # "add" PROVE AsyncInv'
  BY <1>0, <1>11, BeginWaitStep
<1>12. CASE full_wait_over(t)
  <2>1. /\ async_pc[t] # "add" /\ satisfied(t) /\ goto(t, "full1")
        /\ UNCHANGED <<next_cookie, lists, arg, async_awake>>
    BY <1>12 DEF full_wait_over
  <2>2. "full1" \in AsyncLocations /\ arg' = [arg EXCEPT ![t] = x]
    BY <1>2, <2>1 DEF AsyncLocations
  <2>3. ASSUME x.cookie = next_cookie PROVE InProgress(x.dom) = {}
    <3>1. __lowest_in_progress(x.dom) >= next_cookie
      BY <1>1, <2>1, <2>3 DEF satisfied
    <3> QED BY <1>0, <1>2, <3>1, LowestInProgress
  <2> QED BY <1>0, <1>2, <2>1, <2>2, <2>3, TaskStep DEF lists
<1>13. CASE full_look_running(t)
  <2>1. CASE running[async_running] # <<>>
    BY <1>11, <1>13, <2>1 DEF full_look_running
  <2>2. CASE running[async_running] = <<>>
    <3>1. /\ async_pc[t] = "full1" /\ goto(t, "full2")
          /\ UNCHANGED <<next_cookie, lists, arg, async_awake>>
      BY <1>13, <2>2 DEF full_look_running
    <3>2. "full2" \in AsyncLocations /\ arg' = [arg EXCEPT ![t] = x] /\ async_pc[t] # "add"
      BY <1>2, <3>1 DEF AsyncLocations
    <3>3. x.cookie = next_cookie => InProgress(x.dom) = {}
      BY <1>0, <1>1, <1>2, <3>1 DEF QuietInv
    <3> QED BY <1>0, <1>2, <3>1, <3>2, <3>3, TaskStep DEF lists
  <2> QED BY <2>1, <2>2
<1>14. CASE full_look_pending(t)
  BY <1>9, <1>11, <1>14 DEF full_look_pending
<1> QED BY <1>5, <1>6, <1>7, <1>8, <1>10, <1>12, <1>13, <1>14 DEF AsyncProceed

LEMMA AsyncWakeStep ==
  ASSUME AsyncInv, async_run_wake
  PROVE  AsyncInv'
<1>0. AsyncTypeOK /\ RoomInv /\ QuietInv /\ next_cookie \in Nat
  BY CountAssumption DEF AsyncInv, AsyncTypeOK, Cookies
<1>1. /\ finished > 0 /\ finished' = finished - 1 /\ async_awake' = [t \in AsyncTask |-> TRUE]
      /\ UNCHANGED <<next_cookie, async_pending, running, entry_count, queued, async_pc, arg>>
  BY DEF async_run_wake
<1>2. finished' \in Nat /\ async_awake' \in [AsyncTask -> BOOLEAN] /\ next_cookie' >= next_cookie
  BY <1>0, <1>1 DEF AsyncTypeOK
<1>3. AsyncTypeOK'
  BY <1>0, <1>1, <1>2 DEF AsyncTypeOK
<1>4. RoomInv'
  BY <1>0, <1>1 DEF RoomInv, Adding
<1>5. QuietInv'
  BY <1>0, <1>1, AsyncListsSame DEF QuietInv
<1> QED BY <1>1, <1>2, <1>3, <1>4, <1>5, SameLists

LEMMA AsyncStutter ==
  ASSUME AsyncInv, UNCHANGED async_vars
  PROVE  AsyncInv'
<1>0. AsyncTypeOK /\ RoomInv /\ QuietInv /\ next_cookie \in Nat
  BY CountAssumption DEF AsyncInv, AsyncTypeOK, Cookies
<1>1. UNCHANGED <<next_cookie, async_pending, running, entry_count, queued, finished,
                  async_pc, arg, async_awake>>
  BY DEF async_vars
<1>2. AsyncTypeOK'
  BY <1>0, <1>1 DEF AsyncTypeOK
<1>3. RoomInv'
  BY <1>0, <1>1 DEF RoomInv, Adding
<1>4. QuietInv'
  BY <1>0, <1>1, AsyncListsSame DEF QuietInv
<1> QED BY <1>0, <1>1, <1>2, <1>3, <1>4, SameLists

LEMMA AsyncInductive == AsyncInv /\ [AsyncNext]_async_vars => AsyncInv'
<1> SUFFICES ASSUME AsyncInv, AsyncNext PROVE AsyncInv'
  BY AsyncStutter
<1>1. CASE AsyncWork
  BY <1>1, AsyncWakeStep, MoveStep, DoneStep DEF AsyncWork
<1>2. ASSUME NEW t \in AsyncTask, Submit(t) \/ Synchronize(t) \/ AsyncProceed(t)
      PROVE  AsyncInv'
  BY <1>2, SubmitStep, SynchronizeStep, ProceedStep
<1> QED BY <1>1, <1>2 DEF AsyncNext

LEMMA AsyncInvariant == AsyncSpec => []AsyncInv
BY AsyncInitial, AsyncInductive, PTL DEF AsyncSpec

(* In kernel/async.c entry_count is the number of entries at every moment, *)
(* at most MAX_WORK and one for every submitting task, and the pending     *)
(* list is sorted, however submissions and workers are interleaved.        *)
THEOREM AsyncEntriesBounded == AsyncSpec => []EntriesBounded
<1>1. AsyncInv => EntriesBounded
  <2> SUFFICES ASSUME AsyncInv PROVE EntriesBounded
    OBVIOUS
  <2>1. entry_count = Cardinality(UNION {InProgress(d) : d \in Domain})
    BY DEF AsyncInv, AsyncCountInv, AllInProgress
  <2>2. entry_count <= MAX_WORK + Cardinality(AsyncTask)
    BY AddingSets, CountAssumption DEF AsyncInv, RoomInv, AsyncTypeOK
  <2> QED BY <2>1, <2>2 DEF AsyncInv, PlacesInv, Sorted, EntriesBounded
<1> QED BY <1>1, AsyncInvariant, PTL

(* async_synchronize_full_domain() and async_synchronize_full() return,    *)
(* when nothing was submitted since they were called, only when no call of *)
(* the domain is pending or running.                                       *)
THEOREM AsyncQuietSync == AsyncSpec => QuietSyncComplete
<1>1. AsyncInv /\ [AsyncNext]_async_vars =>
        [\A t \in AsyncTask : Returns(t) /\ arg[t].cookie = next_cookie
                                 => InProgress(arg[t].dom) = {}]_async_vars
  <2> SUFFICES ASSUME AsyncInv, AsyncNext, NEW t \in AsyncTask,
                      Returns(t), arg[t].cookie = next_cookie
               PROVE  InProgress(arg[t].dom) = {}
    OBVIOUS
  <2>0. /\ AsyncTypeOK /\ PlacesInv /\ QuietInv /\ arg[t].dom \in Domain
        /\ async_pc \in [AsyncTask -> AsyncLocations]
    BY DEF AsyncInv, AsyncTypeOK
  <2>1. CASE async_pc[t] = "full2"
    BY <2>0, <2>1 DEF QuietInv
  <2>2. CASE async_pc[t] = "wait"
    <3>1. async_pc'[t] = "idle"
      BY DEF Returns
    <3>2. ASSUME NEW u \in AsyncTask, u # t, NEW l, goto(u, l) PROVE FALSE
      BY <2>0, <2>2, <3>1, <3>2 DEF goto
    <3>3. async_pc' # async_pc
      BY <2>2, <3>1
    <3>4. ~AsyncWork
      BY <3>3 DEF AsyncWork, async_run_wake, async_run_move, async_run_done
    <3>5. PICK u \in AsyncTask : Submit(u) \/ Synchronize(u) \/ AsyncProceed(u)
      BY <3>4 DEF AsyncNext
    <3>6. \E l : goto(u, l)
      BY <3>3, <3>5 DEF Submit, Synchronize, AsyncProceed, async_schedule_direct, async_schedule_domain,
           async_synchronize_cookie_domain, async_synchronize_full_domain, async_synchronize_full,
           begin_wait, async_direct_done, async_schedule_add, async_schedule_queue, wait_again,
           wait_over, leave, full_wait_over, full_look_running, full_look_pending
    <3>7. u = t
      BY <3>2, <3>6
    <3>8. wait_over(t)
      BY <2>2, <3>3, <3>5, <3>7 DEF Submit, Synchronize, AsyncProceed, async_schedule_direct,
           async_schedule_domain, async_synchronize_cookie_domain, async_synchronize_full_domain,
           async_synchronize_full, async_direct_done, async_schedule_add, async_schedule_queue,
           wait_again, full_wait_over, full_look_running, full_look_pending
    <3>9. __lowest_in_progress(arg[t].dom) >= next_cookie
      BY <3>8 DEF wait_over, satisfied
    <3> QED BY <2>0, <3>9, LowestInProgress
  <2> QED BY <2>1, <2>2 DEF Returns
<1>2. QuietSyncComplete <=>
        [][\A t \in AsyncTask : Returns(t) /\ arg[t].cookie = next_cookie
                                 => InProgress(arg[t].dom) = {}]_async_vars
  BY DEF QuietSyncComplete
<1> QED BY <1>1, <1>2, AsyncInvariant, PTL DEF AsyncSpec

=============================================================================
