------------------------------ MODULE Kthread ------------------------------
(***************************************************************************)
(* The life of a kernel thread, kernel/kthread.c: kthread_create_on_node() *)
(* asks kthreadd for a thread and waits for it, the thread waits to be     *)
(* woken or stopped before it calls its function, and kthread_stop() waits *)
(* for its end.                                                            *)
(*                                                                         *)
(* Each caller has one struct kthread_create_info, on its stack, and at    *)
(* most one thread at a time, which goes by the name of the caller.  Only  *)
(* the list has a lock; all else is ordered by the completions and by the  *)
(* order in which a state is set and a condition looked at, so every       *)
(* access that another task can see is an action of its own.               *)
(***************************************************************************)
EXTENDS Integers, Sequences, TaskSched, WaitList

CONSTANT Caller      \* the tasks that create and stop threads

VARIABLES
  create_list,   \* kthread_create_list, the callers whose request it holds
  dpc, dstate,   \* where kthreadd is, and its task_struct.state
  create,        \* the request kthreadd has taken, or NoCaller
  cpc,           \* where every caller is, see CallerLocations
  created,       \* create.done of the caller is completed
  result,        \* create.result of the caller is a thread and not an error
  tpc, tstate,   \* where the caller's thread is, and its task_struct.state
  vfork_done,    \* vfork_done of the thread is not NULL
  should_stop,   \* its struct kthread
  exited,        \* its completion exited is completed
  exit_code,     \* its exit code, see ExitCodes
  started,       \* ghost: the caller has woken the thread it was given
  called         \* ghost: the thread has called its function

dvars == <<dpc, dstate, create>>
cvars == <<cpc, created, result>>
tvars == <<tpc, tstate, vfork_done, should_stop, exited, exit_code>>
ghosts == <<started, called>>
vars == <<create_list, dvars, cvars, tvars, ghosts>>

NoCaller == "NoCaller"
ASSUME CallerAssumption == NoCaller \notin Caller

(***************************************************************************)
(* "idle"                                                                  *)
(* "kick"   the request is listed, kthreadd is still to be woken           *)
(* "wait"   in wait_for_completion(&create.done)                           *)
(* "have"   kthread_create() has returned a thread                         *)
(* "alive?" in kthread_stop(), before the look at vfork_done               *)
(* "stop"   before should_stop is set; "wake" before the wake-up;          *)
(* "join"   in wait_for_completion(&kthread->exited)                       *)
(* "code"   before the exit code is read                                   *)
(***************************************************************************)
CallerLocations == {"idle", "kick", "wait", "have", "alive?", "stop", "wake", "join", "code"}

(* "set": before the state is set; "look": before the look at the list;    *)
(* "sched": in schedule(); "take": before the section that takes a         *)
(* request; "fork": in create_kthread().                                   *)
DaemonLocations == {"set", "look", "sched", "take", "fork"}

(***************************************************************************)
(* "none"                                                                  *)
(* "born"   in kthread(), before the state is set                          *)
(* "tell"   before create->done is completed; "parked" in schedule()       *)
(* "fn"     in threadfn(); "fn_look" has set its state, before the look    *)
(*          at kthread_should_stop(); "fn_sched" in schedule()             *)
(* "exit"   in do_exit(), before mm_release() clears vfork_done            *)
(* "last"   before it completes exited                                     *)
(***************************************************************************)
ThreadLocations == {"none", "born", "tell", "parked", "fn", "fn_look", "fn_sched", "exit", "last"}
InFunction == {"fn", "fn_look", "fn_sched"}

(* What threadfn() returned, or -EINTR for a thread that never called it. *)
ExitCodes == {"unset", "ret", "EINTR"}

Init ==
  /\ create_list = <<>>
  /\ dpc = "set" /\ dstate = TASK_RUNNING /\ create = NoCaller
  /\ cpc = [c \in Caller |-> "idle"]
  /\ created = [c \in Caller |-> FALSE]
  /\ result = [c \in Caller |-> FALSE]
  /\ tpc = [c \in Caller |-> "none"]
  /\ tstate = [c \in Caller |-> TASK_RUNNING]
  /\ vfork_done = [c \in Caller |-> FALSE]
  /\ should_stop = [c \in Caller |-> FALSE]
  /\ exited = [c \in Caller |-> FALSE]
  /\ exit_code = [c \in Caller |-> "unset"]
  /\ started = [c \in Caller |-> FALSE]
  /\ called = [c \in Caller |-> FALSE]

caller_goto(c, l) == cpc' = [cpc EXCEPT ![c] = l]
thread_goto(c, l) == tpc' = [tpc EXCEPT ![c] = l]
wake_up_process(c) == tstate' = [tstate EXCEPT ![c] = TASK_RUNNING]

----------------------------------------------------------------------------
(* kthread_create_on_node(): the request, the wake-up of kthreadd, the     *)
(* wait.  A caller that has had a thread comes back once that is gone.     *)
kthread_create_on_node(c) ==
  /\ cpc[c] = "idle" /\ tpc[c] = "none"
  /\ created' = [created EXCEPT ![c] = FALSE]
  /\ result' = [result EXCEPT ![c] = FALSE]
  /\ started' = [started EXCEPT ![c] = FALSE]
  /\ called' = [called EXCEPT ![c] = FALSE]
  /\ create_list' = list_add_tail(create_list, c)
  /\ caller_goto(c, "kick")
  /\ UNCHANGED <<dvars, tvars>>

create_kick_alone(c) ==   \* mutant: wakes kthreadd only for the one request on the list
  /\ cpc[c] = "kick"
  /\ dstate' = IF create_list = <<c>> THEN TASK_RUNNING ELSE dstate
  /\ caller_goto(c, "wait")
  /\ UNCHANGED <<create_list, dpc, create, created, result, tvars, ghosts>>

create_kick(c) ==
  /\ cpc[c] = "kick"
  /\ dstate' = TASK_RUNNING
  /\ caller_goto(c, "wait")
  /\ UNCHANGED <<create_list, dpc, create, created, result, tvars, ghosts>>

create_return(c) ==
  /\ cpc[c] = "wait" /\ created[c]
  /\ caller_goto(c, IF result[c] THEN "have" ELSE "idle")
  /\ UNCHANGED <<create_list, dvars, created, result, tvars, ghosts>>

(* The caller starts the thread it was given: wake_up_process(). *)
start(c) ==
  /\ cpc[c] = "have" /\ ~started[c]
  /\ wake_up_process(c)
  /\ started' = [started EXCEPT ![c] = TRUE]
  /\ UNCHANGED <<create_list, dvars, cvars, tpc, vfork_done, should_stop, exited, exit_code, called>>

----------------------------------------------------------------------------
(* kthreadd(). *)
kthreadd_set ==
  /\ dpc = "set"
  /\ dstate' = TASK_INTERRUPTIBLE
  /\ dpc' = "look"
  /\ UNCHANGED <<create_list, create, cvars, tvars, ghosts>>

(* The look at the list, without the lock. *)
kthreadd_look ==
  /\ dpc = "look"
  /\ IF create_list = <<>> THEN dpc' = "sched" /\ UNCHANGED dstate
                           ELSE dpc' = "take" /\ dstate' = TASK_RUNNING
  /\ UNCHANGED <<create_list, create, cvars, tvars, ghosts>>

kthreadd_resume ==
  /\ dpc = "sched" /\ dstate = TASK_RUNNING
  /\ dpc' = "take"
  /\ UNCHANGED <<create_list, dstate, create, cvars, tvars, ghosts>>

kthreadd_take ==
  /\ dpc = "take"
  /\ \/ /\ create_list # <<>>
        /\ create' = Head(create_list)
        /\ create_list' = Tail(create_list)
        /\ dpc' = "fork"
     \/ /\ create_list = <<>>
        /\ dpc' = "set"
        /\ UNCHANGED <<create, create_list>>
  /\ UNCHANGED <<dstate, cvars, tvars, ghosts>>

fork_succeeds_completes ==   \* mutant: completes create->done in either case
  /\ thread_goto(create, "born")
  /\ created' = [created EXCEPT ![create] = TRUE]
  /\ result' = [result EXCEPT ![create] = TRUE]

fork_succeeds ==
  /\ thread_goto(create, "born")
  /\ UNCHANGED <<created, result>>

fork_fails ==
  /\ created' = [created EXCEPT ![create] = TRUE]
  /\ UNCHANGED <<result, tpc>>

(* create_kthread(). *)
create_kthread ==
  /\ dpc = "fork"
  /\ fork_succeeds \/ fork_fails
  /\ create' = NoCaller
  /\ dpc' = "take"
  /\ UNCHANGED <<create_list, dstate, cpc, tstate, vfork_done, should_stop, exited, exit_code, ghosts>>

----------------------------------------------------------------------------
(* kthread(), the body of every thread. *)
kthread(c) ==
  /\ tpc[c] = "born"
  /\ should_stop' = [should_stop EXCEPT ![c] = FALSE]
  /\ exited' = [exited EXCEPT ![c] = FALSE]
  /\ vfork_done' = [vfork_done EXCEPT ![c] = TRUE]
  /\ exit_code' = [exit_code EXCEPT ![c] = "unset"]
  /\ tstate' = [tstate EXCEPT ![c] = TASK_UNINTERRUPTIBLE]
  /\ thread_goto(c, "tell")
  /\ UNCHANGED <<create_list, dvars, cvars, ghosts>>

(* Once create->done is completed the caller may start or stop the thread, *)
(* which is not yet in schedule().                                         *)
kthread_tell(c) ==
  /\ tpc[c] = "tell"
  /\ result' = [result EXCEPT ![c] = TRUE]
  /\ created' = [created EXCEPT ![c] = TRUE]
  /\ thread_goto(c, "parked")
  /\ UNCHANGED <<create_list, dvars, cpc, tstate, vfork_done, should_stop, exited, exit_code, ghosts>>

kthread_unparked(c) ==
  /\ tpc[c] = "parked" /\ tstate[c] = TASK_RUNNING
  /\ thread_goto(c, IF should_stop[c] THEN "exit" ELSE "fn")
  /\ called' = [called EXCEPT ![c] = ~should_stop[c]]
  /\ exit_code' = [exit_code EXCEPT ![c] = IF should_stop[c] THEN "EINTR" ELSE @]
  /\ UNCHANGED <<create_list, dvars, cvars, tstate, vfork_done, should_stop, exited, started>>

(* threadfn(): the usual loop around kthread_should_stop(), which may also *)
(* end by itself.                                                          *)
threadfn_return(c) ==
  /\ thread_goto(c, "exit")
  /\ exit_code' = [exit_code EXCEPT ![c] = "ret"]

threadfn_ends(c) ==
  /\ tpc[c] = "fn"
  /\ threadfn_return(c)
  /\ UNCHANGED <<create_list, dvars, cvars, tstate, vfork_done, should_stop, exited, ghosts>>

threadfn_set(c) ==
  /\ tpc[c] = "fn"
  /\ tstate' = [tstate EXCEPT ![c] = TASK_INTERRUPTIBLE]
  /\ thread_goto(c, "fn_look")
  /\ UNCHANGED <<create_list, dvars, cvars, vfork_done, should_stop, exited, exit_code, ghosts>>

kthread_should_stop(c) ==
  /\ tpc[c] = "fn_look"
  /\ IF should_stop[c]
       THEN threadfn_return(c) /\ wake_up_process(c)
       ELSE thread_goto(c, "fn_sched") /\ UNCHANGED <<tstate, exit_code>>
  /\ UNCHANGED <<create_list, dvars, cvars, vfork_done, should_stop, exited, ghosts>>

threadfn_resume(c) ==
  /\ tpc[c] = "fn_sched" /\ tstate[c] = TASK_RUNNING
  /\ thread_goto(c, "fn")
  /\ UNCHANGED <<create_list, dvars, cvars, tstate, vfork_done, should_stop, exited, exit_code, ghosts>>

(* Something threadfn() waits for wakes it. *)
threadfn_wakes(c) ==
  /\ tpc[c] \in InFunction /\ tstate[c] # TASK_RUNNING
  /\ wake_up_process(c)
  /\ UNCHANGED <<create_list, dvars, cvars, tpc, vfork_done, should_stop, exited, exit_code, ghosts>>

(* do_exit() calls mm_release(), which clears vfork_done and completes     *)
(* what it pointed to.                                                     *)
mm_release(c) ==
  /\ tpc[c] = "exit"
  /\ vfork_done' = [vfork_done EXCEPT ![c] = FALSE]
  /\ thread_goto(c, "last")
  /\ UNCHANGED <<create_list, dvars, cvars, tstate, should_stop, exited, exit_code, ghosts>>

mm_release_complete(c) ==
  /\ tpc[c] = "last"
  /\ exited' = [exited EXCEPT ![c] = TRUE]
  /\ thread_goto(c, "none")
  /\ UNCHANGED <<create_list, dvars, cvars, tstate, vfork_done, should_stop, exit_code, ghosts>>

----------------------------------------------------------------------------
(* kthread_stop(), of a thread that runs, has ended, or was never started. *)
kthread_stop(c) ==
  /\ cpc[c] = "have"
  /\ caller_goto(c, "alive?")
  /\ UNCHANGED <<create_list, dvars, created, result, tvars, ghosts>>

stop_look(c) ==
  /\ cpc[c] = "alive?"
  /\ caller_goto(c, IF vfork_done[c] THEN "stop" ELSE "code")
  /\ UNCHANGED <<create_list, dvars, created, result, tvars, ghosts>>

stop_set(c) ==
  /\ cpc[c] = "stop"
  /\ should_stop' = [should_stop EXCEPT ![c] = TRUE]
  /\ caller_goto(c, "wake")
  /\ UNCHANGED <<create_list, dvars, created, result, tpc, tstate, vfork_done, exited, exit_code, ghosts>>

stop_wake_running(c) ==   \* mutant: only a thread that has been started is woken
  /\ cpc[c] = "wake"
  /\ IF started[c] THEN wake_up_process(c) ELSE UNCHANGED tstate
  /\ caller_goto(c, "join")
  /\ UNCHANGED <<create_list, dvars, created, result, tpc, vfork_done, should_stop, exited, exit_code, ghosts>>

stop_wake_no_join(c) ==   \* mutant: no wait_for_completion(&kthread->exited)
  /\ cpc[c] = "wake"
  /\ wake_up_process(c)
  /\ caller_goto(c, "code")
  /\ UNCHANGED <<create_list, dvars, created, result, tpc, vfork_done, should_stop, exited, exit_code, ghosts>>

stop_wake(c) ==
  /\ cpc[c] = "wake"
  /\ wake_up_process(c)
  /\ caller_goto(c, "join")
  /\ UNCHANGED <<create_list, dvars, created, result, tpc, vfork_done, should_stop, exited, exit_code, ghosts>>

stop_join(c) ==
  /\ cpc[c] = "join" /\ exited[c]
  /\ caller_goto(c, "code")
  /\ UNCHANGED <<create_list, dvars, created, result, tvars, ghosts>>

(* kthread_stop() returns k->exit_code. *)
stop_return(c) ==
  /\ cpc[c] = "code"
  /\ caller_goto(c, "idle")
  /\ UNCHANGED <<create_list, dvars, created, result, tvars, ghosts>>

----------------------------------------------------------------------------
Kthreadd == kthreadd_set \/ kthreadd_look \/ kthreadd_resume \/ kthreadd_take \/ create_kthread

Thread(c) == \/ kthread(c) \/ kthread_tell(c) \/ kthread_unparked(c)
             \/ threadfn_set(c) \/ kthread_should_stop(c) \/ threadfn_resume(c)
             \/ mm_release(c) \/ mm_release_complete(c)

Proceed(c) == \/ create_kick(c) \/ create_return(c)
              \/ stop_look(c) \/ stop_set(c) \/ stop_wake(c) \/ stop_join(c) \/ stop_return(c)

Next ==
  \/ Kthreadd
  \/ \E c \in Caller :
       \/ kthread_create_on_node(c) \/ start(c) \/ kthread_stop(c)
       \/ Proceed(c) \/ Thread(c) \/ threadfn_ends(c) \/ threadfn_wakes(c)

Spec == Init /\ [][Next]_vars

(* kthreadd, the threads and the callers inside a function run when they   *)
(* can.  Nobody need start or stop a thread.                               *)
Fairness == WF_vars(Kthreadd) /\ \A c \in Caller : WF_vars(Thread(c)) /\ WF_vars(Proceed(c))

FairSpec == Spec /\ Fairness

----------------------------------------------------------------------------
TypeOK ==
  /\ create_list \in Seq(Caller)
  /\ dpc \in DaemonLocations /\ dstate \in TaskStates
  /\ create \in IF dpc = "fork" THEN Caller ELSE {NoCaller}
  /\ cpc \in [Caller -> CallerLocations]
  /\ created \in [Caller -> BOOLEAN] /\ result \in [Caller -> BOOLEAN]
  /\ tpc \in [Caller -> ThreadLocations] /\ tstate \in [Caller -> TaskStates]
  /\ vfork_done \in [Caller -> BOOLEAN] /\ should_stop \in [Caller -> BOOLEAN]
  /\ exited \in [Caller -> BOOLEAN] /\ exit_code \in [Caller -> ExitCodes]
  /\ started \in [Caller -> BOOLEAN] /\ called \in [Caller -> BOOLEAN]

(* The struct kthread_create_info is on the stack of the caller: whoever   *)
(* may still use it, kthreadd or the new thread, finds the caller waiting, *)
(* and only one of them has it.                                            *)
InfoUsers(c) == <<OnList(create_list, c), create = c, tpc[c] \in {"born", "tell"}>>
InfoOutlivesUse ==
  TypeOK /\ \A c \in Caller :
    /\ (\E i \in 1..3 : InfoUsers(c)[i]) => cpc[c] \in {"kick", "wait"} /\ ~created[c]
    /\ \A i, j \in 1..3 : InfoUsers(c)[i] /\ InfoUsers(c)[j] => i = j

(* A thread calls its function only when the caller has started it: the    *)
(* wake-up of kthread_stop() alone ends a thread that was never started.   *)
(* kthread_stop() returns only when the function is over and the exit code *)
(* is set, and the code says whether the function was called: -EINTR is    *)
(* also what a thread has that was started, and stopped before it ran.     *)
StopIsFinal ==
  \A c \in Caller :
    /\ called[c] => started[c]
    /\ cpc[c] = "code" => /\ tpc[c] \in {"none", "last"}
                          /\ exit_code[c] = IF called[c] THEN "ret" ELSE "EINTR"

(* Every request is answered: kthreadd does not sleep through one. *)
CreateEnds == \A c \in Caller : cpc[c] = "wait" ~> cpc[c] # "wait"

(* kthread_stop() returns, also when it meets a thread that was never      *)
(* started, that is about to sleep or that ends by itself.                 *)
StopEnds == \A c \in Caller : cpc[c] = "alive?" ~> cpc[c] = "idle"

=============================================================================
