--------------------------- MODULE KthreadWorker ---------------------------
(***************************************************************************)
(* The kthread_worker of kernel/kthread.c: work items queued to a kernel   *)
(* thread that runs kthread_worker_fn(), flushing of one item and of all   *)
(* of them, and kthread_stop() of the thread.                              *)
(*                                                                         *)
(* worker->lock protects the list only.  done_seq, flushing and should_stop *)
(* are read and written without it, in an order the memory barriers fix:   *)
(* every such access is an action of its own.                              *)
(*                                                                         *)
(* Names that Kthread has too, the module of the rest of the file, have a  *)
(* prefix here, so that one module can speak of both.                      *)
(***************************************************************************)
EXTENDS Integers, Sequences, FiniteSets, TaskSched, WaitList

CONSTANTS
  Work,       \* the work items
  Task,       \* the tasks that flush
  SeqBits,    \* width of the int that queue_seq and done_seq are
  FirstSeq,   \* their value to begin with; the items may have a past
  MaxQueue,   \* bound of the model: times an item is queued
  MaxStop     \* bound of the model: times the thread is stopped

ASSUME FlusherAssumption == IsFiniteSet(Task)
ASSUME SeqAssumption   == SeqBits \in Nat /\ SeqBits > 1 /\ FirstSeq \in 0..(2^SeqBits - 1)
ASSUME BoundAssumption == MaxQueue \in Nat /\ MaxStop \in Nat

VARIABLES
  work_list,    \* worker->work_list
  attached,     \* worker->task is not NULL
  queue_seq, done_seq, flushing,   \* fields of each work item
  wpc,          \* where the thread is, see WorkerLocations
  wstate,       \* the thread's task_struct.state
  current,      \* the work item the thread has taken from the list
  wshould_stop,  \* kthread->should_stop
  spc,          \* where kthread_stop() is
  stops,        \* how often the thread has been stopped
  pc,           \* where every flushing task is, see Locations
  target,       \* the item it flushes
  seq,          \* the local variable of flush_kthread_work()
  awake,        \* the task is not asleep in wait_event()
  done,         \* fwork.done of flush_kthread_worker()
  queuings,     \* ghost: how often each item was put on the list
  runs,         \* ghost: how often the function of each item has returned
  overlap,      \* ghost: the item was queued before done_seq of its run was set
  ticket        \* ghost: queuings when the task's flush began

item_vars   == <<queue_seq, done_seq, flushing>>
thread_vars == <<wpc, wstate, current, wshould_stop>>
flush_vars  == <<pc, target, seq, awake, done, ticket>>
work_ghosts      == <<queuings, runs, overlap>>
worker_vars == <<work_list, attached, item_vars, thread_vars, spc, stops, flush_vars, work_ghosts>>

(* flush_kthread_worker() queues an item on the stack of its caller, for   *)
(* which the name of the caller stands.                                    *)
Items == Work \cup Task
NoItem == "NoItem"
ASSUME ItemAssumption == Work \cap Task = {} /\ NoItem \notin Items

(***************************************************************************)
(* "off"    no thread                                                      *)
(* "repeat" at the label, before the state is set                          *)
(* "stop?"  before the look at should_stop                                 *)
(* "exit"   is to stop, worker->task still to be cleared                   *)
(* "get"    before the section that takes an item                          *)
(* "sched"  in schedule()                                                  *)
(* "func"   in work->func(); "seq" before done_seq is set;                 *)
(* "wake"   before the look at flushing                                    *)
(***************************************************************************)
WorkerLocations == {"off", "repeat", "stop?", "exit", "get", "sched", "func", "seq", "wake"}

(* "inc", "wait": in flush_kthread_work(), before and after the increment  *)
(* of flushing; "complete": waits in flush_kthread_worker().               *)
Locations == {"idle", "inc", "wait", "complete"}

Modulus == 2^SeqBits
Wrap(n) == n % Modulus
Signed(n) == IF Wrap(n) >= Modulus \div 2 THEN Wrap(n) - Modulus ELSE Wrap(n)

WorkerInit ==
  /\ work_list = <<>>
  /\ attached = FALSE
  /\ queue_seq = [i \in Items |-> FirstSeq]
  /\ done_seq = [i \in Items |-> FirstSeq]
  /\ flushing = [i \in Items |-> 0]
  /\ wpc = "off" /\ wstate = TASK_RUNNING /\ current = NoItem
  /\ wshould_stop = FALSE /\ spc = "idle" /\ stops = 0
  /\ pc = [t \in Task |-> "idle"]
  /\ target = [t \in Task |-> NoItem]
  /\ seq = [t \in Task |-> 0]
  /\ awake = [t \in Task |-> TRUE]
  /\ done = [t \in Task |-> FALSE]
  /\ queuings = [i \in Items |-> 0]
  /\ runs = [i \in Items |-> 0]
  /\ overlap = [i \in Items |-> FALSE]
  /\ ticket = [t \in Task |-> [i \in Items |-> 0]]

----------------------------------------------------------------------------
queue_kthread_work_twice(i) ==   \* mutant: no list_empty(&work->node)
  /\ work_list' = list_add_tail(work_list, i)
  /\ queue_seq' = [queue_seq EXCEPT ![i] = Wrap(@ + 1)]
  /\ wstate' = IF attached THEN TASK_RUNNING ELSE wstate
  /\ queuings' = [queuings EXCEPT ![i] = @ + 1]
  /\ UNCHANGED <<attached, done_seq, flushing, wpc, current, wshould_stop, spc, stops, runs, overlap>>

(* queue_kthread_work(); an item that is on the list already stays where   *)
(* it is.                                                                  *)
queue_kthread_work(i) ==
  /\ IF OnList(work_list, i)
       THEN UNCHANGED <<work_list, queue_seq, wstate, work_ghosts>>
       ELSE /\ work_list' = list_add_tail(work_list, i)
            /\ queue_seq' = [queue_seq EXCEPT ![i] = Wrap(@ + 1)]
            /\ wstate' = IF attached THEN TASK_RUNNING ELSE wstate
            /\ queuings' = [queuings EXCEPT ![i] = @ + 1]
            /\ overlap' = [overlap EXCEPT ![i] = @ \/ (current = i /\ wpc \in {"func", "seq"})]
            /\ UNCHANGED runs
  /\ UNCHANGED <<attached, done_seq, flushing, wpc, current, wshould_stop, spc, stops>>

queue(w) ==
  /\ queuings[w] < MaxQueue
  /\ queue_kthread_work(w)
  /\ UNCHANGED flush_vars

----------------------------------------------------------------------------
(* kthread_worker_fn(). *)
worker_at(l) == wpc = l
worker_goto(l) == wpc' = l
worker_leaves == <<work_list, attached, item_vars, current, wshould_stop, spc, stops, flush_vars, work_ghosts>>

worker_start ==
  /\ worker_at("off") /\ spc = "idle" /\ ~wshould_stop
  /\ worker_goto("repeat")
  /\ attached' = TRUE
  /\ UNCHANGED <<work_list, item_vars, wstate, current, wshould_stop, spc, stops, flush_vars, work_ghosts>>

worker_set_state ==
  /\ worker_at("repeat")
  /\ wstate' = TASK_INTERRUPTIBLE
  /\ worker_goto("stop?")
  /\ UNCHANGED worker_leaves

worker_look_stop ==
  /\ worker_at("stop?")
  /\ worker_goto(IF wshould_stop THEN "exit" ELSE "get")
  /\ wstate' = IF wshould_stop THEN TASK_RUNNING ELSE wstate
  /\ UNCHANGED worker_leaves

worker_exit ==
  /\ worker_at("exit")
  /\ attached' = FALSE
  /\ worker_goto("off")
  /\ UNCHANGED <<work_list, item_vars, wstate, current, wshould_stop, spc, stops, flush_vars, work_ghosts>>

worker_get_last ==   \* mutant: takes the item that was queued last
  /\ worker_at("get")
  /\ IF work_list # <<>>
       THEN /\ current' = work_list[Len(work_list)]
            /\ work_list' = SubSeq(work_list, 1, Len(work_list) - 1)
            /\ wstate' = TASK_RUNNING
            /\ worker_goto("func")
       ELSE UNCHANGED <<current, work_list, wstate>> /\ worker_goto("sched")
  /\ UNCHANGED <<attached, item_vars, wshould_stop, spc, stops, flush_vars, work_ghosts>>

worker_get ==
  /\ worker_at("get")
  /\ IF work_list # <<>>
       THEN /\ current' = Head(work_list)
            /\ work_list' = Tail(work_list)
            /\ wstate' = TASK_RUNNING
            /\ worker_goto("func")
       ELSE UNCHANGED <<current, work_list, wstate>> /\ worker_goto("sched")
  /\ UNCHANGED <<attached, item_vars, wshould_stop, spc, stops, flush_vars, work_ghosts>>

(* schedule() returns in a thread that was woken; a thread that is being   *)
(* frozen does not call it, and comes out of the refrigerator instead.     *)
worker_resume ==
  /\ worker_at("sched")
  /\ wstate = TASK_RUNNING
  /\ worker_goto("repeat")
  /\ UNCHANGED <<worker_leaves, wstate>>

worker_thawed ==
  /\ worker_at("sched")
  /\ wstate' = TASK_RUNNING
  /\ worker_goto("repeat")
  /\ UNCHANGED worker_leaves

(* The function of the item returns.  That of an item of                   *)
(* flush_kthread_worker(), kthread_flush_work_fn(), completes fwork.done.  *)
worker_func ==
  /\ worker_at("func")
  /\ worker_goto("seq")
  /\ runs' = [runs EXCEPT ![current] = @ + 1]
  /\ done' = IF current \in Task THEN [done EXCEPT ![current] = TRUE] ELSE done
  /\ UNCHANGED <<work_list, attached, item_vars, wstate, current, wshould_stop, spc, stops,
                 pc, target, seq, awake, ticket, queuings, overlap>>

worker_set_done ==
  /\ worker_at("seq")
  /\ done_seq' = [done_seq EXCEPT ![current] = queue_seq[current]]
  /\ worker_goto("wake")
  /\ UNCHANGED <<work_list, attached, queue_seq, flushing, wstate, current, wshould_stop,
                 spc, stops, flush_vars, work_ghosts>>

worker_wake_off_by_one ==   \* mutant: flushing > 1
  /\ worker_at("wake")
  /\ awake' = IF flushing[current] > 1
                THEN [t \in Task |-> awake[t] \/ target[t] = current] ELSE awake
  /\ current' = NoItem
  /\ worker_goto("repeat")
  /\ UNCHANGED <<work_list, attached, item_vars, wstate, wshould_stop, spc, stops,
                 pc, target, seq, done, ticket, work_ghosts>>

worker_wake ==
  /\ worker_at("wake")
  /\ awake' = IF flushing[current] # 0
                THEN [t \in Task |-> awake[t] \/ target[t] = current] ELSE awake
  /\ current' = NoItem
  /\ worker_goto("repeat")
  /\ UNCHANGED <<work_list, attached, item_vars, wstate, wshould_stop, spc, stops,
                 pc, target, seq, done, ticket, work_ghosts>>

----------------------------------------------------------------------------
(* kthread_stop(): should_stop, then the wake-up, then the wait for the    *)
(* thread to exit.                                                         *)
worker_stop_set ==
  /\ spc = "idle" /\ stops < MaxStop
  /\ wpc # "off"
  /\ wshould_stop' = TRUE
  /\ stops' = stops + 1
  /\ spc' = "wake"
  /\ UNCHANGED <<work_list, attached, item_vars, wpc, wstate, current, flush_vars, work_ghosts>>

worker_stop_wake ==
  /\ spc = "wake"
  /\ wstate' = TASK_RUNNING
  /\ spc' = "wait"
  /\ UNCHANGED <<work_list, attached, item_vars, wpc, current, wshould_stop, stops, flush_vars, work_ghosts>>

(* The thread and its struct kthread are gone; another may be attached.    *)
worker_stop_return ==
  /\ spc = "wait"
  /\ wpc = "off"
  /\ spc' = "idle"
  /\ wshould_stop' = FALSE
  /\ UNCHANGED <<work_list, attached, item_vars, wpc, wstate, current, stops, flush_vars, work_ghosts>>

----------------------------------------------------------------------------
(* flush_kthread_work(). *)
flush_kthread_work(t, w) ==
  /\ pc[t] = "idle"
  /\ seq' = [seq EXCEPT ![t] = queue_seq[w]]
  /\ target' = [target EXCEPT ![t] = w]
  /\ ticket' = [ticket EXCEPT ![t] = queuings]
  /\ pc' = [pc EXCEPT ![t] = "inc"]
  /\ UNCHANGED <<work_list, attached, item_vars, thread_vars, spc, stops, awake, done, work_ghosts>>

flush_inc(t) ==
  /\ pc[t] = "inc"
  /\ flushing' = [flushing EXCEPT ![target[t]] = @ + 1]
  /\ awake' = [awake EXCEPT ![t] = TRUE]
  /\ pc' = [pc EXCEPT ![t] = "wait"]
  /\ UNCHANGED <<work_list, attached, queue_seq, done_seq, thread_vars, spc, stops,
                 target, seq, done, ticket, work_ghosts>>

flush_satisfied_plain(t) == seq[t] <= done_seq[target[t]]   \* mutant: no wrap-around

flush_satisfied(t) == Signed(seq[t] - done_seq[target[t]]) <= 0

flush_wait(t) ==
  /\ pc[t] = "wait" /\ awake[t]
  /\ ~flush_satisfied(t)
  /\ awake' = [awake EXCEPT ![t] = FALSE]
  /\ UNCHANGED <<work_list, attached, item_vars, thread_vars, spc, stops,
                 pc, target, seq, done, ticket, work_ghosts>>

forget_flush(t) ==
  /\ pc' = [pc EXCEPT ![t] = "idle"]
  /\ target' = [target EXCEPT ![t] = NoItem]
  /\ seq' = [seq EXCEPT ![t] = 0]
  /\ ticket' = [ticket EXCEPT ![t] = [i \in Items |-> 0]]
  /\ UNCHANGED awake

flush_return(t) ==
  /\ pc[t] = "wait" /\ awake[t]
  /\ flush_satisfied(t)
  /\ flushing' = [flushing EXCEPT ![target[t]] = @ - 1]
  /\ forget_flush(t)
  /\ UNCHANGED <<work_list, attached, queue_seq, done_seq, thread_vars, spc, stops, done, work_ghosts>>

(* flush_kthread_worker(): an item of its own goes on the list, and its    *)
(* function, run after all that are before it, completes fwork.done.       *)
flush_kthread_worker(t) ==
  /\ pc[t] = "idle" /\ queuings[t] < MaxQueue
  /\ queue_kthread_work(t)
  /\ done' = [done EXCEPT ![t] = FALSE]
  /\ pc' = [pc EXCEPT ![t] = "complete"]
  /\ ticket' = [ticket EXCEPT ![t] = queuings]
  /\ UNCHANGED <<target, seq, awake>>

flush_worker_return(t) ==
  /\ pc[t] = "complete" /\ done[t]
  /\ forget_flush(t)
  /\ UNCHANGED <<work_list, attached, item_vars, thread_vars, spc, stops, done, work_ghosts>>

----------------------------------------------------------------------------
Worker == \/ worker_start \/ worker_set_state \/ worker_look_stop \/ worker_exit
          \/ worker_get \/ worker_resume \/ worker_func \/ worker_set_done \/ worker_wake

Stop == worker_stop_wake \/ worker_stop_return

Flush(t) == flush_inc(t) \/ flush_wait(t) \/ flush_return(t) \/ flush_worker_return(t)

WorkerNext ==
  \/ Worker \/ worker_thawed
  \/ Stop \/ worker_stop_set
  \/ \E w \in Work : queue(w)
  \/ \E t \in Task : Flush(t) \/ flush_kthread_worker(t) \/ \E w \in Work : flush_kthread_work(t, w)

WorkerSpec == WorkerInit /\ [][WorkerNext]_worker_vars

(* The thread runs when it can, the functions of the items return, a       *)
(* thread that was stopped is followed by another, and callers go on.      *)
WorkerFairness == WF_worker_vars(Worker) /\ WF_worker_vars(Stop) /\ \A t \in Task : WF_worker_vars(Flush(t))

WorkerFairSpec == WorkerSpec /\ WorkerFairness

----------------------------------------------------------------------------
WorkerTypeOK ==
  /\ work_list \in Seq(Items)
  /\ attached \in BOOLEAN /\ wshould_stop \in BOOLEAN
  /\ queue_seq \in [Items -> 0..(Modulus - 1)]
  /\ done_seq \in [Items -> 0..(Modulus - 1)]
  /\ flushing \in [Items -> Nat]
  /\ wpc \in WorkerLocations /\ wstate \in TaskStates
  /\ current \in Items \cup {NoItem}
  /\ spc \in {"idle", "wake", "wait"} /\ stops \in 0..MaxStop
  /\ pc \in [Task -> Locations]
  /\ target \in [Task -> Work \cup {NoItem}]
  /\ seq \in [Task -> 0..(Modulus - 1)]
  /\ awake \in [Task -> BOOLEAN] /\ done \in [Task -> BOOLEAN]
  /\ queuings \in [Items -> 0..MaxQueue] /\ runs \in [Items -> 0..MaxQueue]
  /\ overlap \in [Items -> BOOLEAN] /\ ticket \in [Task -> [Items -> 0..MaxQueue]]

Executing(i) == current = i /\ wpc = "func"

(* Every queuing leads to one run: it is on the list, or being run, or has *)
(* been run.  An item is not lost when it is queued while it runs, when    *)
(* the thread is stopped with items on the list, or when another thread    *)
(* takes the worker over.                                                  *)
WorkAccounted ==
  WorkerTypeOK /\ \A i \in Items :
    queuings[i] = runs[i] + (IF OnList(work_list, i) THEN 1 ELSE 0)
                          + (IF Executing(i) THEN 1 ELSE 0)

FlushReturns(t) == pc[t] = "wait" /\ pc'[t] = "idle"

(* flush_kthread_work() returns only after the item has been run as often  *)
(* as it was queued before the call, unless it was queued again before the *)
(* done_seq of a run of it was set.                                        *)
(* Sequence numbers wrap round.                                            *)
FlushCompletePlain ==
  [][\A t \in Task : FlushReturns(t) /\ ~overlap[target[t]]
       => runs[target[t]] >= ticket[t][target[t]]]_worker_vars

(* flush_kthread_worker() returns only after all that was queued before    *)
(* the call has been run, also when the thread was stopped and replaced in *)
(* between: the item it queues is behind the others.                       *)
WorkerFlushComplete ==
  [][\A t \in Task : pc[t] = "complete" /\ pc'[t] = "idle"
       => \A w \in Work : runs[w] >= ticket[t][w]]_worker_vars

(* Every flush and kthread_stop() return: no wake-up of the flusher, or of *)
(* the thread, is lost between the look and the sleep.                     *)
FlushEnds ==
  /\ \A t \in Task : pc[t] # "idle" ~> pc[t] = "idle"
  /\ spc # "idle" ~> spc = "idle"

=============================================================================
