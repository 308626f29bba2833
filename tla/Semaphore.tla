----------------------------- MODULE Semaphore -----------------------------
(***************************************************************************)
(* The counting semaphore of kernel/semaphore.c.                           *)
(*                                                                         *)
(* sem->lock is a spinlock taken with interrupts off around every access   *)
(* to the semaphore, so the code between a lock and the next unlock is one *)
(* action.  The interesting part is what happens between the unlock and    *)
(* the relock in __down_common(), while the task sleeps or is on its way   *)
(* in or out of schedule_timeout(): an up() can hand it a permit, its      *)
(* timeout can run out, a signal can arrive and somebody else can wake it, *)
(* in any order and in any number.                                         *)
(***************************************************************************)
EXTENDS Integers, Sequences, FiniteSets, TaskSched, WaitList

CONSTANTS
  Task,        \* the tasks that use the semaphore
  InitCount,   \* the value sema_init() was given
  MaxSupply    \* bound of the model: permits ever put into circulation

ASSUME TaskAssumption   == IsFiniteSet(Task)
ASSUME InitAssumption   == InitCount \in Nat
ASSUME SupplyAssumption == MaxSupply \in Nat /\ InitCount <= MaxSupply

VARIABLES
  count,       \* sem->count
  wait_list,   \* sem->wait_list, the tasks of the waiters, first in first
  up,          \* waiter.up of every task that sleeps in __down_common()
  pc,          \* where every task is, see Locations
  kind,        \* the state argument of the task's __down_common()
  timeout,     \* the timeout variable of the task's __down_common()
  state,       \* task_struct.state
  sig,         \* the signal pending for the task
  supply       \* ghost: InitCount and the up()s of those who hold nothing

vars == <<count, wait_list, up, pc, kind, timeout, state, sig, supply>>

(* "out": holds nothing; "sched": between the unlock and the relock of     *)
(* __down_common(); "in": down() has returned 0 and up() is still to come. *)
Locations == {"out", "sched", "in"}

(* MAX_SCHEDULE_TIMEOUT, a number of jiffies above zero, and zero. *)
TMO_MAX  == "max"
TMO_SOME == "some"
TMO_ZERO == "zero"
Timeouts == {TMO_MAX, TMO_SOME, TMO_ZERO}

----------------------------------------------------------------------------
Init ==
  /\ count     = InitCount
  /\ wait_list = <<>>
  /\ up        = [t \in Task |-> FALSE]
  /\ pc        = [t \in Task |-> "out"]
  /\ kind      = [t \in Task |-> TASK_UNINTERRUPTIBLE]
  /\ timeout   = [t \in Task |-> TMO_MAX]
  /\ state     = [t \in Task |-> TASK_RUNNING]
  /\ sig       = [t \in Task |-> SIG_NONE]
  /\ supply    = InitCount

(***************************************************************************)
(* The body of the for loop of __down_common(), up to the unlock: task t,  *)
(* whose waiter is on the list l, gives up or goes to sleep in state s.    *)
(***************************************************************************)
interrupted(t, l, s) ==
  /\ signal_pending_state(s, sig[t])
  /\ wait_list' = list_del(l, t)
  /\ pc' = [pc EXCEPT ![t] = "out"]
  /\ UNCHANGED state

timed_out_no_list_del(t, l, s, tmo) ==   \* mutant: leaves the waiter on the list
  /\ ~signal_pending_state(s, sig[t])
  /\ tmo = TMO_ZERO
  /\ wait_list' = l
  /\ pc' = [pc EXCEPT ![t] = "out"]
  /\ UNCHANGED state

timed_out(t, l, s, tmo) ==
  /\ ~signal_pending_state(s, sig[t])
  /\ tmo = TMO_ZERO
  /\ wait_list' = list_del(l, t)
  /\ pc' = [pc EXCEPT ![t] = "out"]
  /\ UNCHANGED state

go_to_sleep(t, l, s, tmo) ==
  /\ ~signal_pending_state(s, sig[t])
  /\ tmo # TMO_ZERO
  /\ wait_list' = l
  /\ pc' = [pc EXCEPT ![t] = "sched"]
  /\ state' = [state EXCEPT ![t] = s]

(* The locals of __down_common() die with it: they go back to their first  *)
(* value when the task is not in the function.                             *)
down_loop(t, l, s, tmo) ==
  /\ \/ interrupted(t, l, s)
     \/ timed_out(t, l, s, tmo)
     \/ go_to_sleep(t, l, s, tmo)
  /\ kind'    = [kind    EXCEPT ![t] = IF pc'[t] = "sched" THEN s ELSE TASK_UNINTERRUPTIBLE]
  /\ timeout' = [timeout EXCEPT ![t] = IF pc'[t] = "sched" THEN tmo ELSE TMO_MAX]

(* The uncontended case of all the down functions. *)
take_count(t) ==
  /\ count > 0
  /\ count' = count - 1
  /\ pc' = [pc EXCEPT ![t] = "in"]
  /\ UNCHANGED <<wait_list, up, kind, timeout, state, sig, supply>>

__down_common(t, s, tmo) ==
  /\ ~(count > 0)
  /\ up' = [up EXCEPT ![t] = FALSE]
  /\ down_loop(t, list_add_tail(wait_list, t), s, tmo)
  /\ UNCHANGED <<count, sig, supply>>

down_with(t, s, tmo) ==
  /\ pc[t] = "out"
  /\ take_count(t) \/ __down_common(t, s, tmo)

down(t)               == down_with(t, TASK_UNINTERRUPTIBLE, TMO_MAX)
down_interruptible(t) == down_with(t, TASK_INTERRUPTIBLE, TMO_MAX)
down_killable(t)      == down_with(t, TASK_KILLABLE, TMO_MAX)
down_timeout(t)       == \E tmo \in {TMO_SOME, TMO_ZERO} :
                           down_with(t, TASK_UNINTERRUPTIBLE, tmo)

(* When it fails down_trylock() changes nothing. *)
down_trylock(t) == pc[t] = "out" /\ take_count(t)

(***************************************************************************)
(* schedule_timeout() returns in the task that was woken, with what is     *)
(* left of its timeout; it takes the lock, and returns with the permit an  *)
(* up() may have given it or goes round the loop.                          *)
(***************************************************************************)
remaining(t) == IF timeout[t] = TMO_SOME THEN {TMO_SOME, TMO_ZERO} ELSE {timeout[t]}

wakes_with_permit(t) ==
  /\ up[t]
  /\ pc' = [pc EXCEPT ![t] = "in"]
  /\ up' = [up EXCEPT ![t] = FALSE]
  /\ kind' = [kind EXCEPT ![t] = TASK_UNINTERRUPTIBLE]
  /\ timeout' = [timeout EXCEPT ![t] = TMO_MAX]
  /\ UNCHANGED <<wait_list, state>>

wakes_timeout_first(t, tmo) ==   \* mutant: the timeout is looked at before waiter.up
  /\ IF up[t]
       THEN /\ tmo = TMO_ZERO
            /\ pc' = [pc EXCEPT ![t] = "out"]
            /\ up' = [up EXCEPT ![t] = FALSE]
            /\ kind' = [kind EXCEPT ![t] = TASK_UNINTERRUPTIBLE]
            /\ timeout' = [timeout EXCEPT ![t] = TMO_MAX]
            /\ UNCHANGED <<wait_list, state>>
       ELSE down_loop(t, wait_list, kind[t], tmo) /\ UNCHANGED up

wakes_without_permit(t, tmo) ==
  /\ ~up[t]
  /\ down_loop(t, wait_list, kind[t], tmo)
  /\ UNCHANGED up

down_resume(t) ==
  /\ pc[t] = "sched"
  /\ state[t] = TASK_RUNNING
  /\ \E tmo \in remaining(t) : wakes_with_permit(t) \/ wakes_without_permit(t, tmo)
  /\ UNCHANGED <<count, sig, supply>>

----------------------------------------------------------------------------
__up_no_wake(w) ==   \* mutant: no wake_up_process()
  /\ wait_list' = Tail(wait_list)
  /\ up' = [up EXCEPT ![w] = TRUE]
  /\ UNCHANGED <<count, state>>

(* The contended case of up(): the first waiter gets the permit. *)
__up(w) ==
  /\ wait_list' = Tail(wait_list)
  /\ up' = [up EXCEPT ![w] = TRUE]
  /\ state' = [state EXCEPT ![w] = TASK_RUNNING]
  /\ UNCHANGED count

up_common_no_handoff ==   \* mutant: the permit is put back and a waiter told
  /\ count' = count + 1
  /\ state' = IF wait_list = <<>> THEN state
              ELSE [state EXCEPT ![Head(wait_list)] = TASK_RUNNING]
  /\ UNCHANGED <<wait_list, up>>

up_common ==
  \/ /\ wait_list = <<>>
     /\ count' = count + 1
     /\ UNCHANGED <<wait_list, up, state>>
  \/ /\ wait_list # <<>>
     /\ __up(Head(wait_list))

(* up() by a task that has been through down(). *)
up_holder(t) ==
  /\ pc[t] = "in"
  /\ up_common
  /\ pc' = [pc EXCEPT ![t] = "out"]
  /\ UNCHANGED <<kind, timeout, sig, supply>>

(* up() by an interrupt handler, or by a task that never called down(). *)
up_stranger ==
  /\ supply < MaxSupply
  /\ supply' = supply + 1
  /\ up_common
  /\ UNCHANGED <<pc, kind, timeout, sig>>

----------------------------------------------------------------------------
(* The environment: process_timeout(), signals, and wake-ups of the task   *)
(* that have nothing to do with the semaphore.                             *)
process_timeout(t) ==
  /\ pc[t] = "sched"
  /\ timeout[t] = TMO_SOME
  /\ timeout' = [timeout EXCEPT ![t] = TMO_ZERO]
  /\ state' = [state EXCEPT ![t] = TASK_RUNNING]
  /\ UNCHANGED <<count, wait_list, up, pc, kind, sig, supply>>

send_signal(t, sg) ==
  /\ sig[t] # SIG_KILL
  /\ sg # sig[t]
  /\ sig' = [sig EXCEPT ![t] = sg]
  /\ state' = IF signal_pending_state(state[t], sg)
                THEN [state EXCEPT ![t] = TASK_RUNNING] ELSE state
  /\ UNCHANGED <<count, wait_list, up, pc, kind, timeout, supply>>

(* Signals are taken on the way back to user mode, outside the semaphore. *)
take_signal(t) ==
  /\ pc[t] = "out"
  /\ sig[t] # SIG_NONE
  /\ sig' = [sig EXCEPT ![t] = SIG_NONE]
  /\ UNCHANGED <<count, wait_list, up, pc, kind, timeout, state, supply>>

stray_wake_up(t) ==
  /\ pc[t] = "sched"
  /\ state[t] # TASK_RUNNING
  /\ state' = [state EXCEPT ![t] = TASK_RUNNING]
  /\ UNCHANGED <<count, wait_list, up, pc, kind, timeout, sig, supply>>

----------------------------------------------------------------------------
Down(t) == \/ down(t) \/ down_interruptible(t) \/ down_killable(t)
           \/ down_timeout(t) \/ down_trylock(t)

Environment(t) == \/ process_timeout(t)
                  \/ \E sg \in {SIG_OTHER, SIG_KILL} : send_signal(t, sg)
                  \/ take_signal(t)
                  \/ stray_wake_up(t)

Next ==
  \/ \E t \in Task : Down(t) \/ down_resume(t) \/ up_holder(t) \/ Environment(t)
  \/ up_stranger

Spec == Init /\ [][Next]_vars

(* The scheduler runs a task that is runnable, and the code between down() *)
(* and up() ends.  Nothing else is promised.                               *)
Fairness == \A t \in Task : WF_vars(down_resume(t)) /\ WF_vars(up_holder(t))

FairSpec == Spec /\ Fairness

----------------------------------------------------------------------------
TypeOK ==
  /\ count \in Nat
  /\ wait_list \in Seq(Task)
  /\ up \in [Task -> BOOLEAN]
  /\ pc \in [Task -> Locations]
  /\ kind \in [Task -> SleepStates]
  /\ timeout \in [Task -> Timeouts]
  /\ state \in [Task -> TaskStates]
  /\ sig \in [Task -> Signals]
  /\ supply \in Nat

(* The tasks a permit is with: those between down() and up(), and those an *)
(* up() has chosen that have not run since.                                *)
Permitted == {t \in Task : pc[t] = "in" \/ up[t]}

(* No permit is lost or made up, whatever the order in which an up(), a    *)
(* timeout and a signal reach a sleeping task: __down_common() looks at    *)
(* waiter.up before it looks at the signal and at the timeout, and a task  *)
(* that gave up is not on the list any more.                               *)
PermitsConserved == count + Cardinality(Permitted) = supply

(* While a task waits there is no free permit, so no later down() or       *)
(* down_trylock() can overtake it.                                         *)
NoBarging == wait_list # <<>> => count = 0

(* A task on the list sleeps or is on its way round the loop, is there     *)
(* once and has no permit; one that has left the list in its sleep has     *)
(* been given one and has been woken for it.                               *)
WaitersQueued ==
  /\ \A t \in Task : pc[t] = "sched" <=> (OnList(wait_list, t) \/ up[t])
  /\ \A t \in Task : up[t] => ~OnList(wait_list, t) /\ state[t] = TASK_RUNNING
  /\ OnceEach(wait_list)

(* A permit that is handed over goes to the waiter that came first among   *)
(* those that have not given up: down functions queue at the tail of the   *)
(* list, and up() serves its head.                                         *)
FirstComeFirstServed ==
  [][\A t \in Task : up'[t] /\ ~up[t] => wait_list # <<>> /\ t = wait_list[1]]_vars

(* A task that sleeps in a down function comes out of it, since those that *)
(* hold a permit give it back and newcomers queue behind the sleeper.      *)
EveryWaiterLeaves == \A t \in Task : pc[t] = "sched" ~> pc[t] # "sched"

=============================================================================
