----------------------------- MODULE TaskSched -----------------------------
(***************************************************************************)
(* What the sleeping locks of the kernel know of the scheduler: the values *)
(* of task_struct.state they sleep in, the signals a task may have         *)
(* pending, and the predicate that says which signal ends which sleep.     *)
(*                                                                         *)
(* A module that extends this one keeps the state of every task in a       *)
(* function, lets a sleep end only in TASK_RUNNING, and models             *)
(* wake_up_process(p) as the assignment of TASK_RUNNING to p's state.      *)
(***************************************************************************)

TASK_RUNNING         == "TASK_RUNNING"
TASK_INTERRUPTIBLE   == "TASK_INTERRUPTIBLE"
TASK_KILLABLE        == "TASK_KILLABLE"
TASK_UNINTERRUPTIBLE == "TASK_UNINTERRUPTIBLE"

SleepStates == {TASK_INTERRUPTIBLE, TASK_KILLABLE, TASK_UNINTERRUPTIBLE}
TaskStates  == SleepStates \cup {TASK_RUNNING}

(* No signal, a signal that is not fatal, SIGKILL. *)
SIG_NONE  == "none"
SIG_OTHER == "other"
SIG_KILL  == "kill"
Signals   == {SIG_NONE, SIG_OTHER, SIG_KILL}

(***************************************************************************)
(* A task that sleeps in state s is to give up its sleep when sg is        *)
(* pending.  The delivery of a signal wakes exactly the sleepers for which *)
(* this holds: every signal wakes TASK_INTERRUPTIBLE, and only a fatal one *)
(* wakes TASK_KILLABLE (TASK_WAKEKILL | TASK_UNINTERRUPTIBLE).             *)
(***************************************************************************)
signal_pending_state(s, sg) ==
  \/ s = TASK_INTERRUPTIBLE /\ sg # SIG_NONE
  \/ s = TASK_KILLABLE      /\ sg = SIG_KILL

=============================================================================
