----------------------------- MODULE RuntimePM ------------------------------
(***************************************************************************)
(* Runtime power management of devices, drivers/base/power/runtime.c.      *)
(*                                                                         *)
(* Tasks use devices between a get and a put; a device nobody uses, and    *)
(* none of whose children is active, may be suspended, by a task, by its   *)
(* work item or after a time.  The callbacks of the driver are run without *)
(* dev->power.lock, so while one is running others ask for the opposite,   *)
(* wait for it, or leave a request behind.                                 *)
(*                                                                         *)
(* What happens between two releases of a lock is one action.  A call that *)
(* is cut by releases is a frame on the stack of who makes it.  The work   *)
(* item of a device is run by one worker at a time.  Devices here have     *)
(* callbacks and look after their children, and their locks are not taken  *)
(* in interrupts (no_callbacks, ignore_children and irq_safe not set).     *)
(***************************************************************************)
EXTENDS Integers, Sequences, FiniteSets

CONSTANTS
  User,      \* tasks that get and put devices
  Manager,   \* tasks that make the other calls; a task may be both
  Device,
  Parent,    \* dev->parent of every device
  Used,      \* the devices tasks call for
  Fault,     \* what callbacks may return: <<"resume" or "suspend", device, "error" or "busy">>
  Puts,      \* the ways to put a device: <<"idle" or "suspend", rpmflags>>
  MaxDepth,  \* bound: disables in force at a time
  NoParent   \* dev->parent of a device at the top

Flags == {"ASYNC", "NOWAIT", "AUTO"}

ASSUME DeviceAssumption == NoParent \notin Device /\ IsFiniteSet(Device) /\ Used \subseteq Device
ASSUME DepthAssumption == MaxDepth \in Nat
ASSUME ParentAssumption == Parent \in [Device -> Device \cup {NoParent}] /\ \A d \in Device : Parent[d] # d
ASSUME PutsAssumption == Puts \subseteq {"idle", "suspend"} \X SUBSET Flags

(* The work item and the timer of a device run beside the tasks. *)
Task == User \cup Manager
worker(d) == <<"worker", d>>
timer(d) == <<"timer", d>>
Actor == Task \cup {worker(d) : d \in Device} \cup {timer(d) : d \in Device}

ASSUME ActorAssumption == \A d \in Device : worker(d) \notin Task

VARIABLES
  dev,     \* dev->power of every device
  work,    \* is the work item of the device queued?
  stack,   \* the calls every actor is in, the innermost last
  ref,     \* the references of tasks: "ok" if the get has promised an active device
  lapsed   \* ghost: a failed autosuspend was started over without a wake-up

rpm_vars == <<dev, work, stack, ref, lapsed>>

Power == [status : {"ACTIVE", "RESUMING", "SUSPENDED", "SUSPENDING"},
          usage : Nat, child_count : Nat, disable_depth : Nat, error : BOOLEAN,
          request : {"NONE", "IDLE", "SUSPEND", "AUTOSUSPEND", "RESUME"}, pending : BOOLEAN,
          deferred : BOOLEAN, idle : BOOLEAN, timer : {"off", "suspend", "autosuspend"}]

(* pm_runtime_init(), and pm_runtime_enable() by the driver. *)
RpmInit ==
  /\ dev = [d \in Device |->
       [status |-> "SUSPENDED", usage |-> 0, child_count |-> 0, disable_depth |-> 0,
        error |-> FALSE, request |-> "NONE", pending |-> FALSE, deferred |-> FALSE,
        idle |-> FALSE, timer |-> "off"]]
  /\ work = [d \in Device |-> FALSE]
  /\ stack = [a \in Actor |-> <<>>]
  /\ ref = [t \in Task |-> [d \in Device |-> "no"]]
  /\ lapsed = [d \in Device |-> FALSE]

(***************************************************************************)
(* A frame: the function, its device and flags; parent, whether rpm_resume *)
(* has a reference to the parent; ret, what its caller does afterwards.    *)
(***************************************************************************)
Frame(fn, d, flags, ret) ==
  [fn |-> fn, dev |-> d, flags |-> flags, ret |-> ret, parent |-> FALSE, pc |-> "repeat"]

Places == {"repeat", "sleep", "woken", "callback", "returned", "parent", "out", "put", "put_ok",
           "notify", "deferred", "cancel", "cancelled"}

CallFrame ==
  [fn : {"resume", "suspend", "idle", "barrier", "work"}, dev : Device, flags : SUBSET Flags,
   ret : {"done", "get", "put", "suspend", "idle", "parent", "barrier", "disable"}, parent : BOOLEAN,
   pc : Places]

----------------------------------------------------------------------------
(* The operators below take and return all variables, as a record s. *)
State == [dev |-> dev, work |-> work, stack |-> stack, ref |-> ref, lapsed |-> lapsed]
Set(s) == dev' = s.dev /\ work' = s.work /\ stack' = s.stack /\ ref' = s.ref /\ lapsed' = s.lapsed

States == [dev : [Device -> Power], work : [Device -> BOOLEAN], stack : [Actor -> Seq(CallFrame)],
           ref : [Task -> [Device -> {"no", "ref", "ok"}]], lapsed : [Device -> BOOLEAN]]

(* dev->power of d is changed to p. *)
With(s, d, p) == [s EXCEPT !.dev[d] = p]

Top(s, a) == s.stack[a][Len(s.stack[a])]
Push(s, a, f) == [s EXCEPT !.stack[a] = Append(@, f)]
Pop(s, a) == [s EXCEPT !.stack[a] = SubSeq(@, 1, Len(@) - 1)]
Retop(s, a, f) == [s EXCEPT !.stack[a] = [@ EXCEPT ![Len(@)] = f]]
At(s, a, pc) == Retop(s, a, [Top(s, a) EXCEPT !.pc = pc])

In(a, fn, pcs) ==
  stack[a] # <<>> /\ LET f == stack[a][Len(stack[a])] IN f.fn = fn /\ f.pc \in pcs
Dev(a) == stack[a][Len(stack[a])].dev

pm_runtime_get_noresume(s, d) == With(s, d, [s.dev[d] EXCEPT !.usage = @ + 1])
pm_runtime_put_noidle(s, d) == With(s, d, [s.dev[d] EXCEPT !.usage = IF @ > 0 THEN @ - 1 ELSE 0])

(* The decrement of atomic_dec_and_test(), with RPM_GET_PUT. *)
get_put(s, d) == With(s, d, [s.dev[d] EXCEPT !.usage = @ - 1])

pm_runtime_deactivate_timer(s, d) == With(s, d, [s.dev[d] EXCEPT !.timer = "off"])
pm_runtime_cancel_pending(s, d) == With(s, d, [s.dev[d] EXCEPT !.timer = "off", !.request = "NONE"])
request_none(s, d) == With(s, d, [s.dev[d] EXCEPT !.request = "NONE"])

(* cancel_work_sync() keeps the item to itself till the worker is through. *)
Grabbed(s, d) == \E a \in Actor : \E i \in DOMAIN s.stack[a] :
                   s.stack[a][i].dev = d /\ s.stack[a][i].pc = "cancelled"

queue_request(s, d, request) ==
  [With(s, d, [s.dev[d] EXCEPT !.request = request, !.pending = TRUE])
     EXCEPT !.work[d] = @ \/ (~s.dev[d].pending /\ ~Grabbed(s, d))]

dequeue(s, d) == [s EXCEPT !.work[d] = FALSE]

(* Only the innermost call of a stack can be asleep. *)
wake_up_all(s, d) ==
  LET sleeps(a) == s.stack[a] # <<>> /\ Top(s, a).dev = d /\ Top(s, a).pc = "sleep"
  IN  [s EXCEPT !.lapsed[d] = FALSE,
                !.stack = [a \in Actor |-> IF sleeps(a) THEN At(s, a, "woken").stack[a] ELSE s.stack[a]]]

(* "done" stands for the return value 1. *)
rpm_check_suspend_allowed(p) ==
  IF \/ p.error \/ p.disable_depth > 0 \/ p.usage > 0 \/ p.child_count > 0
     \/ p.deferred /\ p.status = "SUSPENDING"
     \/ p.pending /\ p.request = "RESUME"
    THEN "no"
    ELSE IF p.status = "SUSPENDED" THEN "done" ELSE "ok"

rpm_idle_allowed(p) ==
  /\ rpm_check_suspend_allowed(p) = "ok"
  /\ p.status = "ACTIVE"
  /\ ~(p.pending /\ p.request \in {"SUSPEND", "AUTOSUSPEND", "RESUME"})
  /\ ~p.idle

rpm_idle_async(s, d) == IF rpm_idle_allowed(s.dev[d]) THEN queue_request(s, d, "IDLE") ELSE s

----------------------------------------------------------------------------
(* What the callers of rpm_resume() and the others do when they return. *)

Quiet(p) == p.status \notin {"SUSPENDING", "RESUMING"} /\ ~p.idle

barrier_end(s, a) ==
  IF Top(s, a).ret = "put" THEN pm_runtime_put_noidle(Pop(s, a), Top(s, a).dev) ELSE Pop(s, a)

__pm_runtime_barrier_wait(s, a) ==
  IF Quiet(s.dev[Top(s, a).dev]) THEN barrier_end(s, a) ELSE At(s, a, "sleep")

__pm_runtime_barrier_timer(s, a) ==   \* mutant: the timer is left running
  LET d == Top(s, a).dev
  IN  IF s.dev[d].pending THEN At(request_none(s, d), a, "cancel")
                          ELSE __pm_runtime_barrier_wait(s, a)

__pm_runtime_barrier(s, a) ==
  LET d == Top(s, a).dev
      off == pm_runtime_deactivate_timer(s, d)
  IN  IF s.dev[d].pending THEN At(request_none(off, d), a, "cancel")
                          ELSE __pm_runtime_barrier_wait(off, a)

(* The depth may have changed while rpm_resume() was running. *)
disable_now(s, a) ==
  LET d == Top(s, a).dev
      deeper == With(s, d, [s.dev[d] EXCEPT !.disable_depth = @ + 1])
  IN  IF s.dev[d].disable_depth = 0 THEN __pm_runtime_barrier(deeper, a) ELSE barrier_end(deeper, a)

(* rpm_suspend() ends where the resume it had deferred has ended. *)
suspend_out(s, a) ==
  IF Top(s, a).ret = "idle" THEN At(Pop(s, a), a, "returned") ELSE Pop(s, a)

Return(s, a, ok) ==
  LET f == Top(s, a)
      popped == Pop(s, a)
  IN  CASE f.ret = "done"    -> popped
        [] f.ret = "get"     -> [popped EXCEPT !.ref[a][f.dev] = IF ok THEN "ok" ELSE @]
        [] f.ret = "suspend" -> suspend_out(popped, a)
        [] f.ret = "idle"    -> At(popped, a, "returned")
        [] f.ret = "parent"  -> At(popped, a, IF s.dev[f.dev].status = "ACTIVE" THEN "repeat" ELSE "out")
        [] f.ret = "barrier" -> __pm_runtime_barrier(popped, a)
        [] f.ret = "disable" -> disable_now(pm_runtime_put_noidle(popped, f.dev), a)

(* "out" of rpm_resume(): the parent's reference is given back first. *)
resume_out(s, a, ok) ==
  IF Top(s, a).parent THEN At(s, a, IF ok THEN "put_ok" ELSE "put") ELSE Return(s, a, ok)

----------------------------------------------------------------------------
(* pm_runtime_get_noresume(parent), under no lock. *)
get_parent(s, a) ==
  LET f == Top(s, a)
  IN  Retop(pm_runtime_get_noresume(s, Parent[f.dev]), a, [f EXCEPT !.parent = TRUE, !.pc = "parent"])

put_parent(s, a) ==
  LET f == Top(s, a)
  IN  Retop(get_put(s, Parent[f.dev]), a, [f EXCEPT !.parent = FALSE, !.pc = "returned"])

rpm_resume_body(s, a) ==
  LET f == Top(s, a)
      d == f.dev
      p == s.dev[d]
      nowait == f.flags \cap {"ASYNC", "NOWAIT"} # {}
      none == With(s, d, [p EXCEPT !.request = "NONE", !.timer = IF @ = "suspend" THEN "off" ELSE @])
  IN  CASE p.error \/ p.disable_depth > 0 -> resume_out(s, a, FALSE)
        [] ~(p.error \/ p.disable_depth > 0) /\ p.status = "ACTIVE" -> resume_out(none, a, TRUE)
        [] ~(p.error \/ p.disable_depth > 0) /\ p.status \in {"RESUMING", "SUSPENDING"} ->
             IF nowait
               THEN resume_out(With(none, d, [none.dev[d] EXCEPT !.deferred = @ \/ p.status = "SUSPENDING"]),
                               a, p.status = "SUSPENDING")
               ELSE At(none, a, "sleep")
        [] ~(p.error \/ p.disable_depth > 0) /\ p.status = "SUSPENDED" ->
             IF "ASYNC" \in f.flags THEN Return(queue_request(none, d, "RESUME"), a, TRUE)
             ELSE IF ~f.parent /\ Parent[d] # NoParent
               THEN get_parent(none, a)
               ELSE At(With(none, d, [none.dev[d] EXCEPT !.status = "RESUMING"]), a, "callback")

rpm_resume_woken_ok(a) ==   \* mutant: the sleeper takes the end of the change for success
  /\ In(a, "resume", {"repeat", "woken"})
  /\ IF Top(State, a).pc = "woken" /\ dev[Dev(a)].status \in {"RESUMING", "SUSPENDING"}
       THEN Set(At(State, a, "sleep"))
       ELSE IF Top(State, a).pc = "woken" THEN Set(resume_out(State, a, TRUE))
       ELSE Set(rpm_resume_body(State, a))

(* A woken sleeper looks at the status only, and then starts again. *)
rpm_resume(a) ==
  /\ In(a, "resume", {"repeat", "woken"})
  /\ IF Top(State, a).pc = "woken" /\ dev[Dev(a)].status \in {"RESUMING", "SUSPENDING"}
       THEN Set(At(State, a, "sleep"))
       ELSE Set(rpm_resume_body(State, a))

(* Under the parent's lock. *)
resume_parent(a) ==
  LET par == Parent[Dev(a)]
  IN  /\ In(a, "resume", {"parent"})
      /\ IF dev[par].disable_depth > 0
           THEN Set(At(State, a, "repeat"))
           ELSE Set(rpm_resume_body(Push(State, a, Frame("resume", par, {}, "parent")), a))

rpm_resume_done_early(a, ok) ==   \* mutant: the child is not counted
  /\ In(a, "resume", {"callback"}) /\ (ok \/ <<"resume", Dev(a), "error">> \in Fault)
  /\ LET d == Dev(a)
         back == At(State, a, "returned")
         s == IF ok
                THEN With(back, d, [dev[d] EXCEPT !.status = "ACTIVE", !.error = FALSE])
                ELSE pm_runtime_cancel_pending(
                       With(back, d, [dev[d] EXCEPT !.status = "SUSPENDED", !.error = TRUE]), d)
         woken == wake_up_all(s, d)
     IN  Set(resume_out(IF ok THEN rpm_idle_async(woken, d) ELSE woken, a, ok))

rpm_resume_done(a, ok) ==
  /\ In(a, "resume", {"callback"}) /\ (ok \/ <<"resume", Dev(a), "error">> \in Fault)
  /\ LET d == Dev(a)
         back == At(State, a, "returned")
         active == With(back, d, [dev[d] EXCEPT !.status = "ACTIVE", !.error = FALSE])
         s == IF ok
                THEN IF Top(State, a).parent
                       THEN With(active, Parent[d], [dev[Parent[d]] EXCEPT !.child_count = @ + 1]) ELSE active
                ELSE pm_runtime_cancel_pending(
                       With(back, d, [dev[d] EXCEPT !.status = "SUSPENDED", !.error = TRUE]), d)
         woken == wake_up_all(s, d)
     IN  Set(resume_out(IF ok THEN rpm_idle_async(woken, d) ELSE woken, a, ok))

(* pm_runtime_put(parent), and back under the lock of the device. *)
resume_put_parent(a) ==
  LET par == Parent[Dev(a)]
      put == put_parent(State, a)
  IN  /\ In(a, "resume", {"put", "put_ok", "out"})
      /\ Set(Return(IF put.dev[par].usage = 0 THEN rpm_idle_async(put, par) ELSE put,
                    a, Top(State, a).pc = "put_ok"))

----------------------------------------------------------------------------
(* later: the autosuspend delay is not over yet. *)
rpm_suspend_body(s, a, later) ==
  LET f == Top(s, a)
      d == f.dev
      p == s.dev[d]
      cancelled == pm_runtime_cancel_pending(s, d)
  IN  IF \/ rpm_check_suspend_allowed(p) # "ok"
         \/ p.status = "RESUMING" /\ "ASYNC" \notin f.flags
        THEN Return(s, a, FALSE)
      ELSE IF "AUTO" \in f.flags /\ p.status # "SUSPENDING" /\ later
        THEN Return(With(s, d, [p EXCEPT !.request = "NONE", !.timer = "autosuspend"]), a, TRUE)
      ELSE IF p.status = "SUSPENDING"
        THEN IF f.flags \cap {"ASYNC", "NOWAIT"} # {} THEN Return(cancelled, a, FALSE)
                                                      ELSE At(cancelled, a, "sleep")
      ELSE LET undeferred == With(cancelled, d, [cancelled.dev[d] EXCEPT !.deferred = FALSE])
           IN  IF "ASYNC" \in f.flags
                 THEN Return(queue_request(undeferred, d,
                               IF "AUTO" \in f.flags THEN "AUTOSUSPEND" ELSE "SUSPEND"), a, TRUE)
                 ELSE At(With(undeferred, d, [undeferred.dev[d] EXCEPT !.status = "SUSPENDING"]), a, "callback")

rpm_suspend(a, later) ==
  /\ In(a, "suspend", {"repeat", "woken"})
  /\ IF Top(State, a).pc = "woken" /\ dev[Dev(a)].status = "SUSPENDING"
       THEN Set(At(State, a, "sleep"))
       ELSE Set(rpm_suspend_body(State, a, later))

(* The callback has failed.  An autosuspend that met a busy device is      *)
(* started over if there is a new time for it; later, if that is not over. *)
rpm_suspend_failed(a, busy, retry, later) ==
  /\ In(a, "suspend", {"callback"}) /\ <<"suspend", Dev(a), IF busy THEN "busy" ELSE "error">> \in Fault
  /\ LET d == Dev(a)
         s == With(At(State, a, "returned"), d,
                   [dev[d] EXCEPT !.status = "ACTIVE", !.deferred = FALSE, !.error = ~busy])
     IN  IF busy
           THEN IF "AUTO" \in Top(State, a).flags /\ retry
                  THEN Set(rpm_suspend_body([s EXCEPT !.lapsed[d] = TRUE], a, later))
                  ELSE Set(Return(wake_up_all(s, d), a, FALSE))
           ELSE Set(Return(wake_up_all(pm_runtime_cancel_pending(s, d), d), a, FALSE))

rpm_suspend_done_silent(a) ==   \* mutant: waiters are woken only after a failure
  /\ In(a, "suspend", {"callback"})
  /\ LET d == Dev(a)
         s == With(At(State, a, "returned"), d,
                   [dev[d] EXCEPT !.status = "SUSPENDED", !.error = FALSE, !.timer = "off"])
         counted == IF Parent[d] # NoParent /\ dev[Parent[d]].child_count > 0
                      THEN With(s, Parent[d], [dev[Parent[d]] EXCEPT !.child_count = @ - 1]) ELSE s
     IN  IF dev[d].deferred
           THEN Set(rpm_resume_body(Push(At(counted, a, "deferred"), a, Frame("resume", d, {}, "suspend")), a))
           ELSE IF Parent[d] # NoParent THEN Set(At(counted, a, "notify")) ELSE Set(Return(counted, a, TRUE))

rpm_suspend_done_forgets(a) ==   \* mutant: the deferred resume is not carried out
  /\ In(a, "suspend", {"callback"})
  /\ LET d == Dev(a)
         s == With(At(State, a, "returned"), d,
                   [dev[d] EXCEPT !.status = "SUSPENDED", !.error = FALSE, !.timer = "off"])
         counted == IF Parent[d] # NoParent /\ dev[Parent[d]].child_count > 0
                      THEN With(s, Parent[d], [dev[Parent[d]] EXCEPT !.child_count = @ - 1]) ELSE s
         woken == wake_up_all(counted, d)
     IN  IF Parent[d] # NoParent THEN Set(At(woken, a, "notify")) ELSE Set(Return(woken, a, TRUE))

rpm_suspend_done(a) ==
  /\ In(a, "suspend", {"callback"})
  /\ LET d == Dev(a)
         s == With(At(State, a, "returned"), d,
                   [dev[d] EXCEPT !.status = "SUSPENDED", !.error = FALSE, !.timer = "off"])
         counted == IF Parent[d] # NoParent /\ dev[Parent[d]].child_count > 0
                      THEN With(s, Parent[d], [dev[Parent[d]] EXCEPT !.child_count = @ - 1]) ELSE s
         woken == wake_up_all(counted, d)
     IN  IF dev[d].deferred
           THEN Set(rpm_resume_body(Push(At(woken, a, "deferred"), a, Frame("resume", d, {}, "suspend")), a))
           ELSE IF Parent[d] # NoParent THEN Set(At(woken, a, "notify")) ELSE Set(Return(woken, a, TRUE))

(* Maybe the parent is now able to suspend. *)
suspend_notify_parent(a) ==
  /\ In(a, "suspend", {"notify"})
  /\ Set(Return(rpm_idle_async(State, Parent[Dev(a)]), a, TRUE))

----------------------------------------------------------------------------
rpm_idle(a) ==
  LET d == Dev(a)
      s == request_none(State, d)
  IN  /\ In(a, "idle", {"repeat"})
      /\ IF ~rpm_idle_allowed(dev[d]) THEN Set(Return(State, a, FALSE))
         ELSE IF "ASYNC" \in Top(State, a).flags THEN Set(Return(queue_request(s, d, "IDLE"), a, TRUE))
         ELSE Set(At(With(s, d, [s.dev[d] EXCEPT !.idle = TRUE]), a, "callback"))

(* The callback may suspend the device itself; *)
idle_callback(a) ==
  /\ In(a, "idle", {"callback"})
  /\ Set(Push(State, a, Frame("suspend", Dev(a), {}, "idle")))

rpm_idle_done(a) ==
  /\ In(a, "idle", {"callback", "returned"})
  /\ LET d == Dev(a)
     IN  Set(Return(wake_up_all(With(State, d, [dev[d] EXCEPT !.idle = FALSE]), d), a, TRUE))

----------------------------------------------------------------------------
(* The worker takes the item off, and later looks at the request. *)
process_one_work(d) ==
  /\ work[d] /\ stack[worker(d)] = <<>>
  /\ Set(dequeue(Push(State, worker(d), Frame("work", d, {}, "done")), d))

Requested(d) ==
  CASE dev[d].request = "IDLE"        -> Frame("idle", d, {"NOWAIT"}, "done")
    [] dev[d].request = "SUSPEND"     -> Frame("suspend", d, {"NOWAIT"}, "done")
    [] dev[d].request = "AUTOSUSPEND" -> Frame("suspend", d, {"NOWAIT", "AUTO"}, "done")
    [] dev[d].request = "RESUME"      -> Frame("resume", d, {"NOWAIT"}, "done")

pm_runtime_work(a) ==
  LET d == Dev(a)
      s == With(State, d, [dev[d] EXCEPT !.request = "NONE", !.pending = FALSE])
  IN  /\ In(a, "work", {"repeat"})
      /\ IF ~dev[d].pending \/ dev[d].request = "NONE"
           THEN Set(Return(IF dev[d].pending THEN s ELSE State, a, TRUE))
           ELSE Set(Push(Pop(s, a), a, Requested(d)))

(* In the interrupt of the timer: the suspend is asynchronous and returns. *)
pm_suspend_timer_fn(d, later) ==
  LET flags == {"ASYNC"} \cup (IF dev[d].timer = "autosuspend" THEN {"AUTO"} ELSE {})
      s == pm_runtime_deactivate_timer(State, d)
  IN  /\ dev[d].timer # "off" /\ stack[timer(d)] = <<>>
      /\ Set(rpm_suspend_body(Push(s, timer(d), Frame("suspend", d, flags, "done")), timer(d), later))

----------------------------------------------------------------------------
(* The calls of tasks. *)
Idle(t) == stack[t] = <<>>
Call(s, t, frame) == Set(Push(s, t, frame))

pm_runtime_get(t, d, flags) ==
  /\ Idle(t) /\ ref[t][d] = "no"
  /\ Call([pm_runtime_get_noresume(State, d) EXCEPT !.ref[t][d] = "ref"], t,
          Frame("resume", d, flags, IF "ASYNC" \in flags THEN "done" ELSE "get"))

(* The usage count is decremented; only the last user goes on. *)
pm_runtime_put(t, d, fn, flags) ==
  /\ Idle(t) /\ ref[t][d] # "no"
  /\ LET s == [get_put(State, d) EXCEPT !.ref[t][d] = "no"]
     IN  IF s.dev[d].usage = 0 THEN Call(s, t, Frame(fn, d, flags, "done")) ELSE Set(s)

pm_request_resume(t, d) ==
  Idle(t) /\ Set(rpm_resume_body(Push(State, t, Frame("resume", d, {"ASYNC"}, "done")), t))

(* With a delay of 0 the suspend is requested at once. *)
pm_schedule_suspend(t, d, delay) ==
  /\ Idle(t)
  /\ \/ /\ delay /\ rpm_check_suspend_allowed(dev[d]) = "ok"
        /\ Set(With(State, d, [dev[d] EXCEPT !.request = "NONE", !.timer = "suspend"]))
     \/ /\ ~delay
        /\ Set(rpm_suspend_body(Push(State, t, Frame("suspend", d, {"ASYNC"}, "done")), t, FALSE))

(* A resume that is waiting is carried out first. *)
ResumePending(d) == dev[d].pending /\ dev[d].request = "RESUME"

pm_runtime_barrier(t, d) ==
  LET s == Push(pm_runtime_get_noresume(State, d), t, Frame("barrier", d, {}, "put"))
  IN  /\ Idle(t)
      /\ IF ResumePending(d)
           THEN Set(rpm_resume_body(Push(s, t, Frame("resume", d, {}, "barrier")), t))
           ELSE Set(__pm_runtime_barrier(s, t))

(* A task that has disabled runtime PM enables it again later. *)
__pm_runtime_disable(t, d) ==
  LET s == Push(State, t, Frame("barrier", d, {}, "done"))
  IN  /\ Idle(t) /\ dev[d].disable_depth < MaxDepth
      /\ IF dev[d].disable_depth > 0 THEN Set(With(State, d, [dev[d] EXCEPT !.disable_depth = @ + 1]))
         ELSE IF ResumePending(d)
           THEN Set(rpm_resume_body(Push(pm_runtime_get_noresume(s, d), t,
                                     Frame("resume", d, {}, "disable")), t))
           ELSE Set(disable_now(s, t))

pm_runtime_enable(t, d) ==
  /\ Idle(t) /\ dev[d].disable_depth > 0
  /\ Set(With(State, d, [dev[d] EXCEPT !.disable_depth = @ - 1]))

(* cancel_work_sync(): the item is taken from the queue, *)
barrier_cancel(a) ==
  /\ In(a, "barrier", {"cancel"}) /\ ~Grabbed(State, Dev(a))
  /\ Set(dequeue(At(State, a, "cancelled"), Dev(a)))

(* and the worker waited for. *)
barrier_cancelled(a) ==
  /\ In(a, "barrier", {"cancelled"}) /\ stack[worker(Dev(a))] = <<>>
  /\ Set(__pm_runtime_barrier_wait(With(State, Dev(a), [dev[Dev(a)] EXCEPT !.pending = FALSE]), a))

barrier_woken(a) ==
  /\ In(a, "barrier", {"woken"})
  /\ Set(__pm_runtime_barrier_wait(State, a))

----------------------------------------------------------------------------
(* Who is in a call. *)
Busy == {a \in Actor : stack[a] # <<>>}

Step(a) == \/ rpm_resume(a) \/ resume_parent(a) \/ resume_put_parent(a)
           \/ suspend_notify_parent(a) \/ rpm_idle(a) \/ idle_callback(a) \/ rpm_idle_done(a)
           \/ \E later \in BOOLEAN : rpm_suspend(a, later)
           \/ pm_runtime_work(a) \/ barrier_cancel(a) \/ barrier_cancelled(a) \/ barrier_woken(a)

(* The callback that a has called returns. *)
Callback(a) ==
  /\ stack[a][Len(stack[a])].pc = "callback"
  /\ \/ \E ok \in BOOLEAN : rpm_resume_done(a, ok)
     \/ rpm_suspend_done(a)
     \/ \E busy, retry, later \in BOOLEAN : rpm_suspend_failed(a, busy, retry, later)

Use(t, d) == \/ \E flags \in {{}, {"ASYNC"}} : pm_runtime_get(t, d, flags)
             \/ \E put \in Puts : pm_runtime_put(t, d, put[1], put[2])

Manage(t, d) == \/ pm_request_resume(t, d) \/ (\E delay \in BOOLEAN : pm_schedule_suspend(t, d, delay))
                \/ pm_runtime_barrier(t, d) \/ __pm_runtime_disable(t, d) \/ pm_runtime_enable(t, d)

Background(d) == \/ process_one_work(d)
                 \/ \E later \in BOOLEAN : pm_suspend_timer_fn(d, later)

RpmNext ==
  \/ \E a \in Busy : Step(a) \/ Callback(a)
  \/ \E d \in Used : (\E t \in User : Use(t, d)) \/ (\E t \in Manager : Manage(t, d))
  \/ \E d \in Device : Background(d)

RpmSpec == RpmInit /\ [][RpmNext]_rpm_vars

----------------------------------------------------------------------------
Calls == UNION {{a} \X DOMAIN stack[a] : a \in Busy}
FrameAt(x) == stack[x[1]][x[2]]
Frames(fn, d) == {x \in Calls : FrameAt(x).fn = fn /\ FrameAt(x).dev = d}

RpmTypeOK == State \in States

Children(d) == {c \in Device : Parent[c] = d}

(* What pm_runtime_get_sync() is for: from its successful return to the    *)
(* put the device is active, whatever suspends were requested, scheduled   *)
(* or under way when it was called.                                        *)
HeldIsActive ==
  \A t \in Task, d \in Device : ref[t][d] = "ok" => dev[d].status = "ACTIVE"

(* The calls that have a reference to the device: resumes of a child, and  *)
(* barriers and the resumes that disabling begins with.                    *)
Holds(f, d) ==
  \/ f.fn = "resume" /\ f.parent /\ Parent[f.dev] = d
  \/ f.fn = "barrier" /\ f.ret = "put" /\ f.dev = d
  \/ f.fn = "resume" /\ f.ret = "disable" /\ f.dev = d

(***************************************************************************)
(* Both counts are exact, over all failures and calls that are under way:  *)
(* the references to a device, and its children that are not suspended.    *)
(* And a child is active, or changing, only while its parent is active,    *)
(* unless tasks may disable the parent's runtime PM.                       *)
(***************************************************************************)
CountsExact ==
  /\ RpmTypeOK
  /\ \A d \in Device :
       /\ dev[d].usage = Cardinality({t \in Task : ref[t][d] # "no"})
                           + Cardinality({x \in Calls : Holds(FrameAt(x), d)})
       /\ dev[d].child_count = Cardinality({c \in Children(d) : dev[c].status \in {"ACTIVE", "SUSPENDING"}})
       /\ d \notin Used /\ (\E c \in Children(d) : dev[c].status # "SUSPENDED") => dev[d].status = "ACTIVE"

(* When __pm_runtime_disable() is through, nothing is going on any more    *)
(* and nothing is left that could start: no callback is running, no        *)
(* request is pending, the timer is off.                                   *)
DisabledIsQuiet ==
  \A d \in Device : dev[d].disable_depth > 0 /\ Frames("barrier", d) = {} =>
    Quiet(dev[d]) /\ ~dev[d].pending /\ dev[d].timer = "off"

Transition(fn, d) == {x \in Calls : FrameAt(x).pc = "callback" /\ FrameAt(x).fn = fn /\ FrameAt(x).dev = d}
WaitsFor(f) == CASE f.fn = "suspend" -> dev[f.dev].status = "SUSPENDING"
                 [] f.fn = "resume"  -> dev[f.dev].status \in {"SUSPENDING", "RESUMING"}
                 [] f.fn = "barrier" -> ~Quiet(dev[f.dev])
Sleeping == {x \in Calls : FrameAt(x).pc = "sleep" /\ FrameAt(x).fn \in {"suspend", "resume", "barrier"}}

(***************************************************************************)
(* Everything that has begun will be ended by somebody: a device that      *)
(* changes is being changed by exactly one call, a pending request has a   *)
(* work item or is being cancelled, and nobody sleeps on for a change that *)
(* is over, unless a failed autosuspend was started over (see              *)
(* NoLostWakeup).                                                          *)
(***************************************************************************)
ChangesEnd ==
  /\ \A d \in Device :
       /\ Cardinality(Transition("suspend", d)) = (IF dev[d].status = "SUSPENDING" THEN 1 ELSE 0)
       /\ Cardinality(Transition("resume", d)) = (IF dev[d].status = "RESUMING" THEN 1 ELSE 0)
       /\ dev[d].pending => \/ work[d] \/ Frames("work", d) # {}
                            \/ \E x \in Frames("barrier", d) : FrameAt(x).pc \in {"cancel", "cancelled"}
  /\ \A x \in Sleeping : WaitsFor(FrameAt(x)) \/ lapsed[FrameAt(x).dev]

(* What the comment of rpm_resume() says: if a suspend is running in       *)
(* parallel, it waits "for it to finish", and no longer.                   *)
NoLostWakeup ==
  \A x \in Sleeping : FrameAt(x).fn = "resume" => WaitsFor(FrameAt(x))

(* The ways in which a resume of the device is under way: one is pending,  *)
(* deferred till the suspend is over, or being carried out.                *)
ResumeUnderWay(d) ==
  \/ dev[d].status \in {"ACTIVE", "RESUMING"}
  \/ dev[d].status = "SUSPENDING" /\ dev[d].deferred
  \/ ResumePending(d)
  \/ \E x \in Frames("resume", d) : FrameAt(x).pc \in {"repeat", "sleep", "woken", "parent", "callback"}

(* It has failed, its parent has not been resumed, or runtime PM is off. *)
Refused(d) == \/ dev[d].error \/ dev[d].disable_depth > 0
              \/ \E x \in Frames("resume", d) : FrameAt(x).pc = "out"

BarrierCancels(d) == \E x \in Frames("barrier", d) : FrameAt(x).pc \in {"cancel", "cancelled"}

(***************************************************************************)
(* An asynchronous get is not forgotten.  While a task has a reference,    *)
(* the resume it asked for goes from the request to the worker, from the   *)
(* deferral to the end of the suspend and from there to the parent, and is *)
(* given up only if it fails, runtime PM is disabled or a barrier is       *)
(* cancelling requests.                                                    *)
(***************************************************************************)
ResumeNotForgotten ==
  [][\A t \in Task, d \in Device :
       ref[t][d] # "no" /\ ref'[t][d] # "no" /\ ResumeUnderWay(d) =>
         ResumeUnderWay(d)' \/ Refused(d)' \/ BarrierCancels(d) \/ BarrierCancels(d)']_rpm_vars

=============================================================================
