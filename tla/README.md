# Sleeping primitives, power management and block flushes of the fc86 Linux 3.2.7 kernel: specifications, checks and proofs

The repository is Linux 3.2.7 with support for the AIT8455 ("VSNV3") camera
SoC, an ARM926 (ARMv5) uniprocessor. Paths below are relative to
`src/fc86-linux-3.2.7/`. The board's configuration decides which of several
implementations is the one that runs: uniprocessor, no kernel preemption, swap
based mutexes (`arch/arm/include/asm/mutex.h` selects
`include/asm-generic/mutex-xchg.h` below ARMv6) and the spinlock version of the
reader/writer semaphore (`CONFIG_RWSEM_GENERIC_SPINLOCK`).

A kernel is too large for one project. What everything else in it rests on,
and what tests reach least, are the primitives by which tasks wait for one
another: their bugs are interleavings of a sleep, a wake-up, a signal, a
timeout and a release. They are the core of this project. On top of them it
has three subsystems this battery powered camera lives by, in which tasks, timers,
work items and interrupts share a state machine: the wakeup sources that decide whether the
system may sleep, the runtime power management of devices, and the sequencing of
cache flushes to the SD card.

## 1. Inventory

| Component | State | Operations | Interacts with |
|---|---|---|---|
| Counting semaphore, `kernel/semaphore.c` | `count`, `wait_list`, `waiter.up` | five `down` variants, `up` | scheduler, timers, signals; `up` also from interrupts |
| Mutex, `kernel/mutex.c`, `mutex-xchg.h` | `count` (1, 0, -1), `wait_lock`, `wait_list` | `mutex_lock`, `_interruptible`, `_killable`, `mutex_trylock`, `mutex_unlock` | scheduler, signals; fast paths run beside slow paths |
| Reader/writer semaphore, `lib/rwsem-spinlock.c`, wrappers `kernel/rwsem.c` | `activity`, `wait_list`, `waiter.task`, `waiter.flags` | `down_read`, `down_write`, trylocks, `up_read`, `up_write`, `downgrade_write` | scheduler; sleepers poll `waiter.task` without the lock |
| Reader/writer semaphore with xadd, `lib/rwsem.c` | biased `count`, `wait_list` | the same | not built for this board |
| Asynchronous calls, `kernel/async.c` | `next_cookie`, `async_pending`, a running list per domain, `entry_count` | `async_schedule[_domain]`, `async_synchronize_*` | unbound workqueue, wait queue `async_done` |
| Kthread workers, `kernel/kthread.c` | `work_list`, `worker->task`, per item `queue_seq`, `done_seq`, `flushing` | `queue_kthread_work`, `flush_kthread_work`, `flush_kthread_worker`, `kthread_worker_fn`, `kthread_stop` | scheduler, freezer, wait queues, completions |
| Thread creation, `kernel/kthread.c` | `kthread_create_list`, completions | `kthread_create_on_node`, `kthreadd` | fork |
| SRCU, `kernel/srcu.c` | `completed`, per-CPU counters of two ranks | read lock/unlock, `synchronize_srcu` | readers take no lock |
| Wakeup sources, `drivers/base/power/wakeup.c` | one atomic word with two 16-bit counts, `saved_count`, `events_check_enabled`, per source `active`, its two counts and its timer | `pm_stay_awake`, `pm_relax`, `pm_wakeup_event`, `device_wakeup_enable`, `_disable`, `pm_get_wakeup_count`, `pm_save_wakeup_count`, `pm_wakeup_pending` | timers, the writer of `/sys/power/wakeup_count`, `suspend_enter` |
| Runtime PM, `drivers/base/power/runtime.c` | `runtime_status`, `usage_count`, `child_count`, `disable_depth`, `request`, `idle_notification`, `deferred_resume`, timer | `rpm_idle`, `rpm_suspend`, `rpm_resume` behind get, put, request and schedule calls, `pm_runtime_barrier`, `_disable`, `_enable` | workqueue, timers, parents, driver callbacks without the lock |
| Block flush, `block/blk-flush.c` | two lists, `flush_pending_idx`, `flush_running_idx`, `flush_data_in_flight`, `flush_rq`, `rq->flush.seq` | `blk_insert_flush`, `blk_flush_complete_seq`, `blk_kick_flush`, `flush_end_io`, `flush_data_end_io` | request queue, elevator, the driver's `request_fn`, device with a cache |
| Scheduler, signals, timers | `task_struct.state`, pending signals | `wake_up_process`, `signal_pending_state`, `schedule_timeout` | all of the above |
| VSNV3 machine code and drivers | hardware registers | register programming | hardware |

What is hard in them: a wake-up that comes between a look and the sleep that
follows it (all); a release racing a timeout or a signal (semaphore, mutex);
state that lock-free fast paths change under a slow path (mutex, SRCU, wakeup);
results in another order than requests (async); counters that wrap or saturate
(kthread, wakeup); the lifetime of objects on the stacks of sleepers (all);
fairness of queues (semaphore, rwsem); a decision to sleep, or to suspend a device,
that an event overtakes (wakeup, runtime PM); callbacks without the lock in the middle of a
transition (runtime PM); lists that change places while one is walked, and a
flush that must not answer for data written after it began (block flush). PROJECT.json lists each with its line.

## 2. Modules

| Module | Models | Kind |
|---|---|---|
| `TaskSched` | task states, signals, `signal_pending_state()` | shared definitions |
| `WaitList` | `list_add_tail()`, `list_del()` on a list of waiters | shared definitions |
| `Semaphore` | `kernel/semaphore.c` | component |
| `Mutex` | `kernel/mutex.c` on `mutex-xchg.h` | component |
| `RwSem` | `lib/rwsem-spinlock.c` | component |
| `RwLock` | what a reader/writer semaphore promises | abstract specification |
| `Async` | `kernel/async.c` | component |
| `Kthread` | creation, start, stop and end of threads, `kernel/kthread.c` | component |
| `KthreadWorker` | worker part of `kernel/kthread.c` and `kthread_stop()` | component |
| `Srcu` | `kernel/srcu.c` | component |
| `Wakeup` | `drivers/base/power/wakeup.c`, the last look of `suspend_enter()` | component |
| `RuntimePM` | `drivers/base/power/runtime.c` | component |
| `BlkFlush` | `block/blk-flush.c`, `__elv_next_request()`, a device | component |
| `LibProofs` | lemmas about lists, powers of two, modulo and sums that the proofs share | proofs |
| `SemaphoreProofs`, `MutexProofs`, `RwSemProofs`, `SrcuProofs`, `BlkFlushProofs` | inductive invariants and theorems of one component each | proofs |
| `ThreadProofs` | those of `Kthread`, `KthreadWorker` and `Async` | proofs |
| `PowerProofs` | those of `Wakeup` and `RuntimePM` | proofs |
| `MC*` | TLC instances | model checking |

Definitions keep the names of the functions they model. A definition whose name
is not in the source stands for a part of a function (`lock_turn` is a turn of
the loop of `__mutex_lock_common()`); PROJECT.json maps each to its lines.
A definition with the comment `mutant:` is a plausible bug and is not part of the
specification: substituted for the definition that follows it, it breaks the
property PROJECT.json names.

### Atomicity

Code between taking and releasing a spinlock is one action when everything it
touches is touched by others only under that lock. Every access to shared state
outside a lock is an action of its own. The model is not limited to
the points where this uniprocessor, non-preemptive build can switch tasks: all
interleavings at these points are allowed, a superset that also holds for a
preemptible or (where the code is built for it) a multiprocessor kernel with
sequentially consistent memory. Barriers in the code are what makes that last
assumption true for the accesses concerned.

* `Semaphore`: `sem->lock` covers everything, so each function is one action up
  to the unlock before `schedule_timeout()`, and one from the relock on.
* `Mutex`: fast paths do not take `wait_lock`. Each `atomic_xchg()`/`atomic_set()`
  of `count` is its own action, with the purely local or `wait_lock`-protected
  work next to it. `wait_lock` is a variable because fast paths of others come
  in between. `lock_slow_enter` joins taking `wait_lock`, queueing and the first
  swap: nothing others can do before the swap depends on the queueing.
* `RwSem`: each operation is one section of `wait_lock`, except that the grants
  (`waiter->task = NULL`) become visible to sleepers before the wake-ups that
  follow them: `waking` holds the tasks still to be woken, and while it is not
  empty the releaser holds the lock. The code interleaves grants and wake-ups of
  several readers; the model grants them at once and wakes them in any order,
  which allows every interleaving the code has.
* `Async`: sections of `async_lock` are actions; `entry_count` is read before the
  lock, `queue_work()` and `wake_up()` come after it, and the end of
  `async_synchronize_full()` looks at two lists without it.
* `Kthread`: only the list of requests has a lock; states, completions,
  `should_stop` and `vfork_done` are single accesses. The two reads of
  `vfork_done` in `kthread_stop()` are one: the pointer made from the first is
  used only when the second finds it not NULL, and it is never set again.
  `threadfn` and the end of a thread in `mm_release()` are the environment.
* `KthreadWorker`: `worker->lock` covers the list; the state, `should_stop`,
  `done_seq` and `flushing` are single accesses.
* `Srcu` is written for a multiprocessor, and is modelled so: several CPUs, each
  with at most one reader in a section with preemption disabled. Readers use no
  barriers, so their accesses to the protected data are not assumed to be in program
  order: as the comments of `__synchronize_srcu()` describe,
  the accesses of a critical section may be made as early as the beginning of the
  preemption-disabled section of `srcu_read_lock()` and as late as the end of that of
  `srcu_read_unlock()`, and a reader counts as inside for all that time.
  `synchronize_sched()` is modelled by its contract: it waits for all such sections that run when
  it is called. The counters are read one by one, in any order.

* `Wakeup`: `ws->lock` covers a source and its timer's function, so a call is one
  action; the start of the timer function and its taking of the lock are two.
  The packed word is only ever changed by one `atomic_inc_return()` or `atomic_add()` a
  call, and is modelled as the word it is, so a carry from one half to the
  other would show. `device_wakeup_enable()` and `_disable()` are cut where they
  drop `dev->power.lock`. `wakeup_source_destroy()` waits in the model for a timer function that has
  started: the code has no such wait, but on a uniprocessor no task runs before the
  interrupt is over.
* `RuntimePM`: what happens between two releases of `dev->power.lock` is one action.
  A call that is cut by releases is a frame on the stack of the task, worker or timer
  that makes it, so a suspend inside an idle callback, a deferred resume inside a suspend and a
  parent's resume inside a child's are what they are in the code. Three pairs of
  steps are joined: the unlock before `pm_runtime_get_noresume(parent)` with the get, the decrement of
  `pm_runtime_put(parent)` with the idle request that follows it under the parent's
  lock, and the get of `pm_runtime_barrier()` with taking the lock. The work
  item of a device runs on one worker at a time, as on one CPU.
  `cancel_work_sync()` holds the item from taking it off the queue till the worker
  is through, and a request made in between is not queued.
* `BlkFlush`: everything happens under the queue lock; a submission, a completion
  and each request the driver's `request_fn` takes are one action. `flush_end_io()` walks its list inside one
  action, request by request, and the next flush may be issued on the way, as
  `blk_flush_complete_seq()` does after each.

### Sleeping and waking

`wake_up_process(p)` assigns `TASK_RUNNING` to the state of `p`; a task in
`schedule()` continues only in that state. A signal wakes exactly the sleepers
for which `signal_pending_state()` holds. Every sleeper can also be woken for no
reason of the primitive's (`stray_wake_up`). In `Async` and `KthreadWorker`
sleeping happens in `wait_event()`: the task is on the wait queue before it
looks at its condition, so the flag `awake` is cleared together with a look that
fails and set by the wake-up of that queue.

### Data left out

Lockdep, debugging and tracing; the work functions' own effects; in
`Semaphore` the length of a timeout (none, some, used up). In
`KthreadWorker`, after `flush_kthread_worker()` has returned its item's memory is
gone while the thread still writes it; the model goes on as if nobody used the
memory. The sequence numbers of such an item are never looked at. In `Wakeup` times are
left out: a timer that is set may expire at any moment, and statistics are not
kept. In `RuntimePM` a timer is off, set for a suspend or for an autosuspend, and whether an
autosuspend delay is over is a free choice. Its devices have callbacks and
look after their children, and do not take their lock in interrupts. In `BlkFlush` a
device keeps which completed writes are still in its cache, and may fail any request.

## 3. Runs

The runs of the seven primitives check invariants, action properties and liveness of one
component together under its `FairSpec`, with deadlock checking on, and without
symmetry (it is not sound for liveness); `srcu` checks
safety only and uses the symmetry of readers, updaters and CPUs. `blk_flush`
checks safety with the symmetry of its requests, `runtime_pm` invariants and one action property. In `wakeup`, `runtime_pm` and
`runtime_pm_wait` deadlock is not an error: the code can really get stuck there, see
the findings.

Every module's `TypeOK` is checked as a conjunct of its first structural
invariant, and it is proved for each of them.

| Run | Instance | What it shows |
|---|---|---|
| `semaphore` | 3 tasks, 1 permit, 1 more from an interrupt | `PermitsConserved`, `NoBarging`, `WaitersQueued`, `EveryWaiterLeaves` |
| `mutex` | 3 tasks | `MutualExclusion`, `ListMatches`, `NoLostWakeup`, `FreeMutexIsTaken`, `WaitersDrain` |
| `rwsem` | 4 tasks | `Exclusion`, `WriterAtHead`, `ImplementsRwLock`, `NobodyStarves` |
| `async` | 2 tasks, 2 domains, limit 1, 3 submissions | `EntriesBounded`, `QuietSyncComplete`, `SyncReturns` |
| `async_cookie` | the same | violation of `CookieSyncComplete` |
| `kthread` | 2 callers, any number of threads one after the other | `InfoOutlivesUse`, `StopIsFinal`, `CreateEnds`, `StopEnds` |
| `kthread_worker` | 2 items, 1 flusher, 3-bit sequence numbers starting at 7, each item queued twice, 1 stop | `WorkAccounted`, `FlushCompletePlain`, `WorkerFlushComplete`, `FlushEnds` |
| `srcu` | 2 readers, 2 updaters, 2 CPUs, 2-bit counters, 3-bit `completed` | `SumExact`, `OldRankEmpty`, `GracePeriod`, `NobodyJoins` |
| `wakeup` | 2 devices, 2 sources, 1 administrator, halves of 2 bits, counts of a source of 1 bit, 2 events unseen | `InProgressExact`, `SleepSafe`, `FreedSourceQuiet`, `TimedDisableReturns` |
| `blk_flush` | 2 requests of any kind, 2 that only flush, a device with or without cache and FUA, flushes queueable or not | `SequencedAccounted`, `NeverStalls`, `Durable` |
| `runtime_pm` | a card behind a bridge, one task that uses it, one that administrates | `HeldIsActive`, `CountsExact`, `DisabledIsQuiet`, `ChangesEnd`, `ResumeNotForgotten` |
| `runtime_pm_wait` | the same | violation of `NoLostWakeup`: a waiter in `rpm_resume()` |

Why the bounds are enough. With three tasks a mutex or semaphore has a
holder, a first waiter and somebody behind it or a newcomer at the same time, which is what
every race here needs; the theorems below remove the bound for the safety
properties. Four tasks give the rwsem a writer between readers in the queue and
a holder. Three submissions over a limit of one let both tasks pass
the unlocked test of `entry_count` together, and let a later cookie start first.
Sequence numbers that start at the last value below the wrap make the first
queuing wrap; three bits leave the signed difference room for the two queuings.
In `srcu` two updaters give one that waits while the other goes through any number of grace
periods, two CPUs a reader that leaves where it did not enter, and the
calls are without limit, so both kinds of counters wrap. The early exit compares
a signed difference: with 3 bits a caller may miss more flips than the
difference can show, and it then does the work itself, which is safe.
In `wakeup` two sources are a period that is open while another is opened, ended
or taken away, and both halves of the word wrap round; `MaxEvents` bounds the
events between a read of the count and the decision by the assumption
`CountersFit`, since exactly 2^16 of them would not be noticed by the code
either. In `blk_flush` requests are reused without end; four of them are a flush in the device, one that waits for
the next, and data in flight, with one more to arrive, and the case in which the list being walked
becomes the pending list again is among the states. In `runtime_pm` the bridge is what a card's suspend and
resume meet above them; the callbacks that may fail (`Fault`), the ways to put
(`Puts`) and the disables in force (`MaxDepth`) are
restricted to keep the instance below a million states. A put that suspends at once is only made with
`RPM_AUTO`: when the delay is over it does what one without it does. The user
may hold, wait or release while the administrator, the two work items and the timer do
something else, so each of the calls meets each other one in the middle of it. More devices,
users, administrators and nested disables are covered by the proofs.
Bounds are named in the CONSTANTS: `MaxSupply`, `MaxCookie`, `MaxQueue`,
`MaxStop`, `MaxEvents`, `MaxDepth`. Semaphore and mutex tasks call their functions without limit.

### Findings

Each of the two has a run that exhibits it.

* `async_synchronize_cookie_domain()` "waits until all asynchronous function
  calls ... submitted prior to @cookie have been done" (`kernel/async.c:265`).
  `__lowest_in_progress()` takes the head of the running list, which is in order
  of start, and ignores the pending list when something runs. An earlier call
  that has not started, or started later, is not waited for.
  `QuietSyncComplete` is what does hold: a wait for *all* calls, with none
  submitted since, ends with an empty domain.
* `rpm_suspend()` of a device whose callback fails an autosuspend with `-EBUSY` or `-EAGAIN`,
  and for which there is a new expiration time, makes the device active again and goes
  to `repeat` (`drivers/base/power/runtime.c:431`), past the `wake_up_all()` of line
  435. In the trace of `runtime_pm_wait` the work item autosuspends the card, and
  a task in `pm_runtime_get_sync()` waits for that in `rpm_resume()`, which is to "wait for it
  to finish" (lines 479 to 481). The waiter has a usage count, so at `repeat`
  `rpm_check_suspend_allowed()` refuses (lines 313 to 323), and `rpm_suspend()` leaves without
  starting anything and without setting the timer. The task sleeps on, uninterruptibly, beside an active
  device, until some later transition ends, which its own reference prevents.
  `NoLostWakeup` speaks of waiters in `rpm_resume()` only; one in
  `__pm_runtime_barrier()`, which is to "wait for all runtime PM operations involving the
  device in progress to complete" (lines 945 and 946), is left asleep in the same way, since a
  usage count of `pm_runtime_barrier()` or the `disable_depth` makes the suspend leave. `ChangesEnd`
  says that this is the only way to sleep through the end of a change.

The passing properties are weaker than the text of the source in these places too:

* `async_synchronize_full()` "waits until all asynchronous function calls have
  been done" (`kernel/async.c:237`), but calls of other domains that already run
  are not waited for; `QuietSyncComplete` speaks of one domain.
* `flush_kthread_work()`: "If @work is queued or executing, wait for it to finish
  execution" (`kernel/kthread.c:388`). `done_seq = queue_seq` at the end of a run
  also counts a queuing made during the run, so a flush that follows that queuing
  may return before it has run. `FlushCompletePlain` is the guarantee that
  remains.
* `include/linux/kthread.h:52` "A kthread_work can't be freed while it is
  executing", but the item of `flush_kthread_worker()` is on the stack of a caller
  that its function releases, before the thread has written `done_seq` and read
  `flushing`.
* `kthread_stop()` "Returns the result of threadfn(), or %-EINTR if wake_up_process()
  was never called" (`kernel/kthread.c:223`). A thread that was woken, but is stopped before it has
  run, does not call `threadfn` either and exits with `-EINTR`; `StopIsFinal`
  allows that result whenever `threadfn` was not called.
* `pm_request_resume()`, and so `pm_runtime_get()`, returns 0 on success "or error code if the
  request hasn't been queued up" (`Documentation/power/runtime_pm.txt:345`), but
  `__pm_runtime_barrier()` drops the lock to cancel the work item and then clears
  `request_pending` (`drivers/base/power/runtime.c:955` to 962). A resume that is requested in
  between is not queued, since a request seems to be pending, and is lost although 0 is returned; so is
  one requested while the resume that `pm_runtime_barrier()` begins with fails for the
  parent. `ResumeNotForgotten` exempts a barrier that is cancelling.
* `wakeup_source_deactivate()` (`drivers/base/power/wakeup.c:418`) means to
  recognise a timer function that comes late, in a new period, by "relax_count
  will be different from active_count". `InProgressExact` shows that in an open period
  the counts always differ by one, so the test never finds anything, and such a
  function ends the new period. No count is wrong afterwards, but the new event is no longer protected.
* `device_wakeup_disable()` of a source with a period opened by `pm_stay_awake()` polls for
  its end for ever: the device has no source any more, so `pm_relax()` of it does
  nothing. `TimedDisableReturns` is limited to periods with a timer for that reason.

### Fairness

Except in `Wakeup` only weak fairness, and only of what the scheduler and the callers' contract
give: a runnable task runs (`down_resume`, `Proceed`, `wait_check`, `Worker`),
those who hold a lock release it (`up_holder`, `__mutex_fastpath_unlock`,
`Release`), work functions and asynchronous calls return, the workqueue runs
what is queued. Nobody is obliged to call anything, no timeout need expire and
no signal come. Mutexes are not fair to waiters (a newcomer may steal the mutex
from the waiter that was woken), so no starvation freedom is claimed for them: `FreeMutexIsTaken`
says that somebody gets it, `WaitersDrain` that waiters are all served once newcomers
stay away. For `Async`, `SyncReturns` holds because submissions are bounded: with
an endless stream of submissions `async_synchronize_full()` need not return.
In `Wakeup` a timer that keeps being set expires in the end and a process that polls
every so often is not overtaken for ever: the two are strongly fair while the system is
awake, because suspends without number may come in between, and a system that sleeps is woken up.

For `BlkFlush` and `RuntimePM` what must eventually happen is stated as an invariant, that
whatever waits is waited for by something that is running, queued or set
(`NeverStalls`, `ChangesEnd`). More would not hold: a stream of failing FUA writes, which are
put at the head of the queue, delays the flush request at its tail without end,
and a stream of flushes holds the elevator back on a drive that cannot queue
them; a get that waits for one change may meet the next one when it looks again.

## 4. Proofs

Checked by TLAPS for every value of the constants that their assumptions allow.
What each theorem needs of the constants:

| Proofs of | Assumptions |
|---|---|
| `Semaphore` | `Task` finite; `InitCount` a natural number not above `MaxSupply` |
| `Mutex` | `NoTask \notin Task` |
| `RwSem` | `Task` finite |
| `Kthread` | `NoCaller \notin Caller` |
| `KthreadWorker` | `Task` finite, `Work` other names, `NoItem` in neither; at least two bits in a sequence number, whatever the first one; `MaxQueue` and `MaxStop` natural numbers |
| `Srcu` | `Reader` and `CPU` finite; at least one bit in a counter and three in `completed`; fewer readers than a counter has values; `NoUpdater`, `NoCPU` are other names |
| `Wakeup` | `Source` finite; at least one bit in the counts of a source; fewer sources than a half of the word can count, and fewer events than its upper half has values between a read of the count and the decision; `NoSource`, `NoDevice` are other names |
| `Async` | `AsyncTask` finite; `async_running` is a domain; `MAX_WORK` and `MaxCookie` natural numbers, the latter not 0 |
| `RuntimePM` | `Device` finite, `NoParent` another name; `Parent` gives each device another one or `NoParent`; `Used` are devices; `Puts` are pairs of a function and flags; `MaxDepth` a natural number; no task has the name of a worker |
| `BlkFlush` | `Request` finite; a device has no cache, a cache, or a cache and FUA; `flush_rq` is not one of `Request`; `Asks` gives each request a set of kinds |

The finite sets are tasks, devices and requests of a machine. The bounds on widths
are what the code relies on too: on this machine they are 2^32 readers, and 2^16
wakeup sources or unseen events. The bounds `MaxSupply`, `MaxQueue`, `MaxStop`, `MaxCookie` and `MaxDepth` are
any numbers in the proofs, so nothing depends on them.

Every theorem follows from an inductive invariant of its module. TLC checked each of them
on the instance of the component's run before it was proved. The proofs have one lemma
for each action, or for each group of actions that disturb the same part, and one step
for each conjunct.

* `SemaphoreProofs`. `QueueCorrect`: `QInv`, that is `TypeOK /\ WaitersQueued`, is inductive
  by itself. `NobodyBarges` and `PermitsAreConserved` then follow from the inductive
  `Account`, which adds them to it: a step changes at most one task's membership
  in `Permitted`, and that a hand-over adds a task that was not in it needs
  `WaitersQueued` (a task on the list has no permit). `ServedInOrder` is the action property
  `FirstComeFirstServed`, which no run checks: an `up()` that served others first would show
  in `EveryWaiterLeaves` on an instance.
* `MutexProofs`. The invariant `MInv` is `TypeOK /\ ListMatches /\ MutualExclusion
  /\ NoLostWakeup`. `NoLostWakeup` is inductive only together with the
  others: that the first waiter an unlock wakes is in `schedule()` or already
  awake comes from `ListMatches`, and that a waiter who gives up leaves
  the mark behind comes from the swap before the look for a signal.
* `RwSemProofs`. `RInv` is `Exclusion`, `WriterAtHead` and that nobody is on the list
  twice. `__up_read()` hands the semaphore to the first waiter as to a writer
  without looking, which is right only because of `WriterAtHead`; and
  `__rwsem_do_wake()` adds to `activity` the number of readers that it wakes only
  if they are different ones. `RwSemImplementsRwLock` is the refinement: under the
  mapping in `RwSem` each step is a step of `RwLock` or a stutter. The work is in
  `__rwsem_do_wake()`, whose loop has to be shown to end where the longest
  front of readers does, which is how `RwLock` says whom it serves.
* `ThreadProofs`. `KInv` is `TypeOK` with `RequestInv` (a request is on the list, with
  `kthreadd` or with the new thread, in one of the three, and its caller waits),
  `PlaceInv` (where the thread is, given where its caller is) and `LifeInv` (what the thread
  has done, given where it is). The two properties only speak of moments at which somebody
  reads, so neither is inductive.
  The same module has the proofs about `KthreadWorker`, of the same source file. `KWInv` says
  that an item is on the list once, that `queue_seq` is the number of queuings modulo 2^w, that
  `done_seq` is that of the runs as long as no queuing overlapped a run (`SeqInv`), what a flusher
  has read (`TicketInv`), that `flushing` is exact (so the decrement never goes below
  0), and that what was queued before the item of a `flush_kthread_worker()`
  is before it on the list, being run, or has been run (`OwnItemInv`). A flush
  compares two numbers that may have wrapped any number of times; it does not return early because
  without an overlap at most one queuing is outstanding, so the difference is
  0 or 1 and its sign is right with two bits.
  Of `Async` it has `AsyncInv`: a cookie that has been given is in one place, once (`PlacesInv`), `entry_count` is the
  number of entries (`AsyncCountInv`), a task that has read `entry_count` and has still to list its
  entry finds room for it, so the limit is passed by no more than the number of
  tasks (`RoomInv`), and a task about to look at the two lists once more has found nothing in
  progress, so that if nothing was submitted since there is nothing (`QuietInv`).
* `SrcuProofs`. `SInv` has five parts. `Basic` says who holds the mutex and which rank
  it remembers. `RankInv` says which readers may still come to be counted in the old
  rank, phase by phase of a grace period: after the second `synchronize_sched()` none.
  `BeforeInv` follows the readers that a call must wait for, by the number of
  flips the caller has seen while it waits for the mutex; this is what makes the early return safe.
  `SumInv` is `SumExact`, and `ScanInv` says what a sum that is still being added
  up is worth: the counters already read and the ones still to be read make up the
  counted readers and some who left behind the scan's back, together no more than
  there are readers, so a sum of 0 means that nobody is left though all of it is
  modulo 2^w. `GracePeriod` and `NobodyJoins` are action properties.
* `PowerProofs`. `WInv` has `PeriodsInv` (the two counts of a source differ exactly
  while its period is open, and the lower half of the word is the number of open periods),
  `OwnerInv` (each source belongs to one device or one administrator) and
  `CountInv`: since the power manager read the count, some number of periods has ended, the upper
  half has advanced by it modulo 2^w, and it and the open periods are zero
  together only if there was no event. With `CountersFit` equality of the
  halves then means no event, which is `SleepSafe`. That an addition to one half never
  carries into the other is proved from the arithmetic of the word.
  The same module has the proofs about `RuntimePM`. `RpmInvariant` has these parts: what a call
  may be called from, and where its caller then waits (`Shape`); both counts, as sizes of the sets of
  references (tasks' and calls') and of active children (`UsageInv`, `ChildInv`); that the parent of
  a device that is active or changing is active if no task disables it (a child is resumed without its parent
  when the parent is disabled), and is so already from the return of its resume
  to the end of the child's callback, as long as the call has its reference (`ParentInv`); that a get whose success
  is decided, but who has yet to give back the parent, has an active device (`HeldInv`);
  that for a disabled device a barrier waits for whatever is left (`DisabledInv`);
  that the status says which callback is running, and one call runs it (`ChangeInv`); who will see
  to a pending request (`PendingInv`); and what a sleeper waits for (`SleepInv`). The four
  properties speak of the states between calls, so none of them is inductive: `HeldIsActive`, for
  instance, needs `UsageInv`, as it is the count that keeps a suspend from beginning, and `Shape` with
  `ChangeInv` for the return of a nested resume. Each operator on states (`Return`,
  `rpm_resume_body`, `rpm_suspend_body`, `wake_up_all`, ...) is shown to keep the invariant of a state, with two
  exceptions that exist only in the middle of a step: a device whose barrier is about to
  begin, and one whose waiters are about to be woken. Nothing is assumed of the tree
  of devices, not even that it has no cycles.
* `BlkFlushProofs`. `BInv` says that a request is in exactly one place and that
  its next step says which (`Placed`), how the indices and the lists belong together
  (`FlushRq`, `Running`, `Linked`), `NeverStalls`, and for the data: what a request waits
  for is unsafe only while the flush of its present step has not been made
  (`Wanted`), and the flush in the device saves what those it is for want
  (`Covers`). It is stated of values of the queue, so that it can also be shown to hold
  between two turns of the walk in `flush_end_io()`, in the middle of which
  `blk_kick_flush()` may swap the lists and issue the next flush. The walk itself is a
  recursive function: that it exists and ends within two turns for each
  request (`Turns` decreases: a request that leaves a step either leaves the list or
  has its first flush behind it) is proved too, since the code has
  `list_for_each_entry_safe()` on a list that its body changes. `Durable` is
  an action property.
* `LibProofs`. Deleting from a list leaves the others, each once, in their
  order; adding at the tail; the front of a list. Powers of two are positive and add; division with
  remainder is unique, modulo respects addition; a word is made of two halves.
  The sum over a finite set exists, does not depend on the order and changes by
  one term when one term changes.

Induction over data is not available as a rule, so where it is needed (powers of two, sums over a set, the
walk of `flush_end_io()`) the proof takes the least counterexample (`LeastNat`) and
derives a smaller one.

Only model-checked:

* Liveness (`EveryWaiterLeaves`, `FreeMutexIsTaken`, `WaitersDrain`, `NobodyStarves`, `SyncReturns`,
  `CreateEnds`, `StopEnds`, `FlushEnds`, `TimedDisableReturns`): temporal
  reasoning under fairness is out of this prover's reach. For `BlkFlush` the invariant
  `NeverStalls`, for `RuntimePM` the invariant `ChangesEnd` is proved instead.
* `ResumeNotForgotten`, an action property over all ways a resume takes through calls,
  request and deferral, with the exemptions named in it.
* The two findings, which are counterexamples.

## 5. Not modelled, and plan

Of the components that are modelled in part: of the mutex,
`atomic_dec_and_mutex_lock()` and the debugging version; of `kernel/kthread.c`,
binding threads to CPUs and the freezer; of the wakeup sources, statistics, debugfs
and the rest of the suspend sequence; of runtime PM, `no_callbacks`, `ignore_children`,
`irq_safe`, `pm_runtime_set_active()` and `_set_suspended()`, forbid and allow,
`update_autosuspend()` and what sets the autosuspend delay, the entry points that take and give
no reference (`pm_runtime_idle()`, `_suspend()`, `_resume()`, `pm_request_idle()`,
`pm_request_autosuspend()`; of these only `pm_request_resume()` and `pm_schedule_suspend()`
are modelled), and the removal of devices; of the block flush, `blk_abort_flushes()` (nothing calls
`blk_abort_queue()`, the way to it) and drivers that requeue.

Every safety property of a run that passes is proved but `ResumeNotForgotten`, whose proof would
follow the lemmas of `RuntimePM`'s operators once more. What could come next: the xadd `lib/rwsem.c` as a second
implementation of `RwLock`, `atomic_dec_and_mutex_lock()`, and devices of runtime PM with
`ignore_children` or `irq_safe`, for which `ParentInv` has to be weakened.

Not planned: the VSNV3 machine code and drivers (the hardware they program is
known only by register names), and filesystems, networking, memory management
and the other architectures, unchanged upstream code of another scale.
