------------------------------- MODULE Wakeup -------------------------------
(***************************************************************************)
(* System wakeup events, drivers/base/power/wakeup.c, and the protocol of  *)
(* /sys/power/wakeup_count, kernel/power/main.c and kernel/power/suspend.c.*)
(*                                                                         *)
(* Drivers, mostly in interrupts, begin and end periods in which the       *)
(* system must not be suspended.  One atomic word counts the periods that  *)
(* are open and, in its upper half, those that are over.  A power manager  *)
(* in user space reads the upper half, prepares, writes it back, and       *)
(* suspends; an event in between has to stop it.                           *)
(*                                                                         *)
(* Statistics (event_count, hit_count, times) are left out.  A device lock *)
(* is held around every use of dev->power.wakeup, so a call for a device   *)
(* is one action.                                                          *)
(***************************************************************************)
EXTENDS Integers, FiniteSets

CONSTANTS
  WakeDevice,      \* devices that can wake up the system
  Source,      \* memory for wakeup sources
  Admin,       \* processes that enable and disable devices through sysfs
  Bits,        \* IN_PROGRESS_BITS: 16
  CountBits,   \* width of active_count and relax_count
  MaxEvents    \* bound: events between a read of wakeup_count and the suspend

ASSUME SourceAssumption == IsFiniteSet(Source)
ASSUME WidthAssumption  == Bits \in Nat /\ CountBits \in Nat \ {0} /\ MaxEvents \in Nat

(* There are fewer sources than MAX_IN_PROGRESS, and fewer events between  *)
(* a read and a suspend than the upper half has values.                    *)
ASSUME CountersFit == Cardinality(Source) < 2^Bits /\ MaxEvents < 2^Bits

VARIABLES
  ws,        \* the wakeup sources, see Sources
  wakeup,    \* dev->power.wakeup of every device
  combined_event_count,
  saved_count,
  events_check_enabled,
  admin,     \* where every admin is, with its device and source
  mgr,       \* where the power manager is, with the count it has read
  seen       \* ghost: events since the manager has read its count

svars == <<ws, combined_event_count, seen>>
vars == <<svars, wakeup, saved_count, events_check_enabled, admin, mgr>>

NoSource == "NoSource"
NoDevice == "NoDevice"
ASSUME NameAssumption == NoSource \notin Source /\ NoDevice \notin WakeDevice

(***************************************************************************)
(* A source is "free" memory, or "live".  firing: the timer function has   *)
(* been started and has not taken ws->lock yet.                            *)
(***************************************************************************)
Sources == [mem : {"free", "live"}, active : BOOLEAN,
            active_count : 0..(2^CountBits - 1), relax_count : 0..(2^CountBits - 1),
            timer : BOOLEAN, firing : BOOLEAN]

kzalloc == [mem |-> "free", active |-> FALSE, active_count |-> 0, relax_count |-> 0,
            timer |-> FALSE, firing |-> FALSE]

MAX_IN_PROGRESS == 2^Bits - 1
cnt(comb)  == comb \div 2^Bits
inpr(comb) == comb % 2^Bits
Word(n)    == n % 2^(2 * Bits)
Count(n)   == n % 2^CountBits

Init ==
  /\ ws = [s \in Source |-> kzalloc]
  /\ wakeup = [d \in WakeDevice |-> NoSource]
  /\ combined_event_count = 0
  /\ saved_count = 0
  /\ events_check_enabled = FALSE
  /\ admin = [a \in Admin |-> [pc |-> "idle", dev |-> NoDevice, src |-> NoSource]]
  /\ mgr = [pc |-> "idle", count |-> 0]
  /\ seen = 0

----------------------------------------------------------------------------
(* What the calls do to the source w and to the word: a pair. *)
Result(w, comb) == [ws |-> w, comb |-> comb]

wakeup_source_activate(w, comb) ==
  Result([w EXCEPT !.active = TRUE, !.active_count = Count(@ + 1)], Word(comb + 1))

(* relax_count is put back when it would differ from active_count. *)
wakeup_source_deactivate(w, comb) ==
  IF Count(w.relax_count + 1) # w.active_count THEN Result(w, comb)
  ELSE Result([w EXCEPT !.active = FALSE, !.relax_count = Count(@ + 1), !.timer = FALSE],
              Word(comb + MAX_IN_PROGRESS))

__pm_stay_awake_again(w, comb) == wakeup_source_activate(w, comb)   \* mutant: no look at active

__pm_stay_awake(w, comb) == IF w.active THEN Result(w, comb) ELSE wakeup_source_activate(w, comb)

__pm_relax(w, comb) == IF w.active THEN wakeup_source_deactivate(w, comb) ELSE Result(w, comb)

(***************************************************************************)
(* With a time the timer is pending afterwards: it was set for later       *)
(* already, or is set now.  timer_expires, at the latest now when no timer *)
(* is pending, prevents only a timer from being set for an earlier time.   *)
(***************************************************************************)
__pm_wakeup_event(w, comb, msec) ==
  LET on == __pm_stay_awake(w, comb)
  IN  IF msec = 0 THEN wakeup_source_deactivate(on.ws, on.comb)
                  ELSE Result([on.ws EXCEPT !.timer = TRUE], on.comb)

Apply(s, r) ==
  /\ ws' = [ws EXCEPT ![s] = r.ws]
  /\ combined_event_count' = r.comb

(* An event is counted from the manager's read on. *)
Event ==
  IF mgr.pc \in {"save", "suspend"}
    THEN seen < MaxEvents /\ seen' = seen + 1
    ELSE UNCHANGED seen

pm_stay_awake(d) ==
  /\ wakeup[d] # NoSource
  /\ Event
  /\ Apply(wakeup[d], __pm_stay_awake(ws[wakeup[d]], combined_event_count))
  /\ UNCHANGED <<wakeup, saved_count, events_check_enabled, admin, mgr>>

pm_wakeup_event(d, msec) ==
  /\ wakeup[d] # NoSource
  /\ Event
  /\ Apply(wakeup[d], __pm_wakeup_event(ws[wakeup[d]], combined_event_count, msec))
  /\ UNCHANGED <<wakeup, saved_count, events_check_enabled, admin, mgr>>

pm_relax(d) ==
  /\ wakeup[d] # NoSource
  /\ Apply(wakeup[d], __pm_relax(ws[wakeup[d]], combined_event_count))
  /\ UNCHANGED <<seen, wakeup, saved_count, events_check_enabled, admin, mgr>>

(* The timer expires and its function starts, but has not the lock yet:    *)
(* other interrupts can come in between.                                   *)
timer_starts(s) ==
  /\ ws[s].timer /\ ~ws[s].firing
  /\ ws' = [ws EXCEPT ![s].timer = FALSE, ![s].firing = TRUE]
  /\ UNCHANGED <<combined_event_count, seen, wakeup, saved_count, events_check_enabled, admin, mgr>>

pm_wakeup_timer_fn_dev(s) ==   \* mutant: relaxes what the device has as its source now
  /\ ws[s].firing
  /\ LET r == IF \E d \in WakeDevice : wakeup[d] = s THEN __pm_relax(ws[s], combined_event_count)
                                                ELSE Result(ws[s], combined_event_count)
     IN  /\ ws' = [ws EXCEPT ![s] = [r.ws EXCEPT !.firing = FALSE]]
         /\ combined_event_count' = r.comb
  /\ UNCHANGED <<seen, wakeup, saved_count, events_check_enabled, admin, mgr>>

pm_wakeup_timer_fn(s) ==
  /\ ws[s].firing
  /\ LET r == __pm_relax(ws[s], combined_event_count)
     IN  /\ ws' = [ws EXCEPT ![s] = [r.ws EXCEPT !.firing = FALSE]]
         /\ combined_event_count' = r.comb
  /\ UNCHANGED <<seen, wakeup, saved_count, events_check_enabled, admin, mgr>>

----------------------------------------------------------------------------
(* The admins.  device_wakeup_enable(): create and list a source, *)
wakeup_source_register(a, d, s) ==
  /\ admin[a].pc = "idle" /\ ws[s].mem = "free"
  /\ ws' = [ws EXCEPT ![s] = [kzalloc EXCEPT !.mem = "live"]]
  /\ admin' = [admin EXCEPT ![a] = [pc |-> "attach", dev |-> d, src |-> s]]
  /\ UNCHANGED <<combined_event_count, seen, wakeup, saved_count, events_check_enabled, mgr>>

Done == [pc |-> "idle", dev |-> NoDevice, src |-> NoSource]

(* and attach it, or unregister it when the device has one. *)
device_wakeup_attach(a) ==
  /\ admin[a].pc = "attach"
  /\ \/ /\ wakeup[admin[a].dev] = NoSource
        /\ wakeup' = [wakeup EXCEPT ![admin[a].dev] = admin[a].src]
        /\ admin' = [admin EXCEPT ![a] = Done]
     \/ /\ wakeup[admin[a].dev] # NoSource
        /\ admin' = [admin EXCEPT ![a].pc = "destroy"]
        /\ UNCHANGED wakeup
  /\ UNCHANGED <<svars, saved_count, events_check_enabled, mgr>>

device_wakeup_disable(a, d) ==
  /\ admin[a].pc = "idle" /\ wakeup[d] # NoSource
  /\ wakeup' = [wakeup EXCEPT ![d] = NoSource]
  /\ admin' = [admin EXCEPT ![a] = [pc |-> "destroy", dev |-> d, src |-> wakeup[d]]]
  /\ UNCHANGED <<svars, saved_count, events_check_enabled, mgr>>

wakeup_source_destroy_at_once(a) ==   \* mutant: does not wait for the end of the period
  /\ admin[a].pc = "destroy"
  /\ ~ws[admin[a].src].firing
  /\ ws' = [ws EXCEPT ![admin[a].src].mem = "free"]
  /\ admin' = [admin EXCEPT ![a] = Done]
  /\ UNCHANGED <<combined_event_count, seen, wakeup, saved_count, events_check_enabled, mgr>>

(* The loop sleeps while the source is active.  A timer function that has  *)
(* been started is over before a process runs again: one processor.        *)
wakeup_source_destroy(a) ==
  /\ admin[a].pc = "destroy"
  /\ ~ws[admin[a].src].active /\ ~ws[admin[a].src].firing
  /\ ws' = [ws EXCEPT ![admin[a].src].mem = "free"]
  /\ admin' = [admin EXCEPT ![a] = Done]
  /\ UNCHANGED <<combined_event_count, seen, wakeup, saved_count, events_check_enabled, mgr>>

----------------------------------------------------------------------------
(* The power manager reads wakeup_count.  It waits while periods are in    *)
(* progress; a signal ends the wait, but there is a count only when the    *)
(* last look finds none.                                                   *)
pm_get_wakeup_count ==
  /\ mgr.pc \in {"idle", "save"}
  /\ inpr(combined_event_count) = 0
  /\ mgr' = [pc |-> "save", count |-> cnt(combined_event_count)]
  /\ seen' = 0
  /\ UNCHANGED <<ws, combined_event_count, wakeup, saved_count, events_check_enabled, admin>>

manager_idle == mgr' = [pc |-> "idle", count |-> 0] /\ seen' = 0

(* The manager writes the count back, and then to /sys/power/state if that *)
(* succeeds.                                                               *)
pm_save_wakeup_count ==
  LET ok == cnt(combined_event_count) = mgr.count /\ inpr(combined_event_count) = 0
  IN  /\ mgr.pc = "save"
      /\ \/ /\ ok
            /\ saved_count' = mgr.count
            /\ events_check_enabled' = TRUE
            /\ mgr' = [mgr EXCEPT !.pc = "suspend"]
            /\ UNCHANGED seen
         \/ /\ ~ok
            /\ events_check_enabled' = FALSE
            /\ manager_idle
            /\ UNCHANGED saved_count
      /\ UNCHANGED <<ws, combined_event_count, wakeup, admin>>

pm_wakeup_pending_count ==   \* mutant: periods in progress are not looked at
  events_check_enabled /\ cnt(combined_event_count) # saved_count

pm_wakeup_pending ==
  events_check_enabled /\ (cnt(combined_event_count) # saved_count \/ inpr(combined_event_count) > 0)

(* The freezer, device_suspend() and suspend_enter() call                  *)
(* pm_wakeup_pending(), which disables the check when it returns true.     *)
suspend_aborted ==
  /\ mgr.pc = "suspend" /\ pm_wakeup_pending
  /\ events_check_enabled' = FALSE
  /\ manager_idle
  /\ UNCHANGED <<ws, combined_event_count, wakeup, saved_count, admin>>

(* Some device or task cannot be suspended; the check stays enabled. *)
suspend_fails ==
  /\ mgr.pc = "suspend"
  /\ manager_idle
  /\ UNCHANGED <<ws, combined_event_count, wakeup, saved_count, events_check_enabled, admin>>

(* The last call is made with interrupts disabled. *)
suspend_enter ==
  /\ mgr.pc = "suspend" /\ ~pm_wakeup_pending
  /\ mgr' = [mgr EXCEPT !.pc = "asleep"]
  /\ UNCHANGED <<svars, wakeup, saved_count, events_check_enabled, admin>>

suspend_over ==
  /\ mgr.pc = "asleep"
  /\ events_check_enabled' = FALSE
  /\ manager_idle
  /\ UNCHANGED <<ws, combined_event_count, wakeup, saved_count, admin>>

----------------------------------------------------------------------------
Driver(d)    == pm_stay_awake(d) \/ pm_relax(d) \/ \E msec \in {0, 1} : pm_wakeup_event(d, msec)
Timer(s)     == timer_starts(s) \/ pm_wakeup_timer_fn(s)
Configure(a) == \/ device_wakeup_attach(a)
                \/ \E d \in WakeDevice : device_wakeup_disable(a, d)
                                     \/ \E s \in Source : wakeup_source_register(a, d, s)
PowerManager == \/ pm_get_wakeup_count \/ pm_save_wakeup_count
                \/ suspend_aborted \/ suspend_fails \/ suspend_enter

(* Nothing runs while the system sleeps. *)
Next == \/ /\ mgr.pc # "asleep"
           /\ \/ \E d \in WakeDevice : Driver(d)
              \/ \E s \in Source : Timer(s)
              \/ \E a \in Admin : Configure(a) \/ wakeup_source_destroy(a)
              \/ PowerManager
        \/ suspend_over

Spec == Init /\ [][Next]_vars

(* Timers expire, their functions run, and so does a process that polls;   *)
(* a system that sleeps is woken up.                                       *)
FairSpec == /\ Spec
            /\ \A s \in Source : SF_vars(mgr.pc # "asleep" /\ Timer(s))
            /\ \A a \in Admin : SF_vars(mgr.pc # "asleep" /\ wakeup_source_destroy(a))
            /\ WF_vars(suspend_over)

----------------------------------------------------------------------------
TypeOK ==
  /\ ws \in [Source -> Sources]
  /\ wakeup \in [WakeDevice -> Source \cup {NoSource}]
  /\ combined_event_count \in 0..(2^(2 * Bits) - 1)
  /\ saved_count \in 0..MAX_IN_PROGRESS
  /\ events_check_enabled \in BOOLEAN
  /\ admin \in [Admin -> [pc : {"idle", "attach", "destroy"}, dev : WakeDevice \cup {NoDevice},
                          src : Source \cup {NoSource}]]
  /\ mgr \in [pc : {"idle", "save", "suspend", "asleep"}, count : 0..MAX_IN_PROGRESS]
  /\ seen \in 0..MaxEvents

(* The lower half of the word is the number of open periods, also those of *)
(* sources that are being taken away, however relax calls, timers and      *)
(* events without a time meet; and the two counts of a source differ       *)
(* exactly while its period is open.                                       *)
InProgressExact ==
  /\ TypeOK
  /\ inpr(combined_event_count) = Cardinality({s \in Source : ws[s].active})
  /\ \A s \in Source :
       ws[s].active_count = Count(ws[s].relax_count + (IF ws[s].active THEN 1 ELSE 0))

(* What kernel/power/main.c promises of wakeup_count: the system does not  *)
(* go to sleep when an event has come since the manager read the count,    *)
(* nor while an event is being processed.                                  *)
SleepSafe ==
  mgr.pc = "asleep" => seen = 0 /\ \A s \in Source : ~ws[s].active

(* Memory that is freed is not used any more: no device has it as its      *)
(* source, it has no open period and no timer is pending on it.  A source  *)
(* belongs to one device, or to the admin who attaches or destroys it.     *)
FreedSourceQuiet ==
  /\ \A s \in Source : ws[s].mem = "free" => ~ws[s].active /\ ~ws[s].timer /\ ~ws[s].firing
  /\ \A d \in WakeDevice : wakeup[d] # NoSource =>
       /\ ws[wakeup[d]].mem = "live"
       /\ \A e \in WakeDevice \ {d} : wakeup[e] # wakeup[d]
       /\ \A a \in Admin : admin[a].src # wakeup[d]

(* device_wakeup_disable() returns when the period that is open has a      *)
(* timer: nobody can end the period of a detached source otherwise.        *)
TimedDisableReturns ==
  \A a \in Admin :
    admin[a].pc = "destroy" /\ (ws[admin[a].src].active => ws[admin[a].src].timer)
      ~> admin[a].pc = "idle"

=============================================================================
