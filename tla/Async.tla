------------------------------- MODULE Async -------------------------------
(***************************************************************************)
(* Asynchronous function calls, kernel/async.c.                            *)
(*                                                                         *)
(* A call gets a cookie, numbers given in the order of submission, and an  *)
(* entry that goes from the pending list to the running list of its domain *)
(* and is then freed.  async_lock is held for every change of a list, so   *)
(* a section of it is one action.  What the code does outside the lock is  *)
(* an action of its own: reading entry_count before the entry is listed,   *)
(* queue_work() after it, wake_up() after the entry is gone, and the two   *)
(* looks at the lists that end async_synchronize_full().                   *)
(***************************************************************************)
EXTENDS Integers, Sequences, FiniteSets, WaitList

CONSTANTS
  AsyncTask,        \* the tasks that submit calls and that synchronize
  Domain,      \* the running lists, the global one among them
  MAX_WORK,    \* entries above which calls are run synchronously
  MaxCookie    \* bound of the model: the cookie nobody gets any more

async_running == "async_running"   \* the global domain

ASSUME DomainAssumption == async_running \in Domain
ASSUME AsyncTaskAssumption == IsFiniteSet(AsyncTask)
ASSUME CountAssumption == MAX_WORK \in Nat /\ MaxCookie \in Nat \ {0}

VARIABLES
  next_cookie,    \* the next cookie
  async_pending,  \* list of the entries, [cookie, running], not yet started
  running,        \* for each domain the list of the cookies that have started
  entry_count,    \* number of entries
  queued,         \* cookies whose work item is on system_unbound_wq
  finished,       \* number of calls whose entry is gone, wake_up() still to come
  async_pc,             \* where every task is, see AsyncLocations
  arg,            \* domain (and cookie) the task's call is about
  async_awake           \* the task is not asleep in wait_event()

async_vars == <<next_cookie, async_pending, running, entry_count, queued, finished,
          async_pc, arg, async_awake>>
lists == <<async_pending, running, entry_count, queued, finished>>

(***************************************************************************)
(* "idle"                                                                  *)
(* "add"    entry_count has been read, the entry is still to be listed     *)
(* "queue"  the entry is listed, queue_work() is still to come             *)
(* "direct" runs the call itself, for lack of memory or of entries         *)
(* "wait"   in the wait_event() of async_synchronize_cookie_domain()       *)
(* "fwait"  the same, for async_synchronize_full()                         *)
(* "full1"  about to look at async_running for async_synchronize_full()    *)
(* "full2"  about to look at async_pending for async_synchronize_full()    *)
(***************************************************************************)
AsyncLocations == {"idle", "add", "queue", "direct", "wait", "fwait", "full1", "full2"}

Cookies == 1..MaxCookie
Entries == [cookie : Cookies, running : Domain]
NoArg   == [dom |-> async_running, cookie |-> 1]

AsyncInit ==
  /\ next_cookie = 1
  /\ async_pending = <<>>
  /\ running = [d \in Domain |-> <<>>]
  /\ entry_count = 0
  /\ queued = {}
  /\ finished = 0
  /\ async_pc = [t \in AsyncTask |-> "idle"]
  /\ arg = [t \in AsyncTask |-> NoArg]
  /\ async_awake = [t \in AsyncTask |-> TRUE]

(* Bound of the model: every task that is to list an entry finds a cookie. *)
cookies_left == next_cookie + Cardinality({t \in AsyncTask : async_pc[t] = "add"}) < MaxCookie

goto(t, l) == async_pc' = [async_pc EXCEPT ![t] = l]

----------------------------------------------------------------------------
__lowest_running(d) ==   \* mutant: does not look at the pending list
  IF running[d] # <<>> THEN Head(running[d]) ELSE next_cookie

(* The value async_synchronize_cookie_domain() waits for.                  *)
__lowest_in_progress(d) ==
  LET mine == {i \in 1..Len(async_pending) : async_pending[i].running = d} IN
  CASE running[d] # <<>> -> Head(running[d])
    [] running[d] = <<>> /\ mine # {} ->
         async_pending[CHOOSE i \in mine : \A j \in mine : i <= j].cookie
    [] running[d] = <<>> /\ mine = {} -> next_cookie

(* __async_schedule() when it finds no memory or too many entries: the     *)
(* task calls the function itself.                                         *)
async_schedule_direct(t) ==
  /\ async_pc[t] = "idle"
  /\ cookies_left
  /\ next_cookie' = next_cookie + 1
  /\ goto(t, "direct")
  /\ UNCHANGED <<lists, arg, async_awake>>

async_direct_done(t) ==
  /\ async_pc[t] = "direct"
  /\ goto(t, "idle")
  /\ UNCHANGED <<next_cookie, lists, arg, async_awake>>

(* __async_schedule() otherwise. *)
async_schedule_domain(t, d) ==
  /\ async_pc[t] = "idle"
  /\ cookies_left
  /\ ~(entry_count > MAX_WORK)
  /\ arg' = [arg EXCEPT ![t].dom = d]
  /\ goto(t, "add")
  /\ UNCHANGED <<next_cookie, lists, async_awake>>

async_schedule_add(t) ==
  /\ async_pc[t] = "add"
  /\ next_cookie' = next_cookie + 1
  /\ async_pending' = list_add_tail(async_pending, [cookie |-> next_cookie, running |-> arg[t].dom])
  /\ entry_count' = entry_count + 1
  /\ arg' = [arg EXCEPT ![t].cookie = next_cookie]
  /\ goto(t, "queue")
  /\ UNCHANGED <<running, queued, finished, async_awake>>

async_schedule_queue(t) ==
  /\ async_pc[t] = "queue"
  /\ queued' = queued \cup {arg[t].cookie}
  /\ arg' = [arg EXCEPT ![t] = NoArg]
  /\ goto(t, "idle")
  /\ UNCHANGED <<next_cookie, async_pending, running, entry_count, finished, async_awake>>

----------------------------------------------------------------------------
(* async_run_entry_fn(), one worker per entry: workers of the unbound      *)
(* workqueue run at the same time and start in any order.                  *)
async_run_move(e) ==
  /\ OnList(async_pending, e) /\ e.cookie \in queued
  /\ async_pending' = list_del(async_pending, e)
  /\ running' = [running EXCEPT ![e.running] = list_add_tail(@, e.cookie)]
  /\ queued' = queued \ {e.cookie}
  /\ UNCHANGED <<next_cookie, entry_count, finished, async_pc, arg, async_awake>>

async_run_still_counted(d, c) ==   \* mutant: no atomic_dec()
  /\ OnList(running[d], c)
  /\ running' = [running EXCEPT ![d] = list_del(@, c)]
  /\ finished' = finished + 1
  /\ UNCHANGED <<next_cookie, async_pending, entry_count, queued, async_pc, arg, async_awake>>

async_run_done(d, c) ==
  /\ OnList(running[d], c)
  /\ running' = [running EXCEPT ![d] = list_del(@, c)]
  /\ entry_count' = entry_count - 1
  /\ finished' = finished + 1
  /\ UNCHANGED <<next_cookie, async_pending, queued, async_pc, arg, async_awake>>

async_run_no_wake ==   \* mutant: no wake_up()
  /\ finished > 0
  /\ finished' = finished - 1
  /\ UNCHANGED <<next_cookie, async_pending, running, entry_count, queued, async_pc, arg, async_awake>>

async_run_wake ==
  /\ finished > 0
  /\ finished' = finished - 1
  /\ async_awake' = [t \in AsyncTask |-> TRUE]
  /\ UNCHANGED <<next_cookie, async_pending, running, entry_count, queued, async_pc, arg>>

----------------------------------------------------------------------------
begin_wait(t, c, d, l) ==
  /\ arg' = [arg EXCEPT ![t] = [dom |-> d, cookie |-> c]]
  /\ goto(t, l)
  /\ UNCHANGED <<next_cookie, lists, async_awake>>

async_synchronize_cookie_domain(t, c, d) ==
  /\ async_pc[t] = "idle"
  /\ begin_wait(t, c, d, "wait")

async_synchronize_full_domain(t, d) == async_synchronize_cookie_domain(t, next_cookie, d)

async_synchronize_full(t) ==
  /\ async_pc[t] = "idle"
  /\ begin_wait(t, next_cookie, async_running, "fwait")

(* wait_event(): the task is on the queue of async_done before it looks at *)
(* the condition, so a wake_up() after the look makes it look again.       *)
satisfied(t) == __lowest_in_progress(arg[t].dom) >= arg[t].cookie

wait_again(t) ==
  /\ async_pc[t] \in {"wait", "fwait"}
  /\ async_awake[t]
  /\ ~satisfied(t)
  /\ async_awake' = [async_awake EXCEPT ![t] = FALSE]
  /\ UNCHANGED <<next_cookie, lists, async_pc, arg>>

leave(t) ==
  /\ goto(t, "idle")
  /\ arg' = [arg EXCEPT ![t] = NoArg]
  /\ UNCHANGED <<next_cookie, lists, async_awake>>

wait_over(t) ==
  /\ async_pc[t] = "wait"
  /\ async_awake[t]
  /\ satisfied(t)
  /\ leave(t)

full_wait_over(t) ==
  /\ async_pc[t] = "fwait"
  /\ async_awake[t]
  /\ satisfied(t)
  /\ goto(t, "full1")
  /\ UNCHANGED <<next_cookie, lists, arg, async_awake>>

full_look_running(t) ==
  /\ async_pc[t] = "full1"
  /\ IF running[async_running] # <<>>
       THEN begin_wait(t, next_cookie, async_running, "fwait")
       ELSE goto(t, "full2") /\ UNCHANGED <<next_cookie, lists, arg, async_awake>>

full_look_pending(t) ==
  /\ async_pc[t] = "full2"
  /\ IF async_pending # <<>>
       THEN begin_wait(t, next_cookie, async_running, "fwait")
       ELSE leave(t)

----------------------------------------------------------------------------
Submit(t) == async_schedule_direct(t) \/ \E d \in Domain : async_schedule_domain(t, d)

Synchronize(t) ==
  \/ \E d \in Domain :
       \/ \E c \in 1..(next_cookie - 1) : async_synchronize_cookie_domain(t, c, d)
       \/ async_synchronize_full_domain(t, d)
  \/ async_synchronize_full(t)

AsyncProceed(t) ==
  \/ async_direct_done(t) \/ async_schedule_add(t) \/ async_schedule_queue(t)
  \/ wait_again(t) \/ wait_over(t)
  \/ full_wait_over(t) \/ full_look_running(t) \/ full_look_pending(t)

AsyncWork ==
  \/ async_run_wake
  \/ \E e \in Entries : async_run_move(e)
  \/ \E d \in Domain, c \in Cookies : async_run_done(d, c)

AsyncNext == AsyncWork \/ \E t \in AsyncTask : Submit(t) \/ Synchronize(t) \/ AsyncProceed(t)

AsyncSpec == AsyncInit /\ [][AsyncNext]_async_vars

(* Tasks go on, the workqueue runs what is queued, and calls end. *)
AsyncFairness == WF_async_vars(AsyncWork) /\ \A t \in AsyncTask : WF_async_vars(AsyncProceed(t))

AsyncFairSpec == AsyncSpec /\ AsyncFairness

----------------------------------------------------------------------------
AsyncTypeOK ==
  /\ next_cookie \in Cookies
  /\ async_pending \in Seq(Entries)
  /\ running \in [Domain -> Seq(Cookies)]
  /\ entry_count \in Nat
  /\ queued \subseteq Cookies /\ finished \in Nat
  /\ async_pc \in [AsyncTask -> AsyncLocations]
  /\ arg \in [AsyncTask -> [dom : Domain, cookie : Cookies]]
  /\ async_awake \in [AsyncTask -> BOOLEAN]

(* The calls of the domain that are pending or running. *)
InProgress(d) ==
  {c \in Cookies : OnList(async_pending, [cookie |-> c, running |-> d]) \/ OnList(running[d], c)}

(* entry_count is the number of entries there are.  It is read before the  *)
(* lock is taken, so every submitting task may go one above the limit.     *)
(* And the pending list is sorted: __lowest_in_progress() takes the first  *)
(* entry of a domain for the one with the smallest cookie.                 *)
EntriesBounded ==
  /\ AsyncTypeOK
  /\ entry_count = Cardinality(UNION {InProgress(d) : d \in Domain})
  /\ entry_count <= MAX_WORK + Cardinality(AsyncTask)
  /\ \A i, j \in 1..Len(async_pending) : i < j => async_pending[i].cookie < async_pending[j].cookie

Returns(t) == async_pc[t] \in {"wait", "full2"} /\ async_pc'[t] = "idle"

(* When nothing was submitted since it was called, a synchronization with  *)
(* all calls of a domain returns only when the domain is empty.            *)
QuietSyncComplete ==
  [][\A t \in AsyncTask : Returns(t) /\ arg[t].cookie = next_cookie
                       => InProgress(arg[t].dom) = {}]_async_vars

(* Every synchronization returns once calls are no longer submitted: the   *)
(* calls it waits for are made, and their wake-up is not missed.           *)
SyncReturns == \A t \in AsyncTask : async_pc[t] \in {"wait", "fwait"} ~> async_pc[t] = "idle"

(* What kernel/async.c says of async_synchronize_cookie_domain(): it waits *)
(* until all calls of the domain submitted prior to the cookie are done.   *)
CookieSyncComplete ==
  [][\A t \in AsyncTask : async_pc[t] = "wait" /\ async_pc'[t] = "idle"
       => \A c \in InProgress(arg[t].dom) : c >= arg[t].cookie]_async_vars

=============================================================================
