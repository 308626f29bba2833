-------------------------------- MODULE Srcu --------------------------------
(***************************************************************************)
(* Sleepable RCU, kernel/srcu.c.                                           *)
(*                                                                         *)
(* A reader counts itself, without any lock, in one of two ranks of        *)
(* per-CPU counters, the one the last bit of completed names, and may      *)
(* leave on another CPU.  synchronize_srcu() flips the bit and waits until *)
(* the counters of the old rank add up to zero, reading them one by one.   *)
(*                                                                         *)
(* Readers use no memory barriers.  What the CPU may reorder is taken from *)
(* the comments in __synchronize_srcu(): the accesses of a read-side       *)
(* critical section may take place early, but not before the section of    *)
(* srcu_read_lock() with preemption disabled begins, and late, but not     *)
(* after that of srcu_read_unlock() ends.  So a reader is inside from the  *)
(* beginning of the one to the end of the other.  Three calls of           *)
(* synchronize_sched(), which waits for all sections with preemption       *)
(* disabled, deal with that.                                               *)
(***************************************************************************)
EXTENDS Integers, FiniteSets, FiniteSetsExt

CONSTANTS
  Reader,       \* read-side critical sections, one at a time each
  Updater,      \* the tasks that call synchronize_srcu()
  CPU,          \* the possible CPUs
  CountBits,    \* width of the int that a counter is
  CompletedBits \* width of the int that completed is

ASSUME SetAssumption  == IsFiniteSet(Reader) /\ IsFiniteSet(CPU)
ASSUME BitsAssumption == CountBits \in Nat \ {0} /\ CompletedBits \in Nat /\ CompletedBits > 2

(* There are fewer readers than a counter has values. *)
ASSUME ReadersFit == Cardinality(Reader) < 2^CountBits

VARIABLES
  completed,  \* sp->completed
  mutex,      \* the updater that holds sp->mutex, or NoUpdater
  c,          \* sp->per_cpu_ref, the two counters of every CPU
  rpc,        \* where every reader is, see ReaderLocations
  cpu,        \* the CPU a reader is on while preemption is disabled
  rank,       \* the idx of the reader
  pc,         \* where every updater is, see Locations
  idx,        \* the local idx of __synchronize_srcu()
  sum, todo,  \* srcu_readers_active_idx(): the sum so far, the CPUs to come
  waits,      \* the readers synchronize_sched() still waits for
  before      \* ghost: readers inside since the updater's call

rvars == <<rpc, cpu, rank>>
uvars == <<pc, idx, sum, todo>>
vars == <<completed, mutex, c, rvars, uvars, waits, before>>

NoUpdater == "NoUpdater"
NoCPU     == "NoCPU"
ASSUME NameAssumption == NoUpdater \notin Updater /\ NoCPU \notin CPU

(***************************************************************************)
(* "out"                                                                   *)
(* "enter"  preemption disabled, completed not yet read                    *)
(* "idx"    preemption disabled, not yet counted                           *)
(* "cs"     counted                                                        *)
(* "late"   no longer counted, preemption disabled                         *)
(***************************************************************************)
ReaderLocations == {"out", "enter", "idx", "cs", "late"}

(* "lock": waits for sp->mutex; "sync1", "sync2", "sync3": in the calls of *)
(* sync_func(); "scan": in srcu_readers_active_idx().                      *)
Locations == {"idle", "lock", "sync1", "sync2", "scan", "sync3"}

Count(n)     == n % 2^CountBits
Completed(n) == n % 2^CompletedBits
Signed(n)    == LET m == Completed(n) IN IF m >= 2^(CompletedBits - 1) THEN m - 2^CompletedBits ELSE m

PreemptOff == {r \in Reader : rpc[r] \in {"enter", "idx", "late"}}
Inside     == {r \in Reader : rpc[r] # "out"}
Idle(p)    == \A r \in PreemptOff : cpu[r] # p

Init ==
  /\ completed = 0
  /\ mutex = NoUpdater
  /\ c = [p \in CPU |-> [k \in 0..1 |-> 0]]
  /\ rpc = [r \in Reader |-> "out"]
  /\ cpu = [r \in Reader |-> NoCPU]
  /\ rank = [r \in Reader |-> 0]
  /\ pc = [u \in Updater |-> "idle"]
  /\ idx = [u \in Updater |-> 0]
  /\ sum = [u \in Updater |-> 0]
  /\ todo = [u \in Updater |-> {}]
  /\ waits = [u \in Updater |-> {}]
  /\ before = [u \in Updater |-> {}]

----------------------------------------------------------------------------
(* __srcu_read_lock(), on the CPU p. *)
srcu_read_lock(r, p) ==
  /\ rpc[r] = "out" /\ Idle(p)
  /\ rpc' = [rpc EXCEPT ![r] = "enter"]
  /\ cpu' = [cpu EXCEPT ![r] = p]
  /\ UNCHANGED <<completed, mutex, c, rank, uvars, waits, before>>

read_lock_idx(r) ==
  /\ rpc[r] = "enter"
  /\ rank' = [rank EXCEPT ![r] = completed % 2]
  /\ rpc' = [rpc EXCEPT ![r] = "idx"]
  /\ UNCHANGED <<completed, mutex, c, cpu, uvars, waits, before>>

(* The reader may now move to another CPU, and whoever waits for the end   *)
(* of its section with preemption disabled is served.                      *)
preempt_enable(r) ==
  /\ waits' = [u \in Updater |-> waits[u] \ {r}]
  /\ cpu' = [cpu EXCEPT ![r] = NoCPU]

read_lock_count(r) ==
  /\ rpc[r] = "idx"
  /\ c' = [c EXCEPT ![cpu[r]][rank[r]] = Count(@ + 1)]
  /\ rpc' = [rpc EXCEPT ![r] = "cs"]
  /\ preempt_enable(r)
  /\ UNCHANGED <<completed, mutex, rank, uvars, before>>

(* __srcu_read_unlock(), on any CPU. *)
srcu_read_unlock_current(r, p) ==   \* mutant: the current rank, not the one of the lock
  /\ rpc[r] = "cs" /\ Idle(p)
  /\ c' = [c EXCEPT ![p][completed % 2] = Count(@ - 1)]
  /\ cpu' = [cpu EXCEPT ![r] = p]
  /\ rank' = [rank EXCEPT ![r] = 0]
  /\ rpc' = [rpc EXCEPT ![r] = "late"]
  /\ UNCHANGED <<completed, mutex, uvars, waits, before>>

srcu_read_unlock(r, p) ==
  /\ rpc[r] = "cs" /\ Idle(p)
  /\ c' = [c EXCEPT ![p][rank[r]] = Count(@ - 1)]
  /\ cpu' = [cpu EXCEPT ![r] = p]
  /\ rank' = [rank EXCEPT ![r] = 0]
  /\ rpc' = [rpc EXCEPT ![r] = "late"]
  /\ UNCHANGED <<completed, mutex, uvars, waits, before>>

read_unlock_done(r) ==
  /\ rpc[r] = "late"
  /\ rpc' = [rpc EXCEPT ![r] = "out"]
  /\ preempt_enable(r)
  /\ before' = [u \in Updater |-> before[u] \ {r}]
  /\ UNCHANGED <<completed, mutex, c, rank, uvars>>

----------------------------------------------------------------------------
(* synchronize_sched(): waits for the sections that run when it is called. *)
sync_func(u, l) ==
  /\ waits' = [waits EXCEPT ![u] = PreemptOff]
  /\ pc' = [pc EXCEPT ![u] = l]

sync_func_done(u, l) == pc[u] = l /\ waits[u] = {}

(* The locals die with the call, and so does what is remembered of it. *)
sync_return(u) ==
  /\ pc' = [pc EXCEPT ![u] = "idle"]
  /\ idx' = [idx EXCEPT ![u] = 0]
  /\ before' = [before EXCEPT ![u] = {}]

(* __synchronize_srcu(). *)
synchronize_srcu(u) ==
  /\ pc[u] = "idle"
  /\ idx' = [idx EXCEPT ![u] = completed]
  /\ before' = [before EXCEPT ![u] = Inside]
  /\ pc' = [pc EXCEPT ![u] = "lock"]
  /\ UNCHANGED <<completed, mutex, c, rvars, sum, todo, waits>>

others_did_the_work_once(u) == Signed(completed - idx[u]) >= 1   \* mutant: one advance

others_did_the_work(u) == Signed(completed - idx[u]) >= 2

sync_early_exit(u) ==
  /\ pc[u] = "lock" /\ mutex = NoUpdater
  /\ others_did_the_work(u)
  /\ sync_return(u)
  /\ UNCHANGED <<completed, mutex, c, rvars, sum, todo, waits>>

(* The old value of idx is not used any more. *)
sync_begin(u) ==
  /\ pc[u] = "lock" /\ mutex = NoUpdater
  /\ ~others_did_the_work(u)
  /\ mutex' = u
  /\ idx' = [idx EXCEPT ![u] = 0]
  /\ sync_func(u, "sync1")
  /\ UNCHANGED <<completed, c, rvars, sum, todo, before>>

sync_flip(u) ==
  /\ sync_func_done(u, "sync1")
  /\ idx' = [idx EXCEPT ![u] = completed % 2]
  /\ completed' = Completed(completed + 1)
  /\ sync_func(u, "sync2")
  /\ UNCHANGED <<mutex, c, rvars, sum, todo, before>>

begin_scan(u) ==
  /\ sum' = [sum EXCEPT ![u] = 0]
  /\ todo' = [todo EXCEPT ![u] = CPU]
  /\ pc' = [pc EXCEPT ![u] = "scan"]

sync_drain_at_once(u) ==   \* mutant: no sync_func() after the flip
  /\ pc[u] = "sync2"
  /\ begin_scan(u)
  /\ waits' = [waits EXCEPT ![u] = {}]
  /\ UNCHANGED <<completed, mutex, c, rvars, idx, before>>

(* The sum of the if before the loop only decides on a delay, and is left  *)
(* out: sync_drain may come as late as it likes.                           *)
sync_drain(u) ==
  /\ sync_func_done(u, "sync2")
  /\ begin_scan(u)
  /\ UNCHANGED <<completed, mutex, c, rvars, idx, waits, before>>

(* srcu_readers_active_idx() reads the counter of the CPU p. *)
srcu_readers_active_idx(u, p) ==
  /\ pc[u] = "scan" /\ p \in todo[u]
  /\ sum' = [sum EXCEPT ![u] = Count(@ + c[p][idx[u]])]
  /\ todo' = [todo EXCEPT ![u] = @ \ {p}]
  /\ UNCHANGED <<completed, mutex, c, rvars, pc, idx, waits, before>>

sync_again(u) ==
  /\ pc[u] = "scan" /\ todo[u] = {} /\ sum[u] # 0
  /\ begin_scan(u)
  /\ UNCHANGED <<completed, mutex, c, rvars, idx, waits, before>>

sync_drained_once(u) ==   \* mutant: if in place of while
  /\ pc[u] = "scan" /\ todo[u] = {}
  /\ sync_func(u, "sync3")
  /\ sum' = [sum EXCEPT ![u] = 0]
  /\ UNCHANGED <<completed, mutex, c, rvars, idx, todo, before>>

sync_drained(u) ==
  /\ pc[u] = "scan" /\ todo[u] = {} /\ sum[u] = 0
  /\ sync_func(u, "sync3")
  /\ UNCHANGED <<completed, mutex, c, rvars, idx, sum, todo, before>>

sync_end(u) ==
  /\ sync_func_done(u, "sync3")
  /\ mutex' = NoUpdater
  /\ sync_return(u)
  /\ UNCHANGED <<completed, c, rvars, sum, todo, waits>>

----------------------------------------------------------------------------
(* What a reader does of itself once it is inside. *)
Read(r) == \/ read_lock_idx(r) \/ read_lock_count(r) \/ read_unlock_done(r)
           \/ \E p \in CPU : srcu_read_unlock(r, p)

Synchronize(u) == \/ sync_early_exit(u) \/ sync_begin(u) \/ sync_flip(u) \/ sync_drain(u)
                  \/ \E p \in CPU : srcu_readers_active_idx(u, p)
                  \/ sync_again(u) \/ sync_drained(u) \/ sync_end(u)

Next == \/ \E r \in Reader : Read(r) \/ \E p \in CPU : srcu_read_lock(r, p)
        \/ \E u \in Updater : synchronize_srcu(u) \/ Synchronize(u)

Spec == Init /\ [][Next]_vars

----------------------------------------------------------------------------
TypeOK ==
  /\ completed \in 0..(2^CompletedBits - 1)
  /\ mutex \in Updater \cup {NoUpdater}
  /\ c \in [CPU -> [0..1 -> 0..(2^CountBits - 1)]]
  /\ rpc \in [Reader -> ReaderLocations]
  /\ cpu \in [Reader -> CPU \cup {NoCPU}]
  /\ rank \in [Reader -> 0..1]
  /\ pc \in [Updater -> Locations]
  /\ idx \in [Updater -> 0..(2^CompletedBits - 1)]
  /\ sum \in [Updater -> 0..(2^CountBits - 1)]
  /\ todo \in [Updater -> SUBSET CPU]
  /\ waits \in [Updater -> SUBSET Reader]
  /\ before \in [Updater -> SUBSET Reader]

Counted(k) == {r \in Reader : rpc[r] = "cs" /\ rank[r] = k}

(* The counters of a rank add up to its readers, although single counters  *)
(* may be anything when readers change CPUs, and wrap round.               *)
SumExact ==
  TypeOK /\ \A k \in 0..1 : Count(MapThenSumSet(LAMBDA p : c[p][k], CPU)) = Cardinality(Counted(k))

(* While nobody synchronizes, no reader is counted, or about to count      *)
(* itself, in the rank that is not current, so that the next flip finds    *)
(* empty the rank it makes current.                                        *)
OldRankEmpty ==
  mutex = NoUpdater =>
    \A r \in Reader : rpc[r] \in {"idx", "cs"} => rank[r] = completed % 2

(* The grace period: when synchronize_srcu() returns, every reader that    *)
(* was inside when it was called has left, also when the call returns      *)
(* early because others have done its work.                                *)
GracePeriod ==
  [][\A u \in Updater : pc[u] # "idle" /\ pc'[u] = "idle" => before[u] = {}]_vars

(* A grace period ends although new readers keep coming: nobody joins the  *)
(* readers it waits for, once it adds up their counters.                   *)
NobodyJoins ==
  [][\A u \in Updater, k \in 0..1 :
       pc[u] = "scan" /\ idx[u] = k => Counted(k)' \subseteq Counted(k)]_vars

=============================================================================
