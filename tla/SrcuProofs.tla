----------------------------- MODULE SrcuProofs -----------------------------
(***************************************************************************)
(* Proofs about sleepable RCU, for every number of readers, updaters and   *)
(* CPUs and every width of the counters, as long as fewer readers than a   *)
(* counter has values are inside.  The result is the grace period: when    *)
(* synchronize_srcu() returns, by either of its ways, every reader that    *)
(* was inside when it was called has left.                                 *)
(***************************************************************************)
EXTENDS Srcu, LibProofs

(* How many advances of completed an updater that waits for the mutex has  *)
(* seen since its call, up to a wrap round.                                *)
Advances(v) == Completed(completed - idx[v])

(* Nobody synchronizes, or whoever does has not flipped completed yet.     *)
BeforeFlip == \A u \in Updater : pc[u] \notin {"sync2", "scan", "sync3"}

(* The mutex says who synchronizes. *)
OwnerInv ==
  \A u \in Updater : mutex = u <=> pc[u] \in {"sync1", "sync2", "scan", "sync3"}

(* Whoever has flipped completed remembers the old rank. *)
IdxInv ==
  \A u \in Updater : pc[u] \in {"sync2", "scan", "sync3"} => idx[u] = 1 - (completed % 2)

(* A reader with preemption disabled is on a CPU. *)
CpuInv == \A r \in PreemptOff : cpu[r] \in CPU

(* What every other part needs to know. *)
Basic == TypeOK /\ OwnerInv /\ IdxInv /\ CpuInv

(* Which readers may still be, or come to be, counted in the old rank.     *)
RankInv ==
  /\ BeforeFlip =>
       \A r \in Reader : rpc[r] \in {"idx", "cs"} => rank[r] = completed % 2
  /\ \A u \in Updater :
       /\ pc[u] = "sync2" =>
            \A r \in Reader : rpc[r] = "idx" /\ rank[r] = idx[u] => r \in waits[u]
       /\ pc[u] = "scan" =>
            \A r \in Reader : rpc[r] = "idx" => rank[r] # idx[u]
       /\ pc[u] = "sync3" =>
            \A r \in Reader : rpc[r] \in {"idx", "cs"} => rank[r] # idx[u]

(* The readers S are on their way out: the flip of u came after they had   *)
(* counted themselves, so that u waits for all of them.                    *)
OnTheWayOut(u, S) ==
  /\ pc[u] \in {"sync2", "scan"} =>
       \A r \in S : rpc[r] = "late" \/ (rpc[r] = "cs" /\ rank[r] = idx[u])
  /\ pc[u] = "sync3" => \A r \in S : rpc[r] = "late" /\ r \in waits[u]

(* The readers that a call has to wait for: those of the one that          *)
(* synchronizes, and those of the ones that wait for the mutex, by the     *)
(* number of flips they have seen.                                         *)
BeforeInv ==
  /\ \A v \in Updater, r \in Reader : r \in before[v] => rpc[r] # "out"
  /\ \A u \in Updater :
       /\ pc[u] = "sync1" =>
            \A r \in before[u] : rpc[r] \in {"enter", "idx"} => r \in waits[u]
       /\ OnTheWayOut(u, before[u])
  /\ \A v \in Updater : pc[v] = "lock" =>
       /\ Advances(v) \notin 0..2 => before[v] = {}
       /\ Advances(v) = 2 =>
            /\ BeforeFlip => before[v] = {}
            /\ \A u \in Updater : OnTheWayOut(u, before[v])
       /\ Advances(v) = 1 =>
            \A r \in before[v] :
              \/ rpc[r] \in {"cs", "late"}
              \/ \E u \in Updater : pc[u] = "sync2" /\ r \in waits[u]

(* The counters of the rank k on the CPUs of T. *)
PartSum(k, T) == SetSum([p \in CPU |-> c[p][k]], T)

(* The sum of a scan so far and the counters it has not read yet make up   *)
(* the readers that are counted, and those that left behind its back: a    *)
(* number of readers, so that it cannot have wrapped round.                *)
ScanOK(u) ==
  pc[u] = "scan" =>
    \E gone \in Nat :
      /\ gone + Cardinality(Counted(idx[u])) <= Cardinality(Reader)
      /\ Count(sum[u] + PartSum(idx[u], todo[u])) = Count(gone + Cardinality(Counted(idx[u])))

ScanInv == \A u \in Updater : ScanOK(u)

(* SumExact with the sum written as the lemmas have it. *)
SumInv == \A k \in 0..1 : Count(PartSum(k, CPU)) = Cardinality(Counted(k))

(* The inductive invariant. *)
SInv == Basic /\ RankInv /\ BeforeInv /\ SumInv /\ ScanInv

----------------------------------------------------------------------------
(* What the proofs need to know of the two widths: arithmetic on counters  *)
(* is arithmetic modulo 2^CountBits, and completed has at least eight      *)
(* values, an even number of them.                                         *)
LEMMA CountFacts ==
  /\ 2^CountBits \in Nat \ {0}
  /\ \A n \in Int : Count(n) \in 0..(2^CountBits - 1)
  /\ \A n \in 0..(2^CountBits - 1) : Count(n) = n
  /\ \A m, n \in Int : Count(Count(m) + n) = Count(m + n)
<1>1. 2^CountBits \in Nat \ {0}
  BY BitsAssumption, PowerPositive
<1> DEFINE M == 2^CountBits
<1>2. M \in Nat \ {0}
  BY <1>1
<1>3. \A n : Count(n) = n % M
  BY DEF Count
<1> HIDE DEF M
<1>4. \A n \in Int : n % M \in 0..(M - 1)
  BY <1>2, ModDivision
<1>5. \A n \in 0..(M - 1) : n % M = n
  BY <1>2, ModSmall
<1>6. \A m, n \in Int : ((m % M) + n) % M = (m + n) % M
  BY <1>2, ModAdd
<1> QED BY <1>1, <1>3, <1>4, <1>5, <1>6 DEF M

LEMMA CompletedFacts ==
  \E k \in Nat : k >= 4 /\ 2^CompletedBits = 2 * k /\ 2^(CompletedBits - 1) = k
<1> DEFINE a == CompletedBits - 3
<1>1. a \in Nat /\ a + 1 \in Nat /\ a + 2 \in Nat /\ CompletedBits = (a + 2) + 1
  BY BitsAssumption
<1> HIDE DEF a
<1>2. 2^a \in Nat /\ 2^a > 0
  BY <1>1, PowerPositive
<1>3. 2^(a + 1) = 2 * 2^a
  BY <1>1, PowerDouble
<1>4. 2^((a + 1) + 1) = 2 * 2^(a + 1)
  BY <1>1, PowerDouble
<1>5. (a + 1) + 1 = a + 2 /\ CompletedBits - 1 = a + 2
  BY <1>1
<1>6. 2^((a + 2) + 1) = 2 * 2^(a + 2)
  BY <1>1, PowerDouble
<1>7. 2^(a + 2) = 2 * 2^(a + 1) /\ 2^(CompletedBits - 1) = 2^(a + 2)
  BY <1>4, <1>5
<1>8. 2^CompletedBits = 2 * 2^(a + 2)
  BY <1>1, <1>6
<1>9. 2^(a + 2) \in Nat /\ 2^(a + 2) >= 4
  BY <1>2, <1>3, <1>7
<1> QED BY <1>7, <1>8, <1>9

LEMMA Widths ==
  /\ 2^CountBits \in Nat /\ 2^CountBits > 0
  /\ 2^CompletedBits \in Nat /\ 2^CompletedBits >= 8
<1>1. 2^CountBits \in Nat \ {0}
  BY CountFacts
<1>2. PICK k \in Nat : k >= 4 /\ 2^CompletedBits = 2 * k
  BY CompletedFacts
<1> QED BY <1>1, <1>2

(* An advance of completed changes its last bit, and is one more advance   *)
(* for whoever has called before, up to a wrap round.                      *)
LEMMA Flip ==
  ASSUME NEW n \in 0..(2^CompletedBits - 1)
  PROVE  /\ Completed(n + 1) \in 0..(2^CompletedBits - 1)
         /\ n % 2 \in 0..1
         /\ Completed(n + 1) % 2 = 1 - (n % 2)
<1>1. PICK k \in Nat : k >= 4 /\ 2^CompletedBits = 2 * k
  BY CompletedFacts
<1>2. n \in Int /\ n + 1 \in Int
  BY <1>1
<1>3. (n + 1) % (2 * k) \in 0..((2 * k) - 1)
  <2>1. 2 * k \in Nat \ {0}
    BY <1>1
  <2> QED BY <1>2, <2>1, ModDivision
<1>4. ((n + 1) % (2 * k)) % 2 = (n + 1) % 2
  BY <1>1, <1>2, ModParity
<1>5. n % 2 \in 0..1 /\ (n + 1) % 2 = 1 - (n % 2)
  BY <1>2
<1>6. Completed(n + 1) = (n + 1) % (2 * k)
  BY <1>1 DEF Completed
<1> QED BY <1>1, <1>3, <1>4, <1>5, <1>6

LEMMA OneMore ==
  ASSUME NEW n \in 0..(2^CompletedBits - 1), NEW i \in 0..(2^CompletedBits - 1)
  PROVE  /\ Completed(n - i) \in 0..(2^CompletedBits - 1)
         /\ Completed(n - n) = 0
         /\ Signed(n - i) >= 2 => Completed(n - i) >= 2
         /\ Completed(Completed(n + 1) - i) =
              IF Completed(n - i) = 2^CompletedBits - 1 THEN 0 ELSE Completed(n - i) + 1
<1> DEFINE M == 2^CompletedBits
           d == (n - i) % M
<1>1. M \in Nat \ {0} /\ M >= 8
  BY CompletedFacts
<1>2. \A x : Completed(x) = x % M
  BY DEF Completed
<1>3. Signed(n - i) >= 2 => Completed(n - i) >= 2
  <2>1. PICK k \in Nat : k >= 4 /\ 2^CompletedBits = 2 * k /\ 2^(CompletedBits - 1) = k
    BY CompletedFacts
  <2>2. Signed(n - i) = IF Completed(n - i) >= k THEN Completed(n - i) - (2 * k) ELSE Completed(n - i)
    BY <2>1 DEF Signed
  <2>3. Completed(n - i) \in 0..((2 * k) - 1)
    <3>1. 2 * k \in Nat \ {0} /\ n - i \in Int
      BY <2>1
    <3>2. (n - i) % (2 * k) \in 0..((2 * k) - 1)
      BY <3>1, ModDivision
    <3> QED BY <2>1, <3>2 DEF Completed
  <2> QED BY <2>1, <2>2, <2>3
<1>4. n \in Int /\ i \in Int /\ n - i \in Int /\ n + 1 \in Int /\ n - n = 0
  BY <1>1
<1> HIDE DEF M
<1>5. (n - i) % M \in 0..(M - 1)
  BY <1>1, <1>4, ModDivision
<1>6. \A a, b \in Int : ((a % M) + b) % M = (a + b) % M
  BY <1>1, ModAdd
<1>7. 0 - i \in Int
  BY <1>4
<1>8. (((n + 1) % M) + (0 - i)) % M = ((n + 1) + (0 - i)) % M
  BY <1>4, <1>6, <1>7
<1>9. (((n - i) % M) + 1) % M = ((n - i) + 1) % M
  BY <1>4, <1>6
<1>10. (n + 1) + (0 - i) = (n - i) + 1
  BY <1>4
<1>11. (n + 1) % M \in Int
  BY <1>1, <1>4, ModDivision
<1>12. ((n + 1) % M) + (0 - i) = ((n + 1) % M) - i
  BY <1>4, <1>11
<1>13. (((n + 1) % M) - i) % M = (d + 1) % M
  BY <1>8, <1>9, <1>10, <1>12
<1> HIDE DEF d
<1>14. d \in 0..(M - 1)
  BY <1>5 DEF d
<1>15. CASE d = M - 1
  <2>1. d + 1 = (M * 1) + 0 /\ d + 1 \in Int
    BY <1>1, <1>14, <1>15
  <2>2. (d + 1) % M = 0
    BY <1>1, <2>1, ModUnique
  <2> QED BY <1>1, <1>2, <1>3, <1>4, <1>5, <1>13, <1>15, <2>2, ModSmall DEF d, M
<1>16. CASE d # M - 1
  <2>1. d + 1 \in 0..(M - 1)
    BY <1>1, <1>14, <1>16
  <2>2. (d + 1) % M = d + 1
    BY <1>1, <2>1, ModSmall
  <2> QED BY <1>1, <1>2, <1>3, <1>4, <1>5, <1>13, <1>16, <2>2, ModSmall DEF d, M
<1> QED BY <1>15, <1>16

----------------------------------------------------------------------------
(* Every step keeps the types, the owner of the mutex, and readers with    *)
(* preemption disabled on a CPU.                                           *)
LEMMA BasicInit == Init => Basic
<1> SUFFICES ASSUME Init PROVE Basic
  OBVIOUS
<1>1. 2^CountBits \in Nat \ {0} /\ 0 \in 0..(2^CountBits - 1)
  BY CountFacts
<1>2. 0 \in 0..(2^CompletedBits - 1)
  BY CompletedFacts
<1>3. c \in [CPU -> [0..1 -> 0..(2^CountBits - 1)]]
  BY <1>1 DEF Init
<1> HIDE <1>1
<1>4. TypeOK
  BY <1>1, <1>2, <1>3 DEF Init, TypeOK, ReaderLocations, Locations
<1> QED BY <1>4, NameAssumption DEF Init, Basic, OwnerInv, IdxInv, CpuInv, PreemptOff

LEMMA CountersType ==
  ASSUME TypeOK, NEW p \in CPU, NEW k \in 0..1, NEW n \in Int
  PROVE  [c EXCEPT ![p][k] = Count(@ + n)] \in [CPU -> [0..1 -> 0..(2^CountBits - 1)]]
<1>1. c[p][k] \in 0..(2^CountBits - 1)
  BY DEF TypeOK
<1>2. c[p][k] + n \in Int
  BY <1>1, Widths
<1>3. Count(c[p][k] + n) \in 0..(2^CountBits - 1)
  BY <1>2, CountFacts
<1> QED BY <1>3 DEF TypeOK

LEMMA UnlockCounts ==
  ASSUME TypeOK, NEW r \in Reader, NEW p \in CPU, srcu_read_unlock(r, p)
  PROVE  rank[r] \in 0..1 /\ 0 - 1 \in Int /\ c' = [c EXCEPT ![p][rank[r]] = Count(@ + (0 - 1))]
<1>1. rank[r] \in 0..1 /\ c[p][rank[r]] \in Int
  BY Widths DEF TypeOK
<1>2. c[p][rank[r]] - 1 = c[p][rank[r]] + (0 - 1)
  BY <1>1
<1>3. c' = [c EXCEPT ![p][rank[r]] = Count(@ + (0 - 1))]
  BY <1>1, <1>2 DEF srcu_read_unlock
<1> QED BY <1>1, <1>3

LEMMA BasicStep == Basic /\ [Next]_vars => Basic'
<1> SUFFICES ASSUME Basic, [Next]_vars PROVE Basic'
  OBVIOUS
<1> USE DEF ReaderLocations, Locations, rvars, uvars
<1>0. completed % 2 \in 0..1
  BY Flip DEF Basic, TypeOK
<1>1. ASSUME NEW r \in Reader, NEW p \in CPU, srcu_read_lock(r, p) PROVE Basic'
  BY <1>1 DEF Basic, srcu_read_lock, TypeOK, OwnerInv, IdxInv, CpuInv, PreemptOff
<1>2. ASSUME NEW r \in Reader, read_lock_idx(r) PROVE Basic'
  BY <1>0, <1>2 DEF Basic, read_lock_idx, TypeOK, OwnerInv, IdxInv, CpuInv, PreemptOff
<1>3. ASSUME NEW r \in Reader, read_lock_count(r) PROVE Basic'
  <2>1. cpu[r] \in CPU /\ rank[r] \in 0..1
    BY <1>3 DEF Basic, read_lock_count, TypeOK, CpuInv, PreemptOff
  <2>2. c' \in [CPU -> [0..1 -> 0..(2^CountBits - 1)]]
    <3>1. [c EXCEPT ![cpu[r]][rank[r]] = Count(@ + 1)] \in [CPU -> [0..1 -> 0..(2^CountBits - 1)]]
      <4>1. 1 \in Int /\ TypeOK
        BY DEF Basic
      <4> QED BY <2>1, <4>1, CountersType
    <3> QED BY <1>3, <3>1 DEF read_lock_count
  <2>3. TypeOK'
    BY <1>3, <2>2 DEF Basic, read_lock_count, preempt_enable, TypeOK
  <2> QED BY <1>3, <2>3 DEF Basic, read_lock_count, preempt_enable, TypeOK, OwnerInv, IdxInv, CpuInv, PreemptOff
<1>4. ASSUME NEW r \in Reader, NEW p \in CPU, srcu_read_unlock(r, p) PROVE Basic'
  <2>1. rank[r] \in 0..1 /\ 0 - 1 \in Int /\ c' = [c EXCEPT ![p][rank[r]] = Count(@ + (0 - 1))]
    BY <1>4, UnlockCounts DEF Basic
  <2>4. c' \in [CPU -> [0..1 -> 0..(2^CountBits - 1)]]
    <3>1. [c EXCEPT ![p][rank[r]] = Count(@ + (0 - 1))] \in [CPU -> [0..1 -> 0..(2^CountBits - 1)]]
      BY <2>1, CountersType DEF Basic
    <3> QED BY <2>1, <3>1
  <2>5. TypeOK'
    BY <1>4, <2>4 DEF Basic, srcu_read_unlock, TypeOK
  <2> QED BY <1>4, <2>5 DEF Basic, srcu_read_unlock, TypeOK, OwnerInv, IdxInv, CpuInv, PreemptOff
<1>5. ASSUME NEW r \in Reader, read_unlock_done(r) PROVE Basic'
  BY <1>5 DEF Basic, read_unlock_done, preempt_enable, TypeOK, OwnerInv, IdxInv, CpuInv, PreemptOff
<1>6. ASSUME NEW u \in Updater, synchronize_srcu(u) PROVE Basic'
  BY <1>6 DEF Basic, synchronize_srcu, Inside, TypeOK, OwnerInv, IdxInv, CpuInv, PreemptOff
<1>7. 0 \in 0..(2^CountBits - 1) /\ 0 \in 0..(2^CompletedBits - 1)
      /\ \A k \in 0..1 : k \in 0..(2^CompletedBits - 1)
  BY Widths
<1>8. ASSUME NEW u \in Updater, sync_early_exit(u) PROVE Basic'
  BY <1>7, <1>8 DEF Basic, sync_early_exit, sync_return, TypeOK, OwnerInv, IdxInv, CpuInv, PreemptOff
<1>9. ASSUME NEW u \in Updater, sync_begin(u) PROVE Basic'
  BY <1>7, <1>9, NameAssumption DEF Basic, sync_begin, sync_func, TypeOK, OwnerInv, IdxInv, CpuInv, PreemptOff
<1>10. ASSUME NEW u \in Updater, sync_flip(u) PROVE Basic'
  <2>1. completed' \in 0..(2^CompletedBits - 1)
    BY <1>10, Flip DEF Basic, TypeOK, sync_flip
  <2>2. TypeOK'
    BY <1>0, <1>7, <1>10, <2>1 DEF Basic, sync_flip, sync_func, TypeOK, PreemptOff
  <2>3. completed' % 2 = 1 - (completed % 2)
    BY <1>10, Flip DEF Basic, TypeOK, sync_flip
  <2> QED BY <1>0, <1>10, <2>2, <2>3
       DEF Basic, sync_flip, sync_func, sync_func_done, TypeOK, OwnerInv, IdxInv, CpuInv, PreemptOff
<1>11. ASSUME NEW u \in Updater, sync_drain(u) PROVE Basic'
  BY <1>7, <1>11
  DEF Basic, sync_drain, begin_scan, sync_func_done, TypeOK, OwnerInv, IdxInv, CpuInv, PreemptOff
<1>12. ASSUME NEW u \in Updater, NEW p \in CPU, srcu_readers_active_idx(u, p) PROVE Basic'
  <2>1. idx[u] \in 0..1 /\ sum[u] + c[p][idx[u]] \in Int
    <3>1. idx[u] \in 0..1
      BY <1>0, <1>12 DEF Basic, IdxInv, srcu_readers_active_idx
    <3> QED BY <3>1, Widths DEF Basic, TypeOK
  <2>2. Count(sum[u] + c[p][idx[u]]) \in 0..(2^CountBits - 1)
    BY <2>1, CountFacts
  <2>4. sum' \in [Updater -> 0..(2^CountBits - 1)]
    BY <1>12, <2>2 DEF Basic, TypeOK, srcu_readers_active_idx
  <2>3. TypeOK'
    BY <1>12, <2>4 DEF Basic, srcu_readers_active_idx, TypeOK
  <2> QED BY <1>12, <2>3 DEF Basic, srcu_readers_active_idx, TypeOK, OwnerInv, IdxInv, CpuInv, PreemptOff
<1>13. ASSUME NEW u \in Updater, sync_again(u) PROVE Basic'
  BY <1>7, <1>13 DEF Basic, sync_again, begin_scan, TypeOK, OwnerInv, IdxInv, CpuInv, PreemptOff
<1>14. ASSUME NEW u \in Updater, sync_drained(u) PROVE Basic'
  BY <1>14 DEF Basic, sync_drained, sync_func, TypeOK, OwnerInv, IdxInv, CpuInv, PreemptOff
<1>15. ASSUME NEW u \in Updater, sync_end(u) PROVE Basic'
  BY <1>7, <1>15, NameAssumption
  DEF Basic, sync_end, sync_func_done, sync_return, TypeOK, OwnerInv, IdxInv, CpuInv, PreemptOff
<1>16. CASE UNCHANGED vars
  BY <1>16 DEF Basic, vars, TypeOK, OwnerInv, IdxInv, CpuInv, PreemptOff
<1> QED BY <1>1, <1>2, <1>3, <1>4, <1>5, <1>6, <1>8, <1>9, <1>10, <1>11, <1>12, <1>13, <1>14,
           <1>15, <1>16 DEF Next, Read, Synchronize

(* The readers are finitely many, and so are those of a rank. *)
LEMMA CountedFinite ==
  ASSUME NEW k
  PROVE  /\ IsFiniteSet(Counted(k))
         /\ Cardinality(Counted(k)) \in Nat /\ Cardinality(Reader) \in Nat
         /\ Cardinality(Counted(k)) <= Cardinality(Reader)
<1>1. Counted(k) \in SUBSET Reader
  BY DEF Counted
<1> QED BY <1>1, SetAssumption, FS_Subset, FS_CardinalityType

(* A scan that adds up to zero has found everybody gone. *)
LEMMA Drained ==
  ASSUME ScanInv, NEW u \in Updater, pc[u] = "scan", todo[u] = {}, sum[u] = 0
  PROVE  Counted(idx[u]) = {}
<1> DEFINE n == Cardinality(Counted(idx[u]))
<1>1. PICK gone \in Nat :
        /\ gone + n <= Cardinality(Reader)
        /\ Count(sum[u] + PartSum(idx[u], todo[u])) = Count(gone + n)
  BY DEF ScanInv, ScanOK
<1>2. PartSum(idx[u], todo[u]) = 0
  BY SetSumEmpty DEF PartSum
<1>3. n \in Nat /\ Cardinality(Reader) \in Nat /\ IsFiniteSet(Counted(idx[u]))
  BY CountedFinite
<1> HIDE DEF n
<1>4. gone + n \in 0..(2^CountBits - 1) /\ 0 \in 0..(2^CountBits - 1)
  BY <1>1, <1>3, ReadersFit, Widths
<1>5. Count(gone + n) = gone + n /\ Count(0) = 0
  BY <1>4, CountFacts
<1>6. sum[u] + PartSum(idx[u], todo[u]) = 0
  BY <1>2
<1>7. n = 0
  BY <1>1, <1>3, <1>5, <1>6
<1> QED BY <1>3, <1>7, FS_EmptySet DEF n

(* Nobody is, or comes to be, counted in the old rank when it should not.  *)
LEMMA RankStep == SInv /\ [Next]_vars => RankInv'
<1> SUFFICES ASSUME SInv, [Next]_vars PROVE RankInv'
  OBVIOUS
<1> USE DEF ReaderLocations, Locations, rvars, uvars
<1>0. completed % 2 \in 0..1
  BY Flip DEF SInv, Basic, TypeOK
<1>1. ASSUME NEW r \in Reader, NEW p \in CPU, srcu_read_lock(r, p) PROVE RankInv'
  BY <1>0, <1>1 DEF SInv, Basic, srcu_read_lock, TypeOK, OwnerInv, IdxInv, RankInv, BeforeFlip, PreemptOff
<1>2. ASSUME NEW r \in Reader, read_lock_idx(r) PROVE RankInv'
  BY <1>0, <1>2 DEF SInv, Basic, read_lock_idx, TypeOK, OwnerInv, IdxInv, RankInv, BeforeFlip, PreemptOff
<1>3. ASSUME NEW r \in Reader, read_lock_count(r) PROVE RankInv'
  BY <1>0, <1>3 DEF SInv, Basic, read_lock_count, preempt_enable, TypeOK, OwnerInv, IdxInv, RankInv, BeforeFlip, PreemptOff
<1>4. ASSUME NEW r \in Reader, NEW p \in CPU, srcu_read_unlock(r, p) PROVE RankInv'
  BY <1>0, <1>4 DEF SInv, Basic, srcu_read_unlock, TypeOK, OwnerInv, IdxInv, RankInv, BeforeFlip, PreemptOff
<1>5. ASSUME NEW r \in Reader, read_unlock_done(r) PROVE RankInv'
  BY <1>0, <1>5 DEF SInv, Basic, read_unlock_done, preempt_enable, TypeOK, OwnerInv, IdxInv, RankInv, BeforeFlip, PreemptOff
<1>6. ASSUME NEW u \in Updater, synchronize_srcu(u) PROVE RankInv'
  BY <1>0, <1>6 DEF SInv, Basic, synchronize_srcu, Inside, TypeOK, OwnerInv, IdxInv, RankInv, BeforeFlip, PreemptOff
<1>7. ASSUME NEW u \in Updater, sync_early_exit(u) PROVE RankInv'
  BY <1>0, <1>7 DEF SInv, Basic, sync_early_exit, sync_return, TypeOK, OwnerInv, IdxInv, RankInv, BeforeFlip, PreemptOff
<1>8. ASSUME NEW u \in Updater, sync_begin(u) PROVE RankInv'
  BY <1>0, <1>8 DEF SInv, Basic, sync_begin, sync_func, TypeOK, OwnerInv, IdxInv, RankInv, BeforeFlip, PreemptOff
<1>9. ASSUME NEW u \in Updater, sync_flip(u) PROVE RankInv'
  BY <1>0, <1>9 DEF SInv, Basic, sync_flip, sync_func, sync_func_done, TypeOK, OwnerInv, IdxInv, RankInv, BeforeFlip, PreemptOff
<1>10. ASSUME NEW u \in Updater, sync_drain(u) PROVE RankInv'
  BY <1>0, <1>10 DEF SInv, Basic, sync_drain, begin_scan, sync_func_done, TypeOK, OwnerInv, IdxInv, RankInv, BeforeFlip, PreemptOff
<1>11. ASSUME NEW u \in Updater, NEW p \in CPU, srcu_readers_active_idx(u, p) PROVE RankInv'
  BY <1>0, <1>11 DEF SInv, Basic, srcu_readers_active_idx, TypeOK, OwnerInv, IdxInv, RankInv, BeforeFlip, PreemptOff
<1>12. ASSUME NEW u \in Updater, sync_again(u) PROVE RankInv'
  BY <1>0, <1>12 DEF SInv, Basic, sync_again, begin_scan, TypeOK, OwnerInv, IdxInv, RankInv, BeforeFlip, PreemptOff
<1>13. ASSUME NEW u \in Updater, sync_drained(u) PROVE RankInv'
  <2>1. Counted(idx[u]) = {}
    BY <1>13, Drained DEF SInv, sync_drained
  <2> QED BY <1>0, <1>13, <2>1
       DEF SInv, Basic, sync_drained, sync_func, TypeOK, OwnerInv, IdxInv, RankInv, BeforeFlip, Counted
<1>14. ASSUME NEW u \in Updater, sync_end(u) PROVE RankInv'
  BY <1>0, <1>14 DEF SInv, Basic, sync_end, sync_func_done, sync_return, TypeOK, OwnerInv, IdxInv, RankInv, BeforeFlip, PreemptOff
<1>15. CASE UNCHANGED vars
  BY <1>15 DEF SInv, Basic, vars, TypeOK, OwnerInv, IdxInv, RankInv, BeforeFlip, PreemptOff
<1> QED BY <1>1, <1>2, <1>3, <1>4, <1>5, <1>6, <1>7, <1>8, <1>9, <1>10, <1>11, <1>12, <1>13, <1>14, <1>15 DEF Next, Read, Synchronize

(* Every call is at each moment on its way to a grace period: the flip of  *)
(* an updater makes the readers of the old rank the ones it waits for, and *)
(* is one of the two flips that a call in the queue has to see.            *)
LEMMA BeforeStep == SInv /\ [Next]_vars => BeforeInv'
<1> SUFFICES ASSUME SInv, [Next]_vars PROVE BeforeInv'
  OBVIOUS
<1> USE DEF ReaderLocations, Locations, rvars, uvars
<1>0. completed % 2 \in 0..1
  BY Flip DEF SInv, Basic, TypeOK
<1>1. ASSUME NEW r \in Reader, NEW p \in CPU, srcu_read_lock(r, p) PROVE BeforeInv'
  BY <1>0, <1>1 DEF SInv, Basic, srcu_read_lock, TypeOK, OwnerInv, IdxInv, RankInv, BeforeInv, OnTheWayOut, Advances, BeforeFlip, PreemptOff
<1>2. ASSUME NEW r \in Reader, read_lock_idx(r) PROVE BeforeInv'
  BY <1>0, <1>2 DEF SInv, Basic, read_lock_idx, TypeOK, OwnerInv, IdxInv, RankInv, BeforeInv, OnTheWayOut, Advances, BeforeFlip, PreemptOff
<1>3. ASSUME NEW r \in Reader, read_lock_count(r) PROVE BeforeInv'
  BY <1>0, <1>3 DEF SInv, Basic, read_lock_count, preempt_enable, TypeOK, OwnerInv, IdxInv, RankInv, BeforeInv, OnTheWayOut, Advances, BeforeFlip, PreemptOff
<1>4. ASSUME NEW r \in Reader, NEW p \in CPU, srcu_read_unlock(r, p) PROVE BeforeInv'
  BY <1>0, <1>4 DEF SInv, Basic, srcu_read_unlock, TypeOK, OwnerInv, IdxInv, RankInv, BeforeInv, OnTheWayOut, Advances, BeforeFlip, PreemptOff
<1>5. ASSUME NEW r \in Reader, read_unlock_done(r) PROVE BeforeInv'
  BY <1>0, <1>5 DEF SInv, Basic, read_unlock_done, preempt_enable, TypeOK, OwnerInv, IdxInv, RankInv, BeforeInv, OnTheWayOut, Advances, BeforeFlip, PreemptOff
<1>6. ASSUME NEW u \in Updater, synchronize_srcu(u) PROVE BeforeInv'
  <2>1. Advances(u)' = 0
    BY <1>6, OneMore DEF SInv, Basic, TypeOK, synchronize_srcu, Advances
  <2>2. \A v \in Updater : v # u => Advances(v)' = Advances(v)
    BY <1>6 DEF SInv, Basic, TypeOK, synchronize_srcu, Advances
  <2> QED BY <1>6, <2>1, <2>2
       DEF SInv, Basic, synchronize_srcu, Inside, TypeOK, BeforeInv, OnTheWayOut, BeforeFlip
<1>7. ASSUME NEW u \in Updater, sync_early_exit(u) PROVE BeforeInv'
  BY <1>0, <1>7 DEF SInv, Basic, sync_early_exit, sync_return, TypeOK, OwnerInv, IdxInv, RankInv, BeforeInv, OnTheWayOut, Advances, BeforeFlip, PreemptOff
<1>8. ASSUME NEW u \in Updater, sync_begin(u) PROVE BeforeInv'
  BY <1>0, <1>8 DEF SInv, Basic, sync_begin, sync_func, TypeOK, OwnerInv, IdxInv, RankInv, BeforeInv, OnTheWayOut, Advances, BeforeFlip, PreemptOff
<1>9. ASSUME NEW u \in Updater, sync_flip(u) PROVE BeforeInv'
  <2>1. /\ pc[u] = "sync1" /\ waits[u] = {} /\ pc' = [pc EXCEPT ![u] = "sync2"]
        /\ waits' = [waits EXCEPT ![u] = PreemptOff]
        /\ idx' = [idx EXCEPT ![u] = completed % 2]
        /\ completed' = Completed(completed + 1)
        /\ UNCHANGED <<rpc, rank, before>>
    BY <1>9 DEF sync_flip, sync_func, sync_func_done
  <2>2. \A v \in Updater : v # u => pc[v] \in {"idle", "lock"}
    BY <2>1 DEF SInv, Basic, OwnerInv, TypeOK
  <2>3. BeforeFlip
    BY <2>1, <2>2 DEF BeforeFlip
  <2>4. \A r \in Reader : rpc[r] \in {"idx", "cs"} => rank[r] = idx'[u]
    BY <2>1, <2>3 DEF SInv, Basic, TypeOK, RankInv
  <2>5. ASSUME NEW v \in Updater, v # u
        PROVE  /\ Advances(v) \in 0..(2^CompletedBits - 1)
               /\ Advances(v)' = IF Advances(v) = 2^CompletedBits - 1 THEN 0 ELSE Advances(v) + 1
    <3>1. /\ completed \in 0..(2^CompletedBits - 1) /\ idx[v] \in 0..(2^CompletedBits - 1)
          /\ idx'[v] = idx[v]
      BY <2>1, <2>5 DEF SInv, Basic, TypeOK
    <3>2. /\ Completed(completed - idx[v]) \in 0..(2^CompletedBits - 1)
          /\ Completed(Completed(completed + 1) - idx[v]) =
               IF Completed(completed - idx[v]) = 2^CompletedBits - 1
               THEN 0 ELSE Completed(completed - idx[v]) + 1
      BY <3>1, OneMore
    <3> QED BY <2>1, <3>1, <3>2 DEF Advances
  <2>6. \A v \in Updater, r \in Reader : r \in before'[v] => rpc'[r] # "out"
    BY <2>1 DEF SInv, BeforeInv
  <2>7. \A r \in before[u] : rpc[r] \in {"cs", "late"}
    BY <2>1 DEF SInv, Basic, TypeOK, BeforeInv
  <2>8. ASSUME NEW v \in Updater
        PROVE  /\ pc'[v] = "sync1" =>
                    \A r \in before'[v] : rpc'[r] \in {"enter", "idx"} => r \in waits'[v]
               /\ OnTheWayOut(v, before[v])'
    BY <2>1, <2>2, <2>4, <2>7 DEF SInv, Basic, TypeOK, OnTheWayOut
  <2>9. ASSUME NEW v \in Updater, pc'[v] = "lock"
        PROVE  /\ Advances(v)' \notin 0..2 => before'[v] = {}
               /\ Advances(v)' = 2 =>
                    /\ BeforeFlip' => before'[v] = {}
                    /\ \A w \in Updater : OnTheWayOut(w, before[v])'
               /\ Advances(v)' = 1 =>
                    \A r \in before'[v] :
                      \/ rpc'[r] \in {"cs", "late"}
                      \/ \E w \in Updater : pc'[w] = "sync2" /\ r \in waits'[w]
    <3>1. v # u /\ pc[v] = "lock" /\ before'[v] = before[v] /\ ~BeforeFlip'
      BY <2>1, <2>9 DEF SInv, Basic, TypeOK, BeforeFlip
    <3>2. /\ Advances(v) \in 0..(2^CompletedBits - 1)
          /\ Advances(v)' = IF Advances(v) = 2^CompletedBits - 1 THEN 0 ELSE Advances(v) + 1
      BY <2>5, <3>1
    <3>3. ASSUME Advances(v)' \notin 0..2 PROVE before'[v] = {}
      <4>1. Advances(v) \notin 0..1
        BY <3>2, <3>3, Widths
      <4>2. Advances(v) = 2 => before[v] = {}
        BY <2>3, <3>1 DEF SInv, BeforeInv
      <4>3. Advances(v) \notin 0..2 => before[v] = {}
        BY <3>1 DEF SInv, BeforeInv
      <4> QED BY <3>1, <3>2, <4>1, <4>2, <4>3, Widths
    <3>4. ASSUME Advances(v)' = 2 PROVE \A w \in Updater : OnTheWayOut(w, before[v])'
      <4>1. Advances(v) = 1
        BY <3>2, <3>4, Widths
      <4>2. \A r \in before[v] : rpc[r] \in {"cs", "late"}
        BY <2>1, <2>2, <3>1, <4>1 DEF SInv, BeforeInv
      <4> QED BY <2>1, <2>2, <2>4, <3>1, <4>2 DEF SInv, Basic, TypeOK, OnTheWayOut
    <3>5. \A r \in before'[v] :
             \/ rpc'[r] \in {"cs", "late"}
             \/ \E w \in Updater : pc'[w] = "sync2" /\ r \in waits'[w]
      BY <2>1, <3>1 DEF SInv, Basic, TypeOK, BeforeInv, PreemptOff
    <3> QED BY <3>1, <3>3, <3>4, <3>5
  <2> QED BY <2>6, <2>8, <2>9 DEF BeforeInv
<1>10. ASSUME NEW u \in Updater, sync_drain(u) PROVE BeforeInv'
  BY <1>0, <1>10 DEF SInv, Basic, sync_drain, begin_scan, sync_func_done, TypeOK, OwnerInv, IdxInv, RankInv, BeforeInv, OnTheWayOut, Advances, BeforeFlip, PreemptOff
<1>11. ASSUME NEW u \in Updater, NEW p \in CPU, srcu_readers_active_idx(u, p) PROVE BeforeInv'
  BY <1>0, <1>11 DEF SInv, Basic, srcu_readers_active_idx, TypeOK, OwnerInv, IdxInv, RankInv, BeforeInv, OnTheWayOut, Advances, BeforeFlip, PreemptOff
<1>12. ASSUME NEW u \in Updater, sync_again(u) PROVE BeforeInv'
  BY <1>0, <1>12 DEF SInv, Basic, sync_again, begin_scan, TypeOK, OwnerInv, IdxInv, RankInv, BeforeInv, OnTheWayOut, Advances, BeforeFlip, PreemptOff
<1>13. ASSUME NEW u \in Updater, sync_drained(u) PROVE BeforeInv'
  <2>1. Counted(idx[u]) = {}
    BY <1>13, Drained DEF SInv, sync_drained
  <2>2. \A v \in Updater : Advances(v)' = Advances(v)
    BY <1>13 DEF sync_drained, Advances
  <2>3. \A v, w \in Updater : OnTheWayOut(w, before[v]) => OnTheWayOut(w, before[v])'
    BY <1>13, <2>1 DEF SInv, Basic, sync_drained, sync_func, TypeOK, OnTheWayOut, Counted, PreemptOff
  <2> QED BY <1>13, <2>2, <2>3
       DEF SInv, Basic, sync_drained, sync_func, TypeOK, BeforeInv, BeforeFlip
<1>14. ASSUME NEW u \in Updater, sync_end(u) PROVE BeforeInv'
  BY <1>0, <1>14 DEF SInv, Basic, sync_end, sync_func_done, sync_return, TypeOK, OwnerInv, IdxInv, RankInv, BeforeInv, OnTheWayOut, Advances, BeforeFlip, PreemptOff
<1>15. CASE UNCHANGED vars
  BY <1>15 DEF SInv, Basic, vars, TypeOK, OwnerInv, IdxInv, RankInv, BeforeInv, OnTheWayOut, Advances, BeforeFlip, PreemptOff
<1> QED BY <1>1, <1>2, <1>3, <1>4, <1>5, <1>6, <1>7, <1>8, <1>9, <1>10, <1>11, <1>12, <1>13, <1>14, <1>15 DEF Next, Read, Synchronize

----------------------------------------------------------------------------
(* What a change of one counter does to the sums it is part of. *)
LEMMA PartSumType ==
  ASSUME TypeOK, NEW k \in 0..1, NEW T \in SUBSET CPU
  PROVE  PartSum(k, T) \in Int /\ IsFiniteSet(T)
<1> DEFINE f == [q \in CPU |-> c[q][k]]
<1>1. IsFiniteSet(T)
  BY SetAssumption, FS_Subset
<1>2. \A q \in T : f[q] \in Int
  BY Widths DEF TypeOK
<1> HIDE DEF f
<1>3. SetSum(f, T) \in Int
  BY <1>1, <1>2, SetSumType
<1> QED BY <1>1, <1>3 DEF PartSum, f

LEMMA PartSumRemove ==
  ASSUME TypeOK, NEW k \in 0..1, NEW T \in SUBSET CPU, NEW p \in T
  PROVE  PartSum(k, T) = PartSum(k, T \ {p}) + c[p][k]
<1> DEFINE f == [q \in CPU |-> c[q][k]]
<1>1. IsFiniteSet(T)
  BY SetAssumption, FS_Subset
<1>2. \A q \in T : f[q] \in Int
  BY Widths DEF TypeOK
<1>3. f[p] = c[p][k]
  OBVIOUS
<1> HIDE DEF f
<1>4. SetSum(f, T) = SetSum(f, T \ {p}) + f[p]
  BY <1>1, <1>2, SetSumRemove
<1> QED BY <1>3, <1>4 DEF PartSum, f

LEMMA PartSumElsewhere ==
  ASSUME TypeOK, NEW p \in CPU, NEW k \in 0..1, NEW n \in Int,
         c' = [c EXCEPT ![p][k] = Count(@ + n)],
         NEW j \in 0..1, NEW T \in SUBSET CPU, j # k \/ p \notin T
  PROVE  PartSum(j, T)' = PartSum(j, T)
<1> DEFINE f == [q \in CPU |-> c[q][j]]
           g == [q \in CPU |-> c'[q][j]]
<1>1. IsFiniteSet(T)
  BY SetAssumption, FS_Subset
<1>2. \A q \in T : g[q] = f[q]
  BY DEF TypeOK
<1> HIDE DEF f, g
<1>3. SetSum(g, T) = SetSum(f, T)
  BY <1>1, <1>2, SetSumSame
<1> QED BY <1>3 DEF PartSum, f, g

LEMMA PartSumChange ==
  ASSUME TypeOK, TypeOK', NEW p \in CPU, NEW k \in 0..1, NEW n \in Int,
         c' = [c EXCEPT ![p][k] = Count(@ + n)],
         NEW T \in SUBSET CPU, p \in T
  PROVE  Count(PartSum(k, T)') = Count(PartSum(k, T) + n)
<1> DEFINE R == T \ {p}
           x == c[p][k]
           y == c'[p][k]
           rest == PartSum(k, R)
<1>1. R \in SUBSET CPU /\ p \notin R
  OBVIOUS
<1>2. PartSum(k, T) = rest + x
  BY PartSumRemove
<1>3. PartSum(k, T)' = PartSum(k, R)' + y
  <2> DEFINE f == [q \in CPU |-> c'[q][k]]
  <2>1. IsFiniteSet(T)
    BY SetAssumption, FS_Subset
  <2>2. \A q \in T : f[q] \in Int
    BY Widths DEF TypeOK
  <2>3. f[p] = y
    OBVIOUS
  <2> HIDE DEF f
  <2>4. SetSum(f, T) = SetSum(f, T \ {p}) + f[p]
    BY <2>1, <2>2, SetSumRemove
  <2> QED BY <2>3, <2>4 DEF PartSum, f
<1>4. PartSum(k, R)' = rest
  BY <1>1, PartSumElsewhere
<1>5. rest \in Int
  BY <1>1, PartSumType
<1>6. x \in Int /\ y = Count(x + n)
  BY Widths DEF TypeOK
<1> HIDE DEF R, x, y, rest
<1>7. x + n \in Int /\ Count(x + n) \in Int
  BY <1>6, CountFacts, Widths
<1>8. Count(Count(x + n) + rest) = Count((x + n) + rest)
  BY <1>5, <1>7, CountFacts
<1>9. Count(x + n) + rest = PartSum(k, T)'
  BY <1>3, <1>4, <1>5, <1>6, <1>7
<1>10. (x + n) + rest = PartSum(k, T) + n
  BY <1>2, <1>5, <1>6
<1> QED BY <1>8, <1>9, <1>10

(* The readers of a rank, when one joins them and when one leaves. *)
LEMMA Joins ==
  ASSUME TypeOK, NEW r \in Reader, read_lock_count(r), NEW k \in 0..1
  PROVE  /\ k # rank[r] => Counted(k)' = Counted(k)
         /\ k = rank[r] => Cardinality(Counted(k)') = Cardinality(Counted(k)) + 1
<1>1. CASE k # rank[r]
  BY <1>1 DEF read_lock_count, Counted, TypeOK
<1>2. CASE k = rank[r]
  <2>1. Counted(k)' = Counted(k) \cup {r} /\ r \notin Counted(k)
    BY <1>2 DEF read_lock_count, Counted, TypeOK
  <2>2. IsFiniteSet(Counted(k))
    BY CountedFinite
  <2>3. Cardinality(Counted(k) \cup {r}) = Cardinality(Counted(k)) + 1
    BY <2>1, <2>2, FS_AddElement
  <2> QED BY <1>2, <2>1, <2>3
<1> QED BY <1>1, <1>2

LEMMA Leaves ==
  ASSUME TypeOK, NEW r \in Reader, NEW p \in CPU, srcu_read_unlock(r, p), NEW k \in 0..1
  PROVE  /\ k # rank[r] => Counted(k)' = Counted(k)
         /\ k = rank[r] => /\ Cardinality(Counted(k)') = Cardinality(Counted(k)) - 1
                           /\ Cardinality(Counted(k)) > 0
<1>1. CASE k # rank[r]
  BY <1>1 DEF srcu_read_unlock, Counted, TypeOK
<1>2. CASE k = rank[r]
  <2>1. Counted(k)' = Counted(k) \ {r} /\ r \in Counted(k)
    BY <1>2 DEF srcu_read_unlock, Counted, TypeOK
  <2>2. IsFiniteSet(Counted(k))
    BY CountedFinite
  <2>3. Cardinality(Counted(k) \ {r}) = Cardinality(Counted(k)) - 1 /\ Cardinality(Counted(k)) > 0
    BY <2>1, <2>2, SmallerSet
  <2> QED BY <1>2, <2>1, <2>3
<1> QED BY <1>1, <1>2

(* Every other step leaves the counters alone, and who is counted. *)
Quiet == UNCHANGED c /\ \A k \in 0..1 : Counted(k)' = Counted(k)

LEMMA QuietSteps ==
  ASSUME TypeOK, [Next]_vars
  PROVE  \/ Quiet
         \/ \E r \in Reader : read_lock_count(r) \/ \E p \in CPU : srcu_read_unlock(r, p)
<1> SUFFICES ASSUME \A r \in Reader : ~read_lock_count(r) /\ \A p \in CPU : ~srcu_read_unlock(r, p)
             PROVE  Quiet
  OBVIOUS
<1> USE DEF Quiet, Counted, rvars, uvars
<1>1. ASSUME NEW r \in Reader, NEW p \in CPU, srcu_read_lock(r, p) PROVE Quiet
  BY <1>1 DEF TypeOK, srcu_read_lock
<1>2. ASSUME NEW r \in Reader, read_lock_idx(r) PROVE Quiet
  BY <1>2 DEF TypeOK, read_lock_idx
<1>3. ASSUME NEW r \in Reader, read_unlock_done(r) PROVE Quiet
  BY <1>3 DEF TypeOK, read_unlock_done
<1>4. ASSUME NEW u \in Updater, synchronize_srcu(u) \/ Synchronize(u) PROVE Quiet
  BY <1>4 DEF synchronize_srcu, Synchronize, sync_early_exit, sync_begin, sync_flip, sync_drain,
              srcu_readers_active_idx, sync_again, sync_drained, sync_end
<1>5. CASE UNCHANGED vars
  BY <1>5 DEF vars
<1> QED BY <1>1, <1>2, <1>3, <1>4, <1>5 DEF Next, Read

(* The counters of a rank add up to its readers. *)
LEMMA SumInvStep == SInv /\ TypeOK' /\ [Next]_vars => SumInv'
<1> SUFFICES ASSUME SInv, TypeOK', [Next]_vars PROVE SumInv'
  OBVIOUS
<1>0. TypeOK
  BY DEF SInv, Basic
<1>1. CASE Quiet
  <2> SUFFICES ASSUME NEW k \in 0..1 PROVE Count(PartSum(k, CPU)') = Cardinality(Counted(k)')
    BY DEF SumInv
  <2>1. Count(PartSum(k, CPU)) = Cardinality(Counted(k))
    BY DEF SInv, SumInv
  <2> QED BY <1>1, <2>1 DEF Quiet, PartSum
<1>2. ASSUME NEW k \in 0..1, NEW n \in Int,
             Count(PartSum(k, CPU)') = Count(PartSum(k, CPU) + n),
             Cardinality(Counted(k)') = Cardinality(Counted(k)) + n
      PROVE  Count(PartSum(k, CPU)') = Cardinality(Counted(k)')
  <2>1. Count(PartSum(k, CPU)) = Cardinality(Counted(k)) /\ PartSum(k, CPU) \in Int
    BY <1>0, PartSumType DEF SInv, SumInv
  <2>2. Count(Count(PartSum(k, CPU)) + n) = Count(PartSum(k, CPU) + n)
    BY <2>1, CountFacts
  <2>3. Cardinality(Counted(k)') \in 0..(2^CountBits - 1)
    <3>1. Counted(k)' \in SUBSET Reader
      BY DEF Counted
    <3>2. /\ Cardinality(Counted(k)') \in Nat /\ Cardinality(Reader) \in Nat
          /\ Cardinality(Counted(k)') <= Cardinality(Reader)
      BY <3>1, SetAssumption, FS_Subset, FS_CardinalityType
    <3> QED BY <3>2, ReadersFit, Widths
  <2>4. Count(Cardinality(Counted(k)')) = Cardinality(Counted(k)')
    BY <2>3, CountFacts
  <2> QED BY <1>2, <2>1, <2>2, <2>4
<1>3. ASSUME NEW r \in Reader, read_lock_count(r) PROVE SumInv'
  <2> SUFFICES ASSUME NEW k \in 0..1 PROVE Count(PartSum(k, CPU)') = Cardinality(Counted(k)')
    BY DEF SumInv
  <2>1. /\ rank[r] \in 0..1 /\ cpu[r] \in CPU /\ 1 \in Int /\ 0 \in Int
        /\ c' = [c EXCEPT ![cpu[r]][rank[r]] = Count(@ + 1)]
    BY <1>3 DEF SInv, Basic, TypeOK, CpuInv, PreemptOff, read_lock_count
  <2>2. /\ k # rank[r] => Counted(k)' = Counted(k)
        /\ k = rank[r] => Cardinality(Counted(k)') = Cardinality(Counted(k)) + 1
    BY <1>0, <1>3, Joins
  <2>3. CASE k = rank[r]
    <3>1. Count(PartSum(k, CPU)') = Count(PartSum(k, CPU) + 1)
      BY <1>0, <2>1, <2>3, PartSumChange
    <3> QED BY <1>2, <2>1, <2>2, <2>3, <3>1
  <2>4. CASE k # rank[r]
    <3>1. PartSum(k, CPU)' = PartSum(k, CPU)
      BY <1>0, <2>1, <2>4, PartSumElsewhere
    <3> QED BY <2>2, <2>4, <3>1 DEF SInv, SumInv
  <2> QED BY <2>3, <2>4
<1>4. ASSUME NEW r \in Reader, NEW p \in CPU, srcu_read_unlock(r, p) PROVE SumInv'
  <2> SUFFICES ASSUME NEW k \in 0..1 PROVE Count(PartSum(k, CPU)') = Cardinality(Counted(k)')
    BY DEF SumInv
  <2>1. rank[r] \in 0..1 /\ 0 - 1 \in Int /\ c' = [c EXCEPT ![p][rank[r]] = Count(@ + (0 - 1))]
    BY <1>0, <1>4, UnlockCounts
  <2>2. /\ k # rank[r] => Counted(k)' = Counted(k)
        /\ k = rank[r] => /\ Cardinality(Counted(k)') = Cardinality(Counted(k)) - 1
                          /\ Cardinality(Counted(k)) > 0
    BY <1>0, <1>4, Leaves
  <2>3. CASE k = rank[r]
    <3>1. Count(PartSum(k, CPU)') = Count(PartSum(k, CPU) + (0 - 1))
      BY <1>0, <2>1, <2>3, PartSumChange
    <3>2. Cardinality(Counted(k)') = Cardinality(Counted(k)) + (0 - 1)
      BY <2>2, <2>3, CountedFinite
    <3> QED BY <1>2, <2>1, <3>1, <3>2
  <2>4. CASE k # rank[r]
    <3>1. PartSum(k, CPU)' = PartSum(k, CPU)
      BY <1>0, <2>1, <2>4, PartSumElsewhere
    <3> QED BY <2>2, <2>4, <3>1 DEF SInv, SumInv
  <2> QED BY <2>3, <2>4
<1> QED BY <1>0, <1>1, <1>3, <1>4, QuietSteps

(* A scan that nobody disturbs, one that begins, and one that goes on. *)
LEMMA ScanSame ==
  ASSUME ScanInv, NEW u \in Updater, pc'[u] = "scan" => pc[u] = "scan",
         sum'[u] = sum[u], idx'[u] = idx[u], todo'[u] = todo[u],
         NEW k \in 0..1, idx[u] = k, Counted(k)' = Counted(k),
         NEW T \in SUBSET CPU, todo[u] = T, PartSum(k, T)' = PartSum(k, T)
  PROVE  ScanOK(u)'
<1> SUFFICES ASSUME pc'[u] = "scan" PROVE ScanOK(u)'
  BY DEF ScanOK
<1> DEFINE n == Cardinality(Counted(k))
           total == sum[u] + PartSum(k, T)
<1>1. PICK gone \in Nat : gone + n <= Cardinality(Reader) /\ Count(total) = Count(gone + n)
  BY DEF ScanInv, ScanOK
<1>2. Counted(idx[u])' = Counted(k)'
  BY DEF Counted
<1>3. PartSum(idx[u], todo[u])' = PartSum(k, T)'
  BY DEF PartSum
<1> QED BY <1>1, <1>2, <1>3 DEF ScanOK

LEMMA ScanBegins ==
  ASSUME TypeOK, SumInv, NEW u \in Updater, idx'[u] \in 0..1, begin_scan(u), Quiet
  PROVE  ScanOK(u)'
<1> DEFINE k == idx'[u]
           n == Cardinality(Counted(k))
<1>1. sum'[u] = 0 /\ todo'[u] = CPU
  BY DEF begin_scan, TypeOK
<1>2. Count(PartSum(k, CPU)) = n /\ PartSum(k, CPU) \in Int
  BY PartSumType DEF SumInv
<1>3. Cardinality(Counted(idx[u]))' = n
  BY DEF Quiet
<1>4. PartSum(idx[u], todo[u])' = PartSum(k, CPU)
  BY <1>1 DEF Quiet, PartSum
<1>5. n \in Nat /\ n <= Cardinality(Reader) /\ n \in 0..(2^CountBits - 1)
  BY CountedFinite, ReadersFit, Widths
<1>6. Count(n) = n
  BY <1>5, CountFacts
<1> HIDE DEF k, n
<1>7. (sum[u] + PartSum(idx[u], todo[u]))' = PartSum(k, CPU)
  BY <1>1, <1>2, <1>4
<1>8. 0 \in Nat /\ 0 + n = n
  BY <1>5
<1>9. /\ 0 + Cardinality(Counted(idx[u]))' <= Cardinality(Reader)
      /\ Count(sum[u] + PartSum(idx[u], todo[u]))' = Count(0 + Cardinality(Counted(idx[u])))'
  BY <1>2, <1>3, <1>5, <1>6, <1>7, <1>8
<1> QED BY <1>8, <1>9 DEF ScanOK

LEMMA ScanGoesOn ==
  ASSUME TypeOK, ScanInv, NEW u \in Updater, NEW p \in CPU, idx[u] \in 0..1,
         srcu_readers_active_idx(u, p)
  PROVE  ScanOK(u)'
<1> DEFINE k == idx[u]
           n == Cardinality(Counted(k))
           R == todo[u] \ {p}
           x == c[p][k]
           rest == PartSum(k, R)
<1>1. PICK gone \in Nat :
        gone + n <= Cardinality(Reader) /\ Count(sum[u] + PartSum(k, todo[u])) = Count(gone + n)
  BY DEF ScanInv, ScanOK, srcu_readers_active_idx
<1>2. /\ p \in todo[u] /\ todo[u] \in SUBSET CPU /\ R \in SUBSET CPU
      /\ sum'[u] = Count(sum[u] + x) /\ todo'[u] = R
      /\ UNCHANGED <<c, rpc, rank, idx>>
  BY DEF srcu_readers_active_idx, TypeOK, rvars
<1>3. PartSum(k, todo[u]) = rest + x
  BY <1>2, PartSumRemove
<1>4. x \in Int /\ sum[u] \in Int /\ sum[u] + x \in Int
  BY Widths DEF TypeOK
<1>5. rest \in Int
  BY <1>2, PartSumType
<1>6. PartSum(idx[u], todo[u])' = rest
  BY <1>2 DEF PartSum
<1>7. Cardinality(Counted(idx[u]))' = n
  BY <1>2 DEF Counted
<1> HIDE DEF k, n, R, x, rest
<1>8. Count(Count(sum[u] + x) + rest) = Count((sum[u] + x) + rest)
  BY <1>4, <1>5, CountFacts
<1>9. (sum[u] + x) + rest = sum[u] + PartSum(k, todo[u])
  BY <1>3, <1>4, <1>5
<1>10. (sum[u] + PartSum(idx[u], todo[u]))' = Count(sum[u] + x) + rest
  BY <1>2, <1>6
<1>11. /\ gone + Cardinality(Counted(idx[u]))' <= Cardinality(Reader)
       /\ Count(sum[u] + PartSum(idx[u], todo[u]))' = Count(gone + Cardinality(Counted(idx[u])))'
  BY <1>1, <1>7, <1>8, <1>9, <1>10
<1> QED BY <1>11 DEF ScanOK

(* A reader that leaves during a scan: if its counter is still to be read, *)
(* the scan notices, and if not it will take it for one that is left.      *)
LEMMA ScanLeft ==
  ASSUME TypeOK, TypeOK', ScanInv, NEW u \in Updater,
         NEW k \in 0..1, idx[u] = k, NEW T \in SUBSET CPU, todo[u] = T,
         NEW r \in Reader, NEW p \in CPU, srcu_read_unlock(r, p)
  PROVE  ScanOK(u)'
<1> SUFFICES ASSUME pc'[u] = "scan" PROVE ScanOK(u)'
  BY DEF ScanOK
<1> DEFINE n == Cardinality(Counted(k))
           total == sum[u] + PartSum(k, T)
<1>1. UNCHANGED <<pc, sum, todo, idx>>
  BY DEF srcu_read_unlock, uvars
<1>2. PICK gone \in Nat : gone + n <= Cardinality(Reader) /\ Count(total) = Count(gone + n)
  BY <1>1 DEF ScanInv, ScanOK
<1>3. rank[r] \in 0..1 /\ 0 - 1 \in Int /\ c' = [c EXCEPT ![p][rank[r]] = Count(@ + (0 - 1))]
  BY UnlockCounts
<1>4. sum[u] \in Int
  BY Widths DEF TypeOK
<1>5. PartSum(k, T) \in Int
  BY <1>4, PartSumType
<1>6. n \in Nat
  BY CountedFinite
<1>8. ASSUME NEW left \in Nat, NEW m \in Nat, NEW s \in Int,
             Cardinality(Counted(k)') = m, PartSum(k, T)' = s,
             left + m <= Cardinality(Reader), Count(sum[u] + s) = Count(left + m)
      PROVE  ScanOK(u)'
  <2>1. idx'[u] = k /\ todo'[u] = T /\ sum'[u] = sum[u]
    BY <1>1
  <2>2. Cardinality(Counted(idx[u]))' = m
    BY <1>8, <2>1 DEF Counted
  <2>3. PartSum(idx[u], todo[u])' = s
    BY <1>8, <2>1 DEF PartSum
  <2>4. /\ left + Cardinality(Counted(idx[u]))' <= Cardinality(Reader)
        /\ Count(sum[u] + PartSum(idx[u], todo[u]))' = Count(left + Cardinality(Counted(idx[u])))'
    BY <1>8, <2>1, <2>2, <2>3
  <2> QED BY <2>4 DEF ScanOK
<1>9. /\ k # rank[r] => Counted(k)' = Counted(k)
      /\ k = rank[r] => Cardinality(Counted(k)') = n - 1 /\ n > 0
  BY Leaves
<1>10. CASE k # rank[r]
  <2>1. PartSum(k, T)' = PartSum(k, T)
    BY <1>3, <1>4, <1>10, PartSumElsewhere
  <2>2. Cardinality(Counted(k)') = n
    BY <1>9, <1>10
  <2> HIDE DEF n
  <2> QED BY <1>2, <1>5, <1>6, <1>8, <2>1, <2>2
<1>11. CASE k = rank[r] /\ p \notin T
  <2>1. PartSum(k, T)' = PartSum(k, T)
    BY <1>3, <1>4, <1>11, PartSumElsewhere
  <2>2. Cardinality(Counted(k)') = n - 1 /\ n > 0
    BY <1>9, <1>11
  <2> HIDE DEF n
  <2>3. gone + 1 \in Nat /\ n - 1 \in Nat /\ (gone + 1) + (n - 1) = gone + n
    BY <1>6, <2>2
  <2> QED BY <1>2, <1>5, <1>8, <2>1, <2>2, <2>3
<1>12. CASE k = rank[r] /\ p \in T
  <2>1. Count(PartSum(k, T)') = Count(PartSum(k, T) + (0 - 1))
    BY <1>3, <1>4, <1>12, PartSumChange
  <2>2. Cardinality(Counted(k)') = n - 1 /\ n > 0
    BY <1>9, <1>12
  <2>3. PartSum(k, T)' \in Int
    <3> DEFINE f == [q \in CPU |-> c'[q][k]]
    <3>1. IsFiniteSet(T) /\ \A q \in T : f[q] \in Int
      BY SetAssumption, FS_Subset, Widths DEF TypeOK
    <3> HIDE DEF f
    <3>2. SetSum(f, T) \in Int
      BY <3>1, SetSumType
    <3> QED BY <3>2 DEF PartSum, f
  <2> DEFINE s == PartSum(k, T)'
             t == PartSum(k, T)
  <2> HIDE DEF n, s, t
  <2>4. gone \in Nat /\ n - 1 \in Nat /\ gone + (n - 1) <= Cardinality(Reader)
    BY <1>2, <1>6, <2>2, CountedFinite
  <2>5. s \in Int /\ t \in Int /\ sum[u] \in Int /\ t + (0 - 1) \in Int /\ Count(s) = Count(t + (0 - 1))
    BY <1>4, <1>5, <2>1, <2>3 DEF s, t
  <2>6. Count(sum[u] + s) = Count(sum[u] + (t + (0 - 1)))
    <3>1. Count(Count(s) + sum[u]) = Count(s + sum[u])
      BY <2>5, CountFacts
    <3>2. Count(Count(t + (0 - 1)) + sum[u]) = Count((t + (0 - 1)) + sum[u])
      BY <2>5, CountFacts
    <3>3. s + sum[u] = sum[u] + s /\ (t + (0 - 1)) + sum[u] = sum[u] + (t + (0 - 1))
      BY <2>5
    <3> QED BY <2>5, <3>1, <3>2, <3>3
  <2>7. Count((sum[u] + t) + (0 - 1)) = Count((gone + n) + (0 - 1))
    <3>1. sum[u] + t \in Int /\ gone + n \in Int /\ 0 - 1 \in Int
      BY <1>6, <2>5
    <3>2. Count(Count(sum[u] + t) + (0 - 1)) = Count((sum[u] + t) + (0 - 1))
      BY <3>1, CountFacts
    <3>3. Count(Count(gone + n) + (0 - 1)) = Count((gone + n) + (0 - 1))
      BY <3>1, CountFacts
    <3>4. Count(sum[u] + t) = Count(gone + n)
      BY <1>2 DEF t
    <3> QED BY <3>2, <3>3, <3>4
  <2>8. /\ sum[u] + (t + (0 - 1)) = (sum[u] + t) + (0 - 1)
        /\ gone + (n - 1) = (gone + n) + (0 - 1)
    BY <1>6, <2>5
  <2>9. Count(sum[u] + s) = Count(gone + (n - 1))
    BY <2>6, <2>7, <2>8
  <2> QED BY <1>8, <2>2, <2>4, <2>5, <2>9 DEF s
<1> QED BY <1>10, <1>11, <1>12

LEMMA ScanStep == SInv /\ Basic' /\ [Next]_vars => ScanInv'
<1> SUFFICES ASSUME SInv, Basic', [Next]_vars, NEW u \in Updater, pc'[u] = "scan"
             PROVE  ScanOK(u)'
  BY DEF ScanInv, ScanOK
<1>0. TypeOK /\ TypeOK' /\ ScanInv /\ SumInv
  BY DEF SInv, Basic
<1>1. completed % 2 \in 0..1 /\ completed' % 2 \in 0..1
  BY <1>0, Flip DEF TypeOK
<1>2. idx'[u] \in 0..1
  BY <1>1 DEF Basic, IdxInv
<1>3. ASSUME pc[u] = "scan", Quiet, UNCHANGED <<sum[u], idx[u], todo[u]>> PROVE ScanOK(u)'
  <2>1. PICK k \in 0..1, T \in SUBSET CPU : k = idx[u] /\ T = todo[u]
    BY <1>0, <1>2, <1>3 DEF TypeOK
  <2>2. PartSum(k, T)' = PartSum(k, T) /\ Counted(k)' = Counted(k)
    BY <1>3 DEF Quiet, PartSum
  <2> QED BY <1>0, <1>3, <2>1, <2>2, ScanSame
<1>4. ASSUME NEW r \in Reader, read_lock_count(r) PROVE ScanOK(u)'
  <2>1. UNCHANGED <<pc, sum, idx, todo>>
    BY <1>4 DEF read_lock_count, uvars
  <2>2. PICK k \in 0..1, T \in SUBSET CPU : k = idx[u] /\ T = todo[u]
    BY <1>0, <1>2, <2>1 DEF TypeOK
  <2>3. rank[r] # k
    BY <1>4, <2>1, <2>2 DEF SInv, RankInv, read_lock_count
  <2>4. /\ rank[r] \in 0..1 /\ cpu[r] \in CPU /\ 1 \in Int
        /\ c' = [c EXCEPT ![cpu[r]][rank[r]] = Count(@ + 1)]
    BY <1>4 DEF SInv, Basic, TypeOK, CpuInv, PreemptOff, read_lock_count
  <2>5. Counted(k)' = Counted(k)
    BY <1>0, <1>4, <2>3, Joins
  <2>6. PartSum(k, T)' = PartSum(k, T)
    BY <1>0, <2>3, <2>4, PartSumElsewhere
  <2> QED BY <1>0, <2>1, <2>2, <2>5, <2>6, ScanSame
<1>5. ASSUME NEW r \in Reader, NEW p \in CPU, srcu_read_unlock(r, p) PROVE ScanOK(u)'
  <2>1. idx' = idx
    BY <1>5 DEF srcu_read_unlock, uvars
  <2>2. PICK k \in 0..1, T \in SUBSET CPU : k = idx[u] /\ T = todo[u]
    BY <1>0, <1>2, <2>1 DEF TypeOK
  <2> QED BY <1>0, <1>5, <2>2, ScanLeft
<1>6. CASE Quiet
  <2> USE DEF rvars, uvars
  <2>1. ASSUME NEW r \in Reader, Read(r) \/ \E p \in CPU : srcu_read_lock(r, p) PROVE ScanOK(u)'
    <3>1. CASE read_lock_count(r) \/ \E p \in CPU : srcu_read_unlock(r, p)
      BY <1>4, <1>5, <3>1
    <3>2. CASE read_lock_idx(r) \/ read_unlock_done(r) \/ \E p \in CPU : srcu_read_lock(r, p)
      <4>1. UNCHANGED <<pc, sum, idx, todo>>
        BY <3>2 DEF read_lock_idx, read_unlock_done, srcu_read_lock
      <4> QED BY <1>3, <1>6, <4>1
    <3> QED BY <2>1, <3>1, <3>2 DEF Read
  <2>2. CASE sync_drain(u) \/ sync_again(u)
    BY <1>0, <1>2, <1>6, <2>2, ScanBegins DEF sync_drain, sync_again
  <2>3. ASSUME NEW p \in CPU, srcu_readers_active_idx(u, p) PROVE ScanOK(u)'
    <3>1. idx[u] \in 0..1
      BY <1>2, <2>3 DEF srcu_readers_active_idx
    <3> QED BY <1>0, <2>3, <3>1, ScanGoesOn
  <2>4. ~(synchronize_srcu(u) \/ sync_early_exit(u) \/ sync_begin(u) \/ sync_flip(u)
          \/ sync_drained(u) \/ sync_end(u))
    BY <1>0 DEF TypeOK, synchronize_srcu, sync_early_exit, sync_return, sync_begin, sync_flip,
                sync_func, sync_drained, sync_end
  <2>5. ASSUME NEW v \in Updater, v # u, synchronize_srcu(v) \/ Synchronize(v) PROVE ScanOK(u)'
    <3>1. pc[u] = "scan" /\ UNCHANGED <<sum[u], idx[u], todo[u]>>
      BY <1>0, <2>5 DEF TypeOK, synchronize_srcu, Synchronize, sync_early_exit, sync_begin, sync_flip,
           sync_drain, srcu_readers_active_idx, sync_again, sync_drained, sync_end, sync_return,
           sync_func, begin_scan
    <3> QED BY <1>3, <1>6, <3>1
  <2>6. CASE UNCHANGED vars
    <3>1. UNCHANGED <<pc, sum, idx, todo>>
      BY <2>6 DEF vars
    <3> QED BY <1>3, <1>6, <3>1
  <2> QED BY <2>1, <2>2, <2>3, <2>4, <2>5, <2>6 DEF Next, Synchronize
<1> QED BY <1>0, <1>4, <1>5, <1>6, QuietSteps

----------------------------------------------------------------------------
(* The sum that SumExact speaks of is the one of the lemmas. *)
LEMMA SameSum ==
  ASSUME NEW k
  PROVE  MapThenSumSet(LAMBDA p : c[p][k], CPU) = PartSum(k, CPU)
<1> DEFINE f == [p \in CPU |-> c[p][k]]
           P(g) == g = [s \in SUBSET CPU |-> IF s = {} THEN 0 ELSE c[Pick(s)][k] + g[s \ {Pick(s)}]]
           h == CHOOSE g : P(g)
<1>1. MapThenSumSet(LAMBDA p : c[p][k], CPU) = h[CPU]
  BY DEF MapThenSumSet, MapThenFoldSet, Pick
<1>2. ASSUME NEW g PROVE P(g) <=> IsSum(g, f, CPU)
  <2>1. \A s \in SUBSET CPU : s # {} => f[Pick(s)] = c[Pick(s)][k]
    BY PickIn
  <2> HIDE DEF f
  <2> QED BY <2>1 DEF IsSum
<1> HIDE DEF f
<1>3. \E g : IsSum(g, f, CPU)
  BY SetAssumption, SumExists
<1>4. P(h)
  <2>1. \E g : P(g)
    <3> HIDE DEF P
    <3> QED BY <1>2, <1>3
  <2> HIDE DEF P
  <2> QED BY <2>1
<1>5. IsSum(h, f, CPU)
  <2> HIDE DEF h, P
  <2> QED BY <1>2, <1>4
<1>6. PICK g : IsSum(g, f, CPU) /\ SetSum(f, CPU) = g[CPU]
  BY SetAssumption, SetSumIsSum
<1> HIDE DEF h, P
<1>7. h[CPU] = g[CPU]
  BY <1>5, <1>6, SetAssumption, SumAgree
<1> QED BY <1>1, <1>6, <1>7 DEF PartSum, f

LEMMA SInvInit == Init => SInv
<1> SUFFICES ASSUME Init PROVE SInv
  OBVIOUS
<1>1. Basic
  BY BasicInit
<1>2. RankInv /\ BeforeInv /\ ScanInv
  BY DEF Init, RankInv, BeforeInv, OnTheWayOut, ScanInv, ScanOK
<1>3. ASSUME NEW k \in 0..1 PROVE Count(PartSum(k, CPU)) = Cardinality(Counted(k))
  <2> DEFINE f == [p \in CPU |-> c[p][k]]
  <2>1. \A T \in SUBSET CPU : IsFiniteSet(T) /\ \A q \in T : f[q] = 0
    BY SetAssumption, FS_Subset DEF Init
  <2> HIDE DEF f
  <2>2. SetSum(f, CPU) = 0
    <3>1. PICK g : IsSum(g, f, CPU) /\ SetSum(f, CPU) = g[CPU]
      BY SetAssumption, SetSumIsSum
    <3> QED BY <2>1, <3>1, SumZero, SetAssumption
  <2>3. Count(0) = 0
    BY CountFacts, Widths
  <2>4. Counted(k) = {}
    BY DEF Init, Counted
  <2> QED BY <2>2, <2>3, <2>4, FS_EmptySet DEF PartSum, f
<1> QED BY <1>1, <1>2, <1>3 DEF SInv, SumInv

LEMMA SInvStep == SInv /\ [Next]_vars => SInv'
<1> SUFFICES ASSUME SInv, [Next]_vars PROVE SInv'
  OBVIOUS
<1>1. Basic'
  BY BasicStep DEF SInv
<1>2. TypeOK'
  BY <1>1 DEF Basic
<1> QED BY <1>1, <1>2, RankStep, BeforeStep, SumInvStep, ScanStep DEF SInv

(* The inductive invariant holds of the program. *)
THEOREM SrcuInvariant == Spec => []SInv
BY SInvInit, SInvStep, PTL DEF Spec

(* The counters of a rank, which single CPUs may have wrapped round either *)
(* way, always add up to the readers of the rank.                          *)
THEOREM SrcuSumExact == Spec => []SumExact
<1>1. SInv => SumExact
  BY SameSum DEF SInv, Basic, SumInv, SumExact
<1> QED BY <1>1, SrcuInvariant, PTL

(* While nobody synchronizes, the rank that is not current is empty. *)
THEOREM SrcuOldRankEmpty == Spec => []OldRankEmpty
<1>1. SInv => OldRankEmpty
  BY NameAssumption DEF SInv, Basic, OwnerInv, RankInv, BeforeFlip, OldRankEmpty
<1> QED BY <1>1, SrcuInvariant, PTL

(* The grace period: no call of synchronize_srcu() returns, from its early *)
(* exit or from its end, before every reader that was inside when it was   *)
(* called has left.                                                        *)
THEOREM SrcuGracePeriod == Spec => GracePeriod
<1> DEFINE Step == \A u \in Updater : pc[u] # "idle" /\ pc'[u] = "idle" => before[u] = {}
<1>1. SInv /\ [Next]_vars => Step
  <2> SUFFICES ASSUME SInv, [Next]_vars, NEW u \in Updater, pc[u] # "idle", pc'[u] = "idle"
               PROVE  before[u] = {}
    OBVIOUS
  <2>1. TypeOK
    BY DEF SInv, Basic
  <2>2. sync_early_exit(u) \/ sync_end(u)
    BY <2>1 DEF Next, Read, Synchronize, vars, rvars, uvars, TypeOK, srcu_read_lock, read_lock_idx,
         read_lock_count, srcu_read_unlock, read_unlock_done, synchronize_srcu, sync_early_exit,
         sync_begin, sync_flip, sync_drain, srcu_readers_active_idx, sync_again, sync_drained,
         sync_end, sync_return, sync_func, begin_scan
  <2>3. CASE sync_early_exit(u)
    <3>1. pc[u] = "lock" /\ Signed(completed - idx[u]) >= 2 /\ BeforeFlip
      BY <2>3, NameAssumption
      DEF sync_early_exit, others_did_the_work, BeforeFlip, SInv, Basic, OwnerInv
    <3>2. Advances(u) \in 0..(2^CompletedBits - 1) /\ Advances(u) >= 2
      BY <2>1, <3>1, OneMore DEF TypeOK, Advances
    <3>3. Advances(u) = 2 \/ Advances(u) \notin 0..2
      BY <3>2, Widths
    <3> QED BY <3>1, <3>3 DEF SInv, BeforeInv
  <2>4. CASE sync_end(u)
    BY <2>1, <2>4 DEF TypeOK, sync_end, sync_func_done, SInv, BeforeInv, OnTheWayOut
  <2> QED BY <2>2, <2>3, <2>4
<1> QED BY <1>1, SrcuInvariant, PTL DEF Spec, GracePeriod

(* New readers cannot keep a grace period from ending: nobody joins the    *)
(* readers of the rank that an updater adds up.                            *)
THEOREM SrcuNobodyJoins == Spec => NobodyJoins
<1> DEFINE Step == \A u \in Updater, k \in 0..1 :
                     pc[u] = "scan" /\ idx[u] = k => Counted(k)' \subseteq Counted(k)
<1>1. SInv /\ [Next]_vars => Step
  <2> SUFFICES ASSUME SInv, [Next]_vars, NEW u \in Updater, NEW k \in 0..1,
                      pc[u] = "scan", idx[u] = k
               PROVE  Counted(k)' \subseteq Counted(k)
    OBVIOUS
  <2>1. TypeOK
    BY DEF SInv, Basic
  <2>2. ASSUME NEW r \in Reader, read_lock_count(r) PROVE Counted(k)' \subseteq Counted(k)
    BY <2>1, <2>2 DEF TypeOK, read_lock_count, Counted, SInv, RankInv
  <2>3. ASSUME NEW r \in Reader, NEW p \in CPU, srcu_read_unlock(r, p)
        PROVE  Counted(k)' \subseteq Counted(k)
    BY <2>1, <2>3 DEF TypeOK, srcu_read_unlock, Counted
  <2> QED BY <2>1, <2>2, <2>3, QuietSteps DEF Quiet
<1> QED BY <1>1, SrcuInvariant, PTL DEF Spec, NobodyJoins

=============================================================================
