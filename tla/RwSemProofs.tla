---------------------------- MODULE RwSemProofs ----------------------------
(***************************************************************************)
(* Proofs about the reader/writer semaphore, for every finite set of       *)
(* tasks.  Exclusion is not inductive by itself: __up_read() hands the     *)
(* semaphore to the first waiter as to a writer without looking, which is  *)
(* right only because of WriterAtHead, and the number of readers that      *)
(* __rwsem_do_wake() wakes is the number it adds to activity only because  *)
(* nobody is on the list twice.                                            *)
(***************************************************************************)
EXTENDS RwSem, LibProofs

(* The inductive invariant. *)
RInv == Exclusion /\ WriterAtHead /\ OnceEach(wait_list)

USE DEF Locations, Kinds, READ, WRITE, TASK_RUNNING, TASK_UNINTERRUPTIBLE

(* The holders are finitely many. *)
LEMMA HoldersFinite ==
  /\ IsFiniteSet(ReadHolders) /\ Cardinality(ReadHolders) \in 0..Cardinality(Task)
  /\ IsFiniteSet(WriteHolders) /\ Cardinality(WriteHolders) \in Nat
  /\ Cardinality(Task) \in Nat
<1>1. ReadHolders \in SUBSET Task /\ WriteHolders \in SUBSET Task
  BY DEF ReadHolders, WriteHolders
<1>2. /\ IsFiniteSet(ReadHolders) /\ Cardinality(ReadHolders) <= Cardinality(Task)
      /\ IsFiniteSet(WriteHolders)
  BY <1>1, TaskAssumption, FS_Subset
<1> QED BY <1>2, TaskAssumption, FS_CardinalityType

(* Writing mode: one task writes and nobody reads.                         *)
LEMMA WritingMode ==
  ASSUME Exclusion, NEW t \in Task, Holds(t, WRITE)
  PROVE  WriteHolders = {t} /\ ReadHolders = {} /\ activity = -1
<1>1. t \in WriteHolders
  BY DEF WriteHolders
<1>2. ReadHolders = {} /\ Cardinality(WriteHolders) = 1 /\ activity = -1
  BY <1>1 DEF Exclusion
<1>3. PICK x : WriteHolders = {x}
  BY <1>2, HoldersFinite, FS_Singleton
<1> QED BY <1>1, <1>2, <1>3

(* Reading mode: somebody reads, and activity says how many.               *)
LEMMA ReadingMode ==
  ASSUME Exclusion, NEW t \in Task, Holds(t, READ)
  PROVE  /\ WriteHolders = {} /\ activity = Cardinality(ReadHolders) /\ activity > 0
         /\ activity = 1 => ReadHolders = {t}
<1>1. t \in ReadHolders
  BY DEF ReadHolders
<1>2. WriteHolders = {} /\ activity = Cardinality(ReadHolders)
  BY <1>1 DEF Exclusion
<1>3. activity # 0
  BY <1>1, <1>2, HoldersFinite, FS_EmptySet
<1>4. activity = 1 => \E x : ReadHolders = {x}
  BY <1>2, HoldersFinite, FS_Singleton
<1> QED BY <1>1, <1>2, <1>3, <1>4, HoldersFinite

(* The count and the lists of holders after a step, put together to        *)
(* Exclusion': it is enough to know which of the two modes the step ends   *)
(* in, and that a semaphore it leaves free has no waiters.                 *)
LEMMA ExclusionFrom ==
  ASSUME TypeOK', GrantIsSeen',
         \/ WriteHolders' = {} /\ activity' = Cardinality(ReadHolders')
         \/ (\E w : WriteHolders' = {w}) /\ ReadHolders' = {} /\ activity' = -1,
         activity' = 0 => wait_list' = <<>>
  PROVE  Exclusion'
<1>1. CASE WriteHolders' = {} /\ activity' = Cardinality(ReadHolders')
  BY <1>1 DEF Exclusion
<1>2. CASE (\E w : WriteHolders' = {w}) /\ ReadHolders' = {} /\ activity' = -1
  <2>1. WriteHolders' # {} /\ Cardinality(WriteHolders') = 1
    BY <1>2, FS_Singleton
  <2> QED BY <1>2, <2>1 DEF Exclusion
<1> QED BY <1>1, <1>2

----------------------------------------------------------------------------
(* A caller that finds the semaphore free for it. *)
LEMMA TakeStep ==
  ASSUME RInv, NEW t \in Task, NEW k \in Kinds, pc[t] = "out", take(t, k)
  PROVE  RInv'
<1>1. /\ wait_list = <<>> /\ wait_list' = <<>> /\ activity >= 0
      /\ k = WRITE => activity = 0
      /\ activity' = IF k = READ THEN activity + 1 ELSE -1
      /\ flags' = [flags EXCEPT ![t] = k] /\ pc' = [pc EXCEPT ![t] = "in"]
      /\ granted' = granted /\ waking' = waking /\ state' = state
  BY DEF take, uncontended
<1>2. ~granted[t] /\ TypeOK /\ GrantIsSeen
  BY DEF RInv, Exclusion, GrantIsSeen
<1>3. WriteHolders = {} /\ activity = Cardinality(ReadHolders)
  BY <1>1, <1>2 DEF RInv, Exclusion
<1>4. t \notin ReadHolders
  BY <1>2 DEF ReadHolders, Holds
<1>5. GrantIsSeen'
  BY <1>1, <1>2 DEF TypeOK, GrantIsSeen, OnList
<1>6. CASE k = READ
  <2>1. ReadHolders' = ReadHolders \cup {t} /\ WriteHolders' = {}
    BY <1>1, <1>2, <1>3, <1>6 DEF ReadHolders, WriteHolders, Holds, TypeOK
  <2>2. activity' = Cardinality(ReadHolders')
    BY <1>1, <1>3, <1>4, <1>6, <2>1, HoldersFinite, FS_AddElement
  <2>3. ReadHolders' \in SUBSET Task
    BY DEF ReadHolders
  <2>4. activity' \in 0..Cardinality(Task)
    BY <2>2, <2>3, TaskAssumption, FS_Subset, FS_CardinalityType
  <2>5. TypeOK'
    BY <1>1, <1>2, <2>4, HoldersFinite DEF TypeOK
  <2>6. Exclusion'
    BY <1>1, <1>5, <2>1, <2>2, <2>5, ExclusionFrom
  <2> QED BY <1>1, <2>6 DEF RInv, WriterAtHead
<1>7. CASE k = WRITE
  <2>1. ReadHolders = {}
    BY <1>1, <1>3, <1>7, HoldersFinite, FS_EmptySet
  <2>2. ReadHolders' = {} /\ WriteHolders' = {t}
    BY <1>1, <1>2, <1>3, <1>7, <2>1 DEF ReadHolders, WriteHolders, Holds, TypeOK
  <2>3. TypeOK'
    BY <1>1, <1>2, <1>7, HoldersFinite DEF TypeOK
  <2>4. Exclusion'
    BY <1>1, <1>5, <1>7, <2>2, <2>3, ExclusionFrom
  <2> QED BY <1>1, <2>4 DEF RInv, WriterAtHead
<1> QED BY <1>6, <1>7

(* A caller that has to wait goes to the tail: whoever was first stays     *)
(* first, and if it is the first itself the semaphore is held by a writer, *)
(* or by readers and it is a writer.                                       *)
LEMMA QueueUpStep ==
  ASSUME RInv, NEW t \in Task, NEW k \in Kinds, pc[t] = "out", queue_up(t, k)
  PROVE  RInv'
<1>1. /\ state' = [state EXCEPT ![t] = TASK_UNINTERRUPTIBLE]
      /\ flags' = [flags EXCEPT ![t] = k] /\ pc' = [pc EXCEPT ![t] = "check"]
      /\ wait_list' = list_add_tail(wait_list, t)
      /\ activity' = activity /\ granted' = granted /\ waking' = waking
      /\ ~uncontended(k)
  BY DEF queue_up
<1>2. TypeOK /\ GrantIsSeen /\ OnceEach(wait_list) /\ ~granted[t] /\ ~OnList(wait_list, t)
  BY DEF RInv, Exclusion, GrantIsSeen
<1>3. /\ wait_list' \in Seq(Task) /\ OnList(wait_list', t) /\ OnceEach(wait_list')
      /\ \A u : u # t => (OnList(wait_list', u) <=> OnList(wait_list, u))
  BY <1>1, <1>2, ListAddTail DEF TypeOK
<1>4. TypeOK'
  BY <1>1, <1>2, <1>3 DEF TypeOK
<1>5. GrantIsSeen'
  BY <1>1, <1>2, <1>3 DEF TypeOK, GrantIsSeen
<1>6. ReadHolders' = ReadHolders /\ WriteHolders' = WriteHolders
  BY <1>1, <1>2 DEF ReadHolders, WriteHolders, Holds, TypeOK
<1>7. activity # 0
  BY <1>1 DEF RInv, Exclusion, uncontended
<1>8. Exclusion'
  BY <1>1, <1>4, <1>5, <1>6, <1>7 DEF RInv, Exclusion
<1>9. WriterAtHead'
  <2>1. CASE wait_list = <<>>
    <3>1. wait_list' = <<t>>
      BY <1>1, <2>1 DEF list_add_tail
    <3>2. activity > 0 => k = WRITE
      BY <1>1, <1>2, <2>1 DEF uncontended, TypeOK
    <3> QED BY <1>1, <1>2, <3>1, <3>2 DEF WriterAtHead, TypeOK
  <2>2. CASE wait_list # <<>>
    <3>1. wait_list \in Seq(Task) /\ Len(wait_list) > 0 /\ Head(wait_list) = wait_list[1]
      BY <1>2, <2>2 DEF TypeOK
    <3>2. Head(wait_list') = Head(wait_list)
      BY <1>1, <3>1 DEF list_add_tail
    <3>3. OnList(wait_list, Head(wait_list)) /\ Head(wait_list) \in Task
      BY <3>1 DEF OnList
    <3>4. flags'[Head(wait_list)] = flags[Head(wait_list)]
      BY <1>1, <1>2, <3>3 DEF TypeOK
    <3> QED BY <1>1, <2>2, <3>2, <3>4 DEF WriterAtHead, RInv
  <2> QED BY <2>1, <2>2
<1> QED BY <1>3, <1>8, <1>9 DEF RInv

LEMMA DownStep ==
  ASSUME RInv, NEW t \in Task, NEW k \in Kinds, down_with(t, k) \/ trylock(t, k)
  PROVE  RInv'
BY TakeStep, QueueUpStep DEF down_with, trylock

(* The steps that only change where a task is in its wait, or its state.   *)
LEMMA WaitStep ==
  ASSUME RInv, NEW t \in Task,
         wait_check(t) \/ wait_resume(t) \/ wake_up_process(t) \/ stray_wake_up(t)
  PROVE  RInv'
<1>1. /\ activity' = activity /\ wait_list' = wait_list /\ flags' = flags
      /\ TypeOK /\ GrantIsSeen
  BY DEF wait_check, wait_resume, wake_up_process, stray_wake_up, RInv, Exclusion
<1>2. TypeOK'
  BY <1>1 DEF wait_check, wait_resume, wake_up_process, stray_wake_up, TypeOK
<1>3. GrantIsSeen'
  BY <1>1 DEF wait_check, wait_resume, wake_up_process, stray_wake_up, TypeOK, GrantIsSeen
<1>4. \A u \in Task : pc'[u] = "in" \/ granted'[u] <=> pc[u] = "in" \/ granted[u]
  BY <1>1 DEF wait_check, wait_resume, wake_up_process, stray_wake_up, TypeOK
<1>5. ReadHolders' = ReadHolders /\ WriteHolders' = WriteHolders
  BY <1>1, <1>4 DEF ReadHolders, WriteHolders, Holds
<1> QED BY <1>1, <1>2, <1>3, <1>5 DEF RInv, Exclusion, WriterAtHead

----------------------------------------------------------------------------
(* The first n waiters, who are n, are granted the semaphore: they leave   *)
(* the list, and each of them will notice.  The releaser t is none of them.*)
LEMMA GrantStep ==
  ASSUME RInv, waking = {}, NEW t \in Task, pc[t] = "in",
         NEW n \in 0..Len(wait_list), NEW a, grant(n, a),
         pc' = pc \/ pc' = [pc EXCEPT ![t] = "out"], state' = state
  PROVE  LET chosen == {wait_list[i] : i \in 1..n}
         IN  /\ activity' = a
             /\ chosen \subseteq Task /\ IsFiniteSet(chosen) /\ Cardinality(chosen) = n
             /\ t \notin chosen
             /\ \A u \in chosen : ~granted[u] /\ pc[u] # "in" /\ OnList(wait_list, u)
             /\ granted' = [u \in Task |-> granted[u] \/ u \in chosen]
             /\ wait_list' \in Seq(Task) /\ waking' \subseteq Task
             /\ granted' \in [Task -> BOOLEAN] /\ pc' \in [Task -> Locations]
             /\ OnceEach(wait_list') /\ GrantIsSeen'
             /\ Len(wait_list') = Len(wait_list) - n
             /\ n < Len(wait_list) => Head(wait_list') = wait_list[n + 1]
<1> DEFINE chosen == {wait_list[i] : i \in 1..n}
<1>1. TypeOK /\ GrantIsSeen /\ OnceEach(wait_list) /\ wait_list \in Seq(Task)
  BY DEF RInv, Exclusion, TypeOK
<1>2. /\ wait_list' \in Seq(Task) /\ Len(wait_list') = Len(wait_list) - n
      /\ \A i \in 1..Len(wait_list') : wait_list'[i] = wait_list[i + n]
      /\ OnceEach(wait_list')
      /\ chosen \subseteq Task /\ IsFiniteSet(chosen) /\ Cardinality(chosen) = n
      /\ \A u : OnList(wait_list, u) <=> (OnList(wait_list', u) \/ u \in chosen)
      /\ \A u \in chosen : ~OnList(wait_list', u)
  <2> DEFINE l == SubSeq(wait_list, n + 1, Len(wait_list))
  <2>1. wait_list' = l
    BY DEF grant
  <2>2. /\ l \in Seq(Task) /\ Len(l) = Len(wait_list) - n
        /\ \A i \in 1..Len(l) : l[i] = wait_list[i + n]
        /\ OnceEach(l)
        /\ chosen \subseteq Task /\ IsFiniteSet(chosen) /\ Cardinality(chosen) = n
        /\ \A u : OnList(wait_list, u) <=> (OnList(l, u) \/ u \in chosen)
        /\ \A u \in chosen : ~OnList(l, u)
    BY <1>1, ListDelFront
  <2> HIDE DEF chosen, l
  <2> QED BY <2>1, <2>2
<1>3. /\ activity' = a /\ waking' = chosen
      /\ granted' = [u \in Task |-> granted[u] \/ u \in chosen]
  BY DEF grant
<1> HIDE DEF chosen
<1>4. \A u \in chosen : ~granted[u] /\ pc[u] # "in" /\ OnList(wait_list, u)
  BY <1>1, <1>2 DEF GrantIsSeen
<1>5. t \notin chosen
  BY <1>4
<1>6. granted' \in [Task -> BOOLEAN] /\ pc' \in [Task -> Locations]
  BY <1>1, <1>3 DEF TypeOK
<1>7. GrantIsSeen'
  <2> SUFFICES ASSUME NEW u \in Task
               PROVE  /\ pc'[u] \in {"check", "sched"} <=> (OnList(wait_list', u) \/ granted'[u])
                      /\ ~(OnList(wait_list', u) /\ granted'[u])
                      /\ granted'[u] /\ pc'[u] = "sched" => state'[u] = TASK_RUNNING \/ u \in waking'
    BY DEF GrantIsSeen
  <2>1. granted'[u] <=> granted[u] \/ u \in chosen
    BY <1>3
  <2>2. pc'[u] \in {"check", "sched"} <=> pc[u] \in {"check", "sched"}
    BY <1>1 DEF TypeOK
  <2>3. pc'[u] = "sched" => pc[u] = "sched"
    BY <1>1 DEF TypeOK
  <2>4. /\ pc[u] \in {"check", "sched"} <=> (OnList(wait_list, u) \/ granted[u])
        /\ ~(OnList(wait_list, u) /\ granted[u])
        /\ granted[u] /\ pc[u] = "sched" => state[u] = TASK_RUNNING
    BY <1>1 DEF GrantIsSeen
  <2> QED BY <1>2, <1>3, <1>4, <2>1, <2>2, <2>3, <2>4
<1>8. n < Len(wait_list) => Head(wait_list') = wait_list[n + 1]
  BY <1>1, <1>2
<1> QED BY <1>2, <1>3, <1>4, <1>5, <1>6, <1>7, <1>8 DEF chosen

(* The type of activity follows from what it counts. *)
LEMMA TypeFrom ==
  ASSUME TypeOK, activity' = -1 \/ activity' = Cardinality(ReadHolders'),
         wait_list' \in Seq(Task), flags' \in [Task -> Kinds],
         granted' \in [Task -> BOOLEAN], waking' \subseteq Task,
         pc' \in [Task -> Locations], state' = state
  PROVE  TypeOK'
<1>1. ReadHolders' \in SUBSET Task
  BY DEF ReadHolders
<1>2. /\ IsFiniteSet(ReadHolders') /\ Cardinality(ReadHolders') <= Cardinality(Task)
  BY <1>1, TaskAssumption, FS_Subset
<1>3. Cardinality(ReadHolders') \in Nat /\ Cardinality(Task) \in Nat
  BY <1>2, TaskAssumption, FS_CardinalityType
<1>4. activity' \in -1..Cardinality(Task)
  BY <1>2, <1>3
<1> QED BY <1>4 DEF TypeOK

(* Nobody is granted anything, and the list stays what it is.              *)
LEMMA GrantNobody ==
  ASSUME RInv, waking = {}, NEW t \in Task, pc[t] = "in",
         NEW a, grant(0, a),
         pc' = pc \/ pc' = [pc EXCEPT ![t] = "out"], state' = state
  PROVE  /\ activity' = a /\ wait_list' = wait_list /\ granted' = granted
         /\ pc' \in [Task -> Locations] /\ waking' \subseteq Task
         /\ GrantIsSeen' /\ OnceEach(wait_list')
<1>1. 0 \in 0..Len(wait_list) /\ TypeOK /\ wait_list \in Seq(Task)
  BY DEF RInv, Exclusion, TypeOK
<1>2. /\ activity' = a /\ GrantIsSeen' /\ OnceEach(wait_list')
      /\ pc' \in [Task -> Locations] /\ waking' \subseteq Task
      /\ granted' = [u \in Task |-> granted[u] \/ u \in {wait_list[i] : i \in 1..0}]
  BY <1>1, GrantStep
<1>3. granted' = granted
  BY <1>1, <1>2 DEF TypeOK
<1>4. wait_list' = wait_list
  <2>1. wait_list' = SubSeq(wait_list, 1, Len(wait_list))
    BY DEF grant
  <2> QED BY <1>1, <2>1, SubSeqFull
<1> QED BY <1>2, <1>3, <1>4

(* The first waiter, a writer, is granted the semaphore when nobody else   *)
(* has it any more.                                                        *)
LEMMA GrantWriter ==
  ASSUME RInv, waking = {}, NEW t \in Task, pc[t] = "in",
         wait_list # <<>>, is_write(1), grant(1, -1),
         pc' = [pc EXCEPT ![t] = "out"], state' = state, flags' = flags,
         ReadHolders \cup WriteHolders = {t}
  PROVE  RInv' /\ ReadHolders' = {} /\ WriteHolders' = {wait_list[1]}
<1> DEFINE h == wait_list[1]
           chosen == {wait_list[i] : i \in 1..1}
<1>1. TypeOK /\ 1 \in 0..Len(wait_list) /\ chosen = {h}
  BY DEF RInv, Exclusion, TypeOK
<1>2. /\ activity' = -1 /\ chosen \subseteq Task /\ t \notin chosen
      /\ \A u \in chosen : ~granted[u] /\ pc[u] # "in"
      /\ granted' = [u \in Task |-> granted[u] \/ u \in chosen]
      /\ wait_list' \in Seq(Task) /\ waking' \subseteq Task
      /\ granted' \in [Task -> BOOLEAN] /\ pc' \in [Task -> Locations]
      /\ OnceEach(wait_list') /\ GrantIsSeen'
  BY <1>1, GrantStep
<1>3. ~granted[t] /\ flags[h] = WRITE
  BY DEF RInv, Exclusion, GrantIsSeen, is_write
<1> HIDE DEF h, chosen
<1>4. ReadHolders' = {} /\ WriteHolders' = {h}
  <2>1. \A u \in Task \ {t} : pc'[u] = pc[u] /\ ~granted[u] /\ pc[u] # "in"
    BY <1>1 DEF ReadHolders, WriteHolders, Holds, TypeOK
  <2>2. pc'[t] = "out" /\ ~granted'[t]
    BY <1>1, <1>2, <1>3 DEF TypeOK
  <2>3. \A u \in Task : (pc'[u] = "in" \/ granted'[u]) <=> u = h
    BY <1>1, <1>2, <2>1, <2>2
  <2>4. h \in Task
    BY <1>1, <1>2
  <2> QED BY <1>3, <2>3, <2>4 DEF ReadHolders, WriteHolders, Holds
<1>5. TypeOK'
  BY <1>1, <1>2, TypeFrom DEF TypeOK
<1>6. Exclusion'
  BY <1>2, <1>4, <1>5, ExclusionFrom
<1>7. RInv'
  BY <1>2, <1>6 DEF RInv, WriterAtHead
<1> QED BY <1>4, <1>7 DEF h

(* The readers at the front are granted the semaphore together, when those *)
(* who have it for reading are R and nobody has it for writing.            *)
LEMMA GrantReaders ==
  ASSUME RInv, waking = {}, NEW t \in Task, pc[t] = "in",
         NEW n \in 1..Len(wait_list), front_readers(n),
         NEW R \in SUBSET {t}, grant(n, Cardinality(R) + n),
         pc' = pc \/ pc' = [pc EXCEPT ![t] = "out"], state' = state,
         flags' \in [Task -> Kinds], \A u \in Task \ {t} : flags'[u] = flags[u],
         ReadHolders \cup WriteHolders = {t},
         IF R = {} THEN pc'[t] = "out" ELSE pc'[t] = "in" /\ flags'[t] = READ
  PROVE  /\ RInv'
         /\ ReadHolders' = R \cup {wait_list[i] : i \in 1..n} /\ WriteHolders' = {}
<1> DEFINE chosen == {wait_list[i] : i \in 1..n}
<1>1. TypeOK /\ n \in 0..Len(wait_list) /\ wait_list \in Seq(Task) /\ n \in Nat
  BY DEF RInv, Exclusion, TypeOK
<1>2. /\ activity' = Cardinality(R) + n
      /\ chosen \subseteq Task /\ IsFiniteSet(chosen) /\ Cardinality(chosen) = n
      /\ t \notin chosen
      /\ \A u \in chosen : ~granted[u] /\ pc[u] # "in"
      /\ granted' = [u \in Task |-> granted[u] \/ u \in chosen]
      /\ wait_list' \in Seq(Task) /\ waking' \subseteq Task
      /\ granted' \in [Task -> BOOLEAN] /\ pc' \in [Task -> Locations]
      /\ OnceEach(wait_list') /\ GrantIsSeen'
      /\ Len(wait_list') = Len(wait_list) - n
      /\ n < Len(wait_list) => Head(wait_list') = wait_list[n + 1]
  BY <1>1, GrantStep
<1>3. \A u \in chosen : flags[u] = READ
  BY DEF front_readers, is_read
<1>4. ~granted[t]
  BY DEF RInv, Exclusion, GrantIsSeen
<1> HIDE DEF chosen
<1>5. \A u \in Task \ {t} : pc'[u] = pc[u] /\ ~granted[u] /\ pc[u] # "in"
  BY <1>1 DEF ReadHolders, WriteHolders, Holds, TypeOK
<1>6. ReadHolders' = R \cup chosen /\ WriteHolders' = {}
  <2>1. \A u \in Task \ {t} : Holds(u, READ)' <=> u \in chosen
    BY <1>2, <1>3, <1>5 DEF Holds
  <2>2. \A u \in Task \ {t} : ~Holds(u, WRITE)'
    BY <1>2, <1>3, <1>5 DEF Holds
  <2>3. ~granted'[t]
    BY <1>2, <1>4
  <2>4. CASE R = {}
    BY <1>2, <2>1, <2>2, <2>3, <2>4 DEF Holds, ReadHolders, WriteHolders
  <2>5. CASE R = {t}
    BY <1>2, <2>1, <2>2, <2>3, <2>5 DEF Holds, ReadHolders, WriteHolders
  <2> QED BY <2>4, <2>5
<1>7. activity' = Cardinality(ReadHolders') /\ activity' > 0
  <2>1. IsFiniteSet(R) /\ R \cap chosen = {} /\ Cardinality(R) \in Nat
    BY <1>2, FS_Singleton, FS_Subset, FS_CardinalityType
  <2>2. Cardinality(R \cup chosen)
          = Cardinality(R) + Cardinality(chosen) - Cardinality(R \cap chosen)
    BY <1>2, <2>1, FS_Union
  <2>3. Cardinality(R \cap chosen) = 0
    BY <2>1, FS_EmptySet
  <2> QED BY <1>1, <1>2, <1>6, <2>1, <2>2, <2>3
<1>8. TypeOK'
  BY <1>1, <1>2, <1>7, TypeFrom
<1>9. Exclusion'
  BY <1>2, <1>6, <1>7, <1>8, ExclusionFrom
<1>10. WriterAtHead'
  <2> SUFFICES ASSUME wait_list' # <<>> PROVE flags'[Head(wait_list')] = WRITE
    BY DEF WriterAtHead
  <2>1. n < Len(wait_list)
    BY <1>1, <1>2
  <2>2. /\ Head(wait_list') = wait_list[n + 1] /\ flags[wait_list[n + 1]] = WRITE
        /\ n + 1 \in 1..Len(wait_list)
    BY <1>1, <1>2, <2>1 DEF front_readers, is_write
  <2>3. wait_list[n + 1] \in Task /\ OnList(wait_list, wait_list[n + 1])
    BY <1>1, <2>2 DEF OnList
  <2>4. wait_list[n + 1] # t
    BY <2>3 DEF RInv, Exclusion, GrantIsSeen
  <2> QED BY <2>2, <2>3, <2>4
<1>11. RInv'
  BY <1>2, <1>9, <1>10 DEF RInv
<1> QED BY <1>6, <1>11 DEF chosen

(* The last reader passes the semaphore to the first waiter, without       *)
(* looking what it waits for; an earlier one only takes itself off the     *)
(* count.                                                                  *)
LEMMA UpReadStep ==
  ASSUME RInv, NEW t \in Task, __up_read(t)
  PROVE  RInv'
<1>1. /\ pc[t] = "in" /\ flags[t] = READ /\ waking = {} /\ ~granted[t]
      /\ pc' = [pc EXCEPT ![t] = "out"] /\ flags' = flags /\ state' = state
      /\ TypeOK /\ Exclusion
  BY DEF __up_read, wait_lock_free, RInv, Exclusion, GrantIsSeen
<1>2. /\ WriteHolders = {} /\ activity = Cardinality(ReadHolders) /\ activity > 0
      /\ activity = 1 => ReadHolders = {t}
  BY <1>1, ReadingMode DEF Holds
<1>3. CASE activity - 1 = 0 /\ wait_list # <<>>
  <2>1. activity = 1 /\ ReadHolders \cup WriteHolders = {t}
    BY <1>1, <1>2, <1>3 DEF TypeOK
  <2>2. is_write(1)
    BY <1>1, <1>2, <1>3 DEF RInv, WriterAtHead, is_write, TypeOK
  <2>3. grant(1, -1)
    BY <1>3 DEF __up_read, __rwsem_wake_one_writer
  <2> QED BY <1>1, <1>3, <2>1, <2>2, <2>3, GrantWriter
<1>4. CASE ~(activity - 1 = 0 /\ wait_list # <<>>)
  <2>1. grant(0, activity - 1)
    BY <1>4 DEF __up_read
  <2>2. /\ activity' = activity - 1 /\ wait_list' = wait_list /\ granted' = granted
        /\ pc' \in [Task -> Locations] /\ waking' \subseteq Task
        /\ GrantIsSeen' /\ OnceEach(wait_list')
    BY <1>1, <2>1, GrantNobody
  <2>3. ReadHolders' = ReadHolders \ {t} /\ WriteHolders' = {} /\ t \in ReadHolders
    BY <1>1, <1>2, <2>2 DEF ReadHolders, WriteHolders, Holds, TypeOK
  <2>4. activity' = Cardinality(ReadHolders')
    BY <1>2, <2>2, <2>3, HoldersFinite, FS_RemoveElement
  <2>5. TypeOK'
    BY <1>1, <2>2, <2>4, TypeFrom DEF TypeOK
  <2>6. Exclusion'
    BY <1>4, <2>2, <2>3, <2>4, <2>5, ExclusionFrom
  <2>7. WriterAtHead'
    BY <1>1, <1>2, <2>2 DEF RInv, WriterAtHead
  <2> QED BY <2>2, <2>6, <2>7 DEF RInv
<1> QED BY <1>3, <1>4

(* A writer that leaves serves the front of the list, or leaves the        *)
(* semaphore free.                                                         *)
LEMMA UpWriteStep ==
  ASSUME RInv, NEW t \in Task, __up_write(t)
  PROVE  RInv'
<1>1. /\ pc[t] = "in" /\ flags[t] = WRITE /\ waking = {} /\ ~granted[t]
      /\ pc' = [pc EXCEPT ![t] = "out"] /\ flags' = flags /\ state' = state
      /\ TypeOK /\ Exclusion
  BY DEF __up_write, wait_lock_free, RInv, Exclusion, GrantIsSeen
<1>2. WriteHolders = {t} /\ ReadHolders = {} /\ activity = -1
  BY <1>1, WritingMode DEF Holds
<1>3. CASE wait_list = <<>>
  <2>1. grant(0, 0)
    BY <1>3 DEF __up_write
  <2>2. /\ activity' = 0 /\ wait_list' = wait_list /\ granted' = granted
        /\ pc' \in [Task -> Locations] /\ waking' \subseteq Task
        /\ GrantIsSeen' /\ OnceEach(wait_list')
    BY <1>1, <2>1, GrantNobody
  <2>3. ReadHolders' = {} /\ WriteHolders' = {}
    BY <1>1, <1>2, <2>2 DEF ReadHolders, WriteHolders, Holds, TypeOK
  <2>4. activity' = Cardinality(ReadHolders')
    BY <2>2, <2>3, FS_EmptySet
  <2>5. TypeOK'
    BY <1>1, <2>2, <2>4, TypeFrom DEF TypeOK
  <2>6. Exclusion'
    BY <1>3, <2>2, <2>3, <2>4, <2>5, ExclusionFrom
  <2> QED BY <1>3, <2>2, <2>6 DEF RInv, WriterAtHead
<1>4. CASE wait_list # <<>>
  <2>1. __rwsem_do_wake(TRUE, 0)
    BY <1>4 DEF __up_write
  <2>2. CASE is_write(1) /\ grant(1, -1)
    BY <1>1, <1>2, <1>4, <2>2, GrantWriter
  <2>3. CASE is_read(1) /\ \E n \in 1..Len(wait_list) : front_readers(n) /\ grant(n, 0 + n)
    <3>1. PICK n \in 1..Len(wait_list) : front_readers(n) /\ grant(n, 0 + n)
      BY <2>3
    <3>2. Cardinality({}) = 0 /\ {} \in SUBSET {t}
      BY FS_EmptySet
    <3>3. grant(n, Cardinality({}) + n)
      BY <3>1, <3>2
    <3>4. ReadHolders \cup WriteHolders = {t} /\ pc'[t] = "out"
      BY <1>1, <1>2 DEF TypeOK
    <3>5. flags' \in [Task -> Kinds] /\ \A u \in Task \ {t} : flags'[u] = flags[u]
      BY <1>1 DEF TypeOK
    <3> QED BY <1>1, <3>1, <3>2, <3>3, <3>4, <3>5, GrantReaders
  <2> QED BY <2>1, <2>2, <2>3 DEF __rwsem_do_wake
<1> QED BY <1>3, <1>4

(* A writer that turns into a reader lets the readers at the front in with *)
(* it, and no writer.                                                      *)
LEMMA DowngradeStep ==
  ASSUME RInv, NEW t \in Task, __downgrade_write(t)
  PROVE  RInv'
<1>1. /\ pc[t] = "in" /\ flags[t] = WRITE /\ waking = {} /\ ~granted[t]
      /\ pc' = pc /\ flags' = [flags EXCEPT ![t] = READ] /\ state' = state
      /\ TypeOK /\ Exclusion
  BY DEF __downgrade_write, wait_lock_free, RInv, Exclusion, GrantIsSeen
<1>2. WriteHolders = {t} /\ ReadHolders = {} /\ activity = -1
  BY <1>1, WritingMode DEF Holds
<1>3. /\ flags' \in [Task -> Kinds] /\ flags'[t] = READ
      /\ \A u \in Task \ {t} : flags'[u] = flags[u]
  BY <1>1 DEF TypeOK
<1>4. Cardinality({t}) = 1
  BY FS_Singleton
<1>5. CASE grant(0, 1) /\ (wait_list # <<>> => is_write(1))
  <2>1. /\ activity' = 1 /\ wait_list' = wait_list /\ granted' = granted
        /\ pc' \in [Task -> Locations] /\ waking' \subseteq Task
        /\ GrantIsSeen' /\ OnceEach(wait_list')
    BY <1>1, <1>5, GrantNobody
  <2>2. ReadHolders' = {t} /\ WriteHolders' = {}
    BY <1>1, <1>2, <1>3, <2>1 DEF ReadHolders, WriteHolders, Holds, TypeOK
  <2>3. activity' = Cardinality(ReadHolders')
    BY <1>4, <2>1, <2>2
  <2>4. TypeOK'
    BY <1>1, <1>3, <2>1, <2>3, TypeFrom DEF TypeOK
  <2>5. Exclusion'
    BY <2>1, <2>2, <2>3, <2>4, ExclusionFrom
  <2>6. WriterAtHead'
    <3> SUFFICES ASSUME wait_list # <<>> PROVE flags'[Head(wait_list)] = WRITE
      BY <2>1 DEF WriterAtHead
    <3>1. /\ Head(wait_list) = wait_list[1] /\ wait_list[1] \in Task
          /\ 1 \in 1..Len(wait_list)
      BY <1>1 DEF TypeOK
    <3>2. wait_list[1] # t
      BY <1>1, <3>1 DEF Exclusion, GrantIsSeen, OnList
    <3> QED BY <1>3, <1>5, <3>1, <3>2 DEF is_write
  <2> QED BY <2>1, <2>5, <2>6 DEF RInv
<1>6. CASE is_read(1) /\ \E n \in 1..Len(wait_list) : front_readers(n) /\ grant(n, 1 + n)
  <2>1. PICK n \in 1..Len(wait_list) : front_readers(n) /\ grant(n, 1 + n)
    BY <1>6
  <2>2. grant(n, Cardinality({t}) + n) /\ {t} \in SUBSET {t} /\ pc'[t] = "in"
    BY <1>1, <1>4, <2>1
  <2>3. ReadHolders \cup WriteHolders = {t}
    BY <1>2
  <2> QED BY <1>1, <1>3, <2>1, <2>2, <2>3, GrantReaders
<1> QED BY <1>5, <1>6 DEF __downgrade_write, __rwsem_do_wake

----------------------------------------------------------------------------
LEMMA RInvInit == Init => RInv
<1> SUFFICES ASSUME Init PROVE RInv
  OBVIOUS
<1>1. ReadHolders = {} /\ WriteHolders = {}
  BY DEF Init, ReadHolders, WriteHolders, Holds
<1>2. TypeOK
  BY HoldersFinite DEF Init, TypeOK
<1>3. GrantIsSeen /\ OnceEach(wait_list) /\ WriterAtHead
  BY DEF Init, GrantIsSeen, OnceEach, OnList, WriterAtHead
<1>4. Exclusion
  BY <1>1, <1>2, <1>3, FS_EmptySet DEF Init, Exclusion
<1> QED BY <1>3, <1>4 DEF RInv

LEMMA RInvNext == RInv /\ [Next]_vars => RInv'
<1> SUFFICES ASSUME RInv, [Next]_vars PROVE RInv'
  OBVIOUS
<1>1. CASE UNCHANGED vars
  BY <1>1 DEF vars, RInv, Exclusion, TypeOK, GrantIsSeen, WriterAtHead,
              ReadHolders, WriteHolders, Holds
<1>2. ASSUME NEW t \in Task,
             \/ __down_read(t) \/ __down_write(t)
             \/ __down_read_trylock(t) \/ __down_write_trylock(t)
      PROVE  RInv'
  BY <1>2, DownStep DEF __down_read, __down_write, __down_read_trylock, __down_write_trylock
<1>3. ASSUME NEW t \in Task,
             wait_check(t) \/ wait_resume(t) \/ wake_up_process(t) \/ stray_wake_up(t)
      PROVE  RInv'
  BY <1>3, WaitStep
<1>4. ASSUME NEW t \in Task, Release(t) \/ __downgrade_write(t)
      PROVE  RInv'
  BY <1>4, UpReadStep, UpWriteStep, DowngradeStep DEF Release
<1> QED BY <1>1, <1>2, <1>3, <1>4 DEF Next

(* A writer has the semaphore alone, activity counts the readers exactly,  *)
(* a free semaphore has no waiters, and a sleeper that was granted the     *)
(* semaphore notices: sem->activity, sem->wait_list and waiter.task stay   *)
(* in step through every operation of lib/rwsem-spinlock.c.                *)
THEOREM RwSemExclusion == Spec => []Exclusion
<1>1. RInv => Exclusion
  BY DEF RInv
<1> QED BY <1>1, RInvInit, RInvNext, PTL DEF Spec

(* While readers are active the first waiter is a writer, which            *)
(* __up_read() relies on when it wakes the first waiter as one.            *)
THEOREM RwSemWriterAtHead == Spec => []WriterAtHead
<1>1. RInv => WriterAtHead
  BY DEF RInv
<1> QED BY <1>1, RInvInit, RInvNext, PTL DEF Spec

----------------------------------------------------------------------------
(* The refinement: every step of the semaphore is a step of RwLock under   *)
(* the mapping of RwSem, or changes nothing that RwLock speaks of.         *)

(* The members of the queue that the mapping makes of wait_list. *)
Waiting == [task : Task, kind : Kinds]

LEMMA QueueOfList ==
  ASSUME TypeOK
  PROVE  /\ Queue \in Seq(Waiting) /\ Len(Queue) = Len(wait_list)
         /\ \A i \in 1..Len(wait_list) :
              /\ Queue[i] = [task |-> wait_list[i], kind |-> flags[wait_list[i]]]
              /\ Queue[i].task = wait_list[i] /\ Queue[i].kind = flags[wait_list[i]]
         /\ Queue = <<>> <=> wait_list = <<>>
<1>1. \A i \in 1..Len(wait_list) :
         [task |-> wait_list[i], kind |-> flags[wait_list[i]]] \in Waiting
  BY DEF TypeOK, Waiting
<1>2. Len(wait_list) \in Nat
  BY DEF TypeOK
<1>3. Queue \in Seq(Waiting) /\ Len(Queue) = Len(wait_list)
  BY <1>1, <1>2 DEF Queue
<1> QED BY <1>3 DEF Queue, TypeOK

LEMMA QueueMembers ==
  ASSUME TypeOK
  PROVE  /\ Len(Queue) = Len(wait_list) /\ Len(wait_list) \in Nat
         /\ \A i \in 1..Len(wait_list) : Queue[i].task = wait_list[i]
         /\ \A i \in 1..Len(wait_list) : Queue[i].kind = flags[wait_list[i]]
<1>1. Len(wait_list) \in Nat
  BY DEF TypeOK
<1> QED BY <1>1, QueueOfList, Zenon

(* The steps that RwLock does not see. *)
LEMMA WaitRefines ==
  ASSUME RInv, NEW t \in Task,
         wait_check(t) \/ wait_resume(t) \/ wake_up_process(t) \/ stray_wake_up(t)
  PROVE  UNCHANGED <<ReadHolders, WriteHolders, Queue>>
<1>1. wait_list' = wait_list /\ flags' = flags /\ TypeOK
  BY DEF wait_check, wait_resume, wake_up_process, stray_wake_up, RInv, Exclusion
<1>2. \A u \in Task : pc'[u] = "in" \/ granted'[u] <=> pc[u] = "in" \/ granted[u]
  BY <1>1 DEF wait_check, wait_resume, wake_up_process, stray_wake_up, TypeOK
<1> QED BY <1>1, <1>2 DEF ReadHolders, WriteHolders, Holds, Queue

(* A caller enters: it has the semaphore at once exactly if RwLock lets it *)
(* in at once.                                                             *)
LEMMA OutsideRefines ==
  ASSUME RInv, NEW t \in Task, pc[t] = "out"
  PROVE  Lock!Outside(t)
<1>1. ~granted[t] /\ ~OnList(wait_list, t) /\ TypeOK
  BY DEF RInv, Exclusion, GrantIsSeen
<1>2. t \notin ReadHolders \cup WriteHolders
  BY <1>1 DEF ReadHolders, WriteHolders, Holds
<1>3. \A i \in 1..Len(Queue) : Queue[i].task # t
  <2>1. Len(Queue) = Len(wait_list) /\ \A i \in 1..Len(wait_list) : Queue[i].task = wait_list[i]
    BY <1>1, QueueOfList
  <2> QED BY <1>1, <2>1 DEF OnList
<1> QED BY <1>2, <1>3 DEF Lock!Outside

LEMMA TakeRefines ==
  ASSUME RInv, NEW t \in Task, NEW k \in Kinds, pc[t] = "out", take(t, k)
  PROVE  Lock!Enter(t, k)
<1>1. /\ wait_list = <<>> /\ wait_list' = wait_list /\ activity >= 0
      /\ k = WRITE => activity = 0
      /\ flags' = [flags EXCEPT ![t] = k] /\ pc' = [pc EXCEPT ![t] = "in"]
      /\ granted' = granted
  BY DEF take, uncontended
<1>2. TypeOK /\ ~granted[t]
  BY DEF RInv, Exclusion, GrantIsSeen
<1>3. WriteHolders = {} /\ activity = Cardinality(ReadHolders)
  BY <1>1, <1>2 DEF RInv, Exclusion
<1>4. k = WRITE => ReadHolders = {}
  BY <1>1, <1>3, HoldersFinite, FS_EmptySet
<1>5. Queue = <<>> /\ Queue' = Queue
  BY <1>1, <1>2, QueueOfList DEF Queue
<1>6. Lock!Compatible(k, ReadHolders, WriteHolders)
  BY <1>3, <1>4 DEF Lock!Compatible
<1>7. /\ ReadHolders' = IF k = "read" THEN ReadHolders \cup {t} ELSE ReadHolders
      /\ WriteHolders' = IF k = "write" THEN WriteHolders \cup {t} ELSE WriteHolders
  BY <1>1, <1>2 DEF ReadHolders, WriteHolders, Holds, TypeOK
<1>8. Lock!Outside(t)
  BY OutsideRefines
<1> QED BY <1>5, <1>6, <1>7, <1>8 DEF Lock!Enter

LEMMA QueueUpRefines ==
  ASSUME RInv, NEW t \in Task, NEW k \in Kinds, pc[t] = "out", queue_up(t, k)
  PROVE  Lock!Enter(t, k)
<1>1. /\ flags' = [flags EXCEPT ![t] = k] /\ pc' = [pc EXCEPT ![t] = "check"]
      /\ wait_list' = Append(wait_list, t)
      /\ granted' = granted /\ ~uncontended(k)
  BY DEF queue_up, list_add_tail
<1>2. TypeOK /\ ~granted[t] /\ ~OnList(wait_list, t) /\ wait_list \in Seq(Task)
  BY DEF RInv, Exclusion, GrantIsSeen, TypeOK
<1>3. ReadHolders' = ReadHolders /\ WriteHolders' = WriteHolders
  BY <1>1, <1>2 DEF ReadHolders, WriteHolders, Holds, TypeOK
<1>4. ~(Queue = <<>> /\ Lock!Compatible(k, ReadHolders, WriteHolders))
  <2> SUFFICES ASSUME wait_list = <<>>, WriteHolders = {}, k = "write" => ReadHolders = {}
               PROVE  uncontended(k)
    BY <1>1, <1>2, QueueOfList DEF Lock!Compatible
  <2>1. activity = Cardinality(ReadHolders)
    BY DEF RInv, Exclusion
  <2> QED BY <2>1, HoldersFinite, FS_EmptySet DEF uncontended
<1>5. Queue' = Append(Queue, [task |-> t, kind |-> k])
  <2> DEFINE e == [task |-> t, kind |-> k]
  <2>1. Queue \in Seq(Waiting) /\ Len(Queue) = Len(wait_list) /\ e \in Waiting
    BY <1>2, QueueOfList DEF Waiting
  <2>2. /\ Len(wait_list') = Len(wait_list) + 1 /\ Len(wait_list) \in Nat
        /\ \A i \in 1..Len(wait_list) : wait_list'[i] = wait_list[i]
        /\ wait_list'[Len(wait_list) + 1] = t
    BY <1>1, <1>2
  <2>3. /\ \A i \in 1..Len(wait_list) :
             wait_list[i] \in Task /\ flags'[wait_list[i]] = flags[wait_list[i]]
        /\ flags'[t] = k
    BY <1>1, <1>2 DEF OnList, TypeOK
  <2>4. \A i \in 1..(Len(wait_list) + 1) :
          [task |-> wait_list'[i], kind |-> flags'[wait_list'[i]]] = Append(Queue, e)[i]
    <3> SUFFICES ASSUME NEW i \in 1..(Len(wait_list) + 1)
                 PROVE  [task |-> wait_list'[i], kind |-> flags'[wait_list'[i]]] = Append(Queue, e)[i]
      OBVIOUS
    <3>1. CASE i \in 1..Len(wait_list)
      <4>1. Append(Queue, e)[i] = Queue[i]
        BY <2>1, <3>1
      <4>2. Queue[i] = [task |-> wait_list[i], kind |-> flags[wait_list[i]]]
        BY <1>2, <3>1, QueueOfList
      <4> QED BY <2>2, <2>3, <3>1, <4>1, <4>2
    <3>2. CASE i = Len(wait_list) + 1
      <4>1. Append(Queue, e)[i] = e
        BY <2>1, <3>2
      <4> QED BY <2>2, <2>3, <3>2, <4>1
    <3>3. i \in 1..Len(wait_list) \/ i = Len(wait_list) + 1
      BY <2>2
    <3> QED BY <3>1, <3>2, <3>3
  <2>5. Append(Queue, e) = [i \in 1..(Len(wait_list) + 1) |-> Append(Queue, e)[i]]
    BY <2>1, <2>2
  <2>6. Queue' = [i \in 1..(Len(wait_list) + 1) |->
                    [task |-> wait_list'[i], kind |-> flags'[wait_list'[i]]]]
    BY <2>2 DEF Queue
  <2> QED BY <2>4, <2>5, <2>6
<1>6. Lock!Outside(t)
  BY OutsideRefines
<1> QED BY <1>3, <1>4, <1>5, <1>6 DEF Lock!Enter

(* The queue after the first n waiters have been granted the semaphore.    *)
LEMMA QueueServed ==
  ASSUME RInv, waking = {}, NEW t \in Task, pc[t] = "in",
         NEW n \in 0..Len(wait_list), NEW a, grant(n, a),
         pc' = pc \/ pc' = [pc EXCEPT ![t] = "out"], state' = state,
         \A u \in Task \ {t} : flags'[u] = flags[u]
  PROVE  Queue' = SubSeq(Queue, n + 1, Len(Queue))
<1> DEFINE q == SubSeq(Queue, n + 1, Len(Queue))
<1>1. TypeOK /\ wait_list \in Seq(Task) /\ Len(wait_list) \in Nat /\ OnceEach(wait_list)
  BY DEF RInv, Exclusion, TypeOK
<1>2. /\ Queue \in Seq(Waiting) /\ Len(Queue) = Len(wait_list)
      /\ \A i \in 1..Len(wait_list) :
           Queue[i] = [task |-> wait_list[i], kind |-> flags[wait_list[i]]]
  BY <1>1, QueueOfList
<1>3. /\ q \in Seq(Waiting)
      /\ Len(q) = IF n + 1 <= Len(Queue) THEN Len(Queue) - (n + 1) + 1 ELSE 0
      /\ \A i \in 1..(Len(Queue) - (n + 1) + 1) : q[i] = Queue[(n + 1) + i - 1]
  <2>1. \A i \in (n + 1)..Len(Queue) : Queue[i] \in Waiting
    BY <1>1, <1>2
  <2> QED BY <1>1, <1>2, <2>1, SubSeqProperties
<1> HIDE DEF q
<1>4. Len(q) = Len(wait_list) - n /\ \A i \in 1..Len(q) : q[i] = Queue[i + n]
  BY <1>1, <1>2, <1>3
<1>5. q = [i \in 1..Len(q) |-> q[i]]
  BY <1>3
<1>6. /\ Len(wait_list') = Len(wait_list) - n /\ Len(wait_list') = Len(q)
      /\ \A i \in 1..Len(q) : wait_list'[i] = wait_list[i + n] /\ i + n \in 1..Len(wait_list)
  <2> DEFINE l == SubSeq(wait_list, n + 1, Len(wait_list))
  <2>1. wait_list' = l
    BY DEF grant
  <2>2. Len(l) = Len(wait_list) - n /\ \A i \in 1..Len(l) : l[i] = wait_list[i + n]
    BY <1>1, ListDelFront
  <2> HIDE DEF l
  <2> QED BY <1>1, <1>4, <2>1, <2>2
<1>7. \A i \in 1..Len(wait_list) :
         wait_list[i] \in Task /\ flags'[wait_list[i]] = flags[wait_list[i]]
  <2> SUFFICES ASSUME NEW i \in 1..Len(wait_list)
               PROVE  wait_list[i] \in Task /\ wait_list[i] # t
    OBVIOUS
  <2>1. wait_list[i] \in Task /\ OnList(wait_list, wait_list[i])
    BY <1>1 DEF OnList
  <2> QED BY <2>1 DEF RInv, Exclusion, GrantIsSeen
<1>8. \A i \in 1..Len(q) :
         [task |-> wait_list'[i], kind |-> flags'[wait_list'[i]]] = q[i]
  <2> SUFFICES ASSUME NEW i \in 1..Len(q)
               PROVE  [task |-> wait_list'[i], kind |-> flags'[wait_list'[i]]] = q[i]
    OBVIOUS
  <2>1. q[i] = [task |-> wait_list[i + n], kind |-> flags[wait_list[i + n]]]
    BY <1>2, <1>4, <1>6
  <2>2. wait_list'[i] = wait_list[i + n] /\ flags'[wait_list[i + n]] = flags[wait_list[i + n]]
    BY <1>6, <1>7
  <2> QED BY <2>1, <2>2
<1>9. Queue' = [i \in 1..Len(q) |->
                  [task |-> wait_list'[i], kind |-> flags'[wait_list'[i]]]]
  BY <1>6 DEF Queue
<1>10. Queue' = q
  BY <1>5, <1>8, <1>9
<1> QED BY <1>10 DEF q

(* RwLock serves nobody: the queue is empty, or a writer is first and      *)
(* somebody reads.                                                         *)
LEMMA ServeNobody ==
  ASSUME TypeOK, NEW r,
         ReadHolders' = r, WriteHolders' = {}, Queue' = SubSeq(Queue, 1, Len(Queue)),
         wait_list # <<>> => is_write(1) /\ r # {}
  PROVE  Lock!Serve(r, {})
<1>1. /\ Len(Queue) = Len(wait_list) /\ Len(wait_list) \in Nat
      /\ wait_list # <<>> => Queue[1].kind = "write" /\ r # {} /\ Len(wait_list) > 0
      /\ wait_list = <<>> => Len(wait_list) = 0
  <2>1. wait_list \in Seq(Task)
    BY DEF TypeOK
  <2>2. wait_list # <<>> => 1 \in 1..Len(wait_list)
    BY <2>1
  <2> QED BY <2>1, <2>2, QueueMembers DEF is_write
<1>2. Lock!MayServe(0, r, {})
  BY DEF Lock!MayServe
<1>3. ASSUME NEW m \in (0 + 1)..Len(Queue) PROVE ~Lock!MayServe(m, r, {})
  <2>1. wait_list # <<>> /\ m \in Nat /\ m >= 1
    BY <1>1
  <2>2. Queue[1].kind = "write" /\ r # {} /\ 1 \in 1..m
    BY <1>1, <2>1
  <2> QED BY <2>1, <2>2 DEF Lock!MayServe, Lock!Compatible
<1>4. Lock!FirstTasks(0, "read") = {} /\ Lock!FirstTasks(0, "write") = {}
  BY DEF Lock!FirstTasks
<1>5. 0 \in 0..Len(Queue) /\ 0 + 1 = 1
  BY <1>1
<1> QED BY <1>2, <1>3, <1>4, <1>5 DEF Lock!Serve

(* RwLock serves one writer: it is first, and nobody has the semaphore.    *)
LEMMA ServeWriter ==
  ASSUME TypeOK, wait_list # <<>>, is_write(1),
         ReadHolders' = {}, WriteHolders' = {wait_list[1]},
         Queue' = SubSeq(Queue, 2, Len(Queue))
  PROVE  Lock!Serve({}, {})
<1>1. /\ Len(Queue) = Len(wait_list) /\ Len(wait_list) \in Nat /\ 1 \in 1..Len(wait_list)
      /\ Queue[1].kind = "write" /\ Queue[1].task = wait_list[1]
  <2>1. wait_list \in Seq(Task)
    BY DEF TypeOK
  <2>2. 1 \in 1..Len(wait_list)
    BY <2>1
  <2> QED BY <2>1, <2>2, QueueMembers DEF is_write
<1>2. Lock!MayServe(1, {}, {})
  BY <1>1 DEF Lock!MayServe, Lock!Compatible
<1>3. ASSUME NEW m \in (1 + 1)..Len(Queue) PROVE ~Lock!MayServe(m, {}, {})
  <2>1. m \in Nat /\ m >= 2 /\ 1 \in 1..m
    BY <1>1
  <2> QED BY <1>1, <2>1 DEF Lock!MayServe
<1>4. Lock!FirstTasks(1, "read") = {} /\ Lock!FirstTasks(1, "write") = {wait_list[1]}
  BY <1>1 DEF Lock!FirstTasks
<1>5. 1 \in 0..Len(Queue) /\ 1 + 1 = 2
  BY <1>1
<1> QED BY <1>2, <1>3, <1>4, <1>5 DEF Lock!Serve

(* RwLock serves the readers at the front of the queue, all of them.       *)
LEMMA ServeReaders ==
  ASSUME TypeOK, NEW n \in 1..Len(wait_list), front_readers(n), NEW r,
         ReadHolders' = r \cup {wait_list[i] : i \in 1..n}, WriteHolders' = {},
         Queue' = SubSeq(Queue, n + 1, Len(Queue))
  PROVE  Lock!Serve(r, {})
<1>1. /\ Len(Queue) = Len(wait_list) /\ Len(wait_list) \in Nat /\ n \in Nat
      /\ \A i \in 1..n : Queue[i].kind = "read" /\ Queue[i].task = wait_list[i]
      /\ n < Len(wait_list) => Queue[n + 1].kind = "write"
  <2>1. wait_list \in Seq(Task)
    BY DEF TypeOK
  <2>2. \A i \in 1..n : i \in 1..Len(wait_list) /\ flags[wait_list[i]] = READ
    BY <2>1 DEF front_readers, is_read
  <2>3. n < Len(wait_list) => n + 1 \in 1..Len(wait_list) /\ flags[wait_list[n + 1]] = WRITE
    BY <2>1 DEF front_readers, is_write
  <2>4. \A i \in 1..n : Queue[i].kind = "read" /\ Queue[i].task = wait_list[i]
    BY <2>2, QueueMembers
  <2> QED BY <2>1, <2>3, <2>4, QueueMembers
<1>2. Lock!MayServe(n, r, {})
  BY <1>1 DEF Lock!MayServe
<1>3. ASSUME NEW m \in (n + 1)..Len(Queue) PROVE ~Lock!MayServe(m, r, {})
  <2>1. m # 0 /\ m # 1 /\ n + 1 \in 1..m /\ Queue[n + 1].kind = "write"
    BY <1>1
  <2> QED BY <2>1 DEF Lock!MayServe
<1>4. /\ Lock!FirstTasks(n, "read") = {wait_list[i] : i \in 1..n}
      /\ Lock!FirstTasks(n, "write") = {}
  BY <1>1 DEF Lock!FirstTasks
<1>5. n \in 0..Len(Queue)
  BY <1>1
<1> QED BY <1>2, <1>3, <1>4, <1>5 DEF Lock!Serve

LEMMA UpReadRefines ==
  ASSUME RInv, NEW t \in Task, __up_read(t)
  PROVE  Lock!LeaveRead(t)
<1>1. /\ pc[t] = "in" /\ flags[t] = READ /\ waking = {} /\ ~granted[t]
      /\ pc' = [pc EXCEPT ![t] = "out"] /\ flags' = flags /\ state' = state
      /\ TypeOK /\ Exclusion
  BY DEF __up_read, wait_lock_free, RInv, Exclusion, GrantIsSeen
<1>2. /\ WriteHolders = {} /\ activity = Cardinality(ReadHolders) /\ activity > 0
      /\ activity = 1 => ReadHolders = {t}
      /\ t \in ReadHolders
  BY <1>1, ReadingMode DEF Holds, ReadHolders
<1>3. CASE activity - 1 = 0 /\ wait_list # <<>>
  <2>1. activity = 1 /\ ReadHolders \cup WriteHolders = {t} /\ ReadHolders \ {t} = {}
    BY <1>1, <1>2, <1>3 DEF TypeOK
  <2>2. is_write(1) /\ 1 \in 0..Len(wait_list)
    BY <1>1, <1>2, <1>3 DEF RInv, WriterAtHead, is_write, TypeOK
  <2>3. grant(1, -1)
    BY <1>3 DEF __up_read, __rwsem_wake_one_writer
  <2>4. ReadHolders' = {} /\ WriteHolders' = {wait_list[1]}
    BY <1>1, <1>3, <2>1, <2>2, <2>3, GrantWriter
  <2>5. Queue' = SubSeq(Queue, 1 + 1, Len(Queue))
    BY <1>1, <2>2, <2>3, QueueServed
  <2>6. Lock!Serve({}, {})
    BY <1>1, <1>3, <2>2, <2>4, <2>5, ServeWriter
  <2> QED BY <1>2, <2>1, <2>6 DEF Lock!LeaveRead
<1>4. CASE ~(activity - 1 = 0 /\ wait_list # <<>>)
  <2>1. grant(0, activity - 1) /\ 0 \in 0..Len(wait_list)
    BY <1>1, <1>4 DEF __up_read, TypeOK
  <2>2. activity' = activity - 1 /\ wait_list' = wait_list /\ granted' = granted
    BY <1>1, <2>1, GrantNobody
  <2>3. ReadHolders' = ReadHolders \ {t} /\ WriteHolders' = {}
    BY <1>1, <1>2, <2>2 DEF ReadHolders, WriteHolders, Holds, TypeOK
  <2>4. Queue' = SubSeq(Queue, 0 + 1, Len(Queue))
    BY <1>1, <2>1, QueueServed
  <2>5. wait_list # <<>> => is_write(1) /\ ReadHolders \ {t} # {}
    <3> SUFFICES ASSUME wait_list # <<>> PROVE is_write(1) /\ ReadHolders \ {t} # {}
      OBVIOUS
    <3>1. is_write(1)
      BY <1>1, <1>2 DEF RInv, WriterAtHead, is_write, TypeOK
    <3>2. activity # 1
      BY <1>4
    <3>3. ReadHolders # {t}
      BY <1>2, <3>2, FS_Singleton
    <3> QED BY <1>2, <3>1, <3>3
  <2>6. Lock!Serve(ReadHolders \ {t}, {})
    BY <1>1, <2>3, <2>4, <2>5, ServeNobody
  <2> QED BY <1>2, <2>6 DEF Lock!LeaveRead
<1> QED BY <1>3, <1>4

LEMMA UpWriteRefines ==
  ASSUME RInv, NEW t \in Task, __up_write(t)
  PROVE  Lock!LeaveWrite(t)
<1>1. /\ pc[t] = "in" /\ flags[t] = WRITE /\ waking = {} /\ ~granted[t]
      /\ pc' = [pc EXCEPT ![t] = "out"] /\ flags' = flags /\ state' = state
      /\ TypeOK /\ Exclusion
  BY DEF __up_write, wait_lock_free, RInv, Exclusion, GrantIsSeen
<1>2. /\ WriteHolders = {t} /\ ReadHolders = {} /\ WriteHolders \ {t} = {}
      /\ ReadHolders \cup WriteHolders = {t}
  BY <1>1, WritingMode DEF Holds
<1> SUFFICES Lock!Serve({}, {})
  BY <1>2 DEF Lock!LeaveWrite
<1>3. CASE wait_list = <<>>
  <2>1. grant(0, 0) /\ 0 \in 0..Len(wait_list)
    BY <1>1, <1>3 DEF __up_write, TypeOK
  <2>2. granted' = granted
    BY <1>1, <2>1, GrantNobody
  <2>3. ReadHolders' = {} /\ WriteHolders' = {}
    BY <1>1, <1>2, <2>2 DEF ReadHolders, WriteHolders, Holds, TypeOK
  <2>4. Queue' = SubSeq(Queue, 0 + 1, Len(Queue))
    BY <1>1, <2>1, QueueServed
  <2> QED BY <1>1, <1>3, <2>3, <2>4, ServeNobody
<1>4. CASE wait_list # <<>> /\ is_write(1) /\ grant(1, -1)
  <2>1. 1 \in 0..Len(wait_list)
    BY <1>1, <1>4 DEF TypeOK
  <2>2. ReadHolders' = {} /\ WriteHolders' = {wait_list[1]}
    BY <1>1, <1>2, <1>4, GrantWriter
  <2>3. Queue' = SubSeq(Queue, 1 + 1, Len(Queue))
    BY <1>1, <1>4, <2>1, QueueServed
  <2> QED BY <1>1, <1>4, <2>2, <2>3, ServeWriter
<1>5. CASE \E n \in 1..Len(wait_list) : front_readers(n) /\ grant(n, 0 + n)
  <2>1. PICK n \in 1..Len(wait_list) : front_readers(n) /\ grant(n, 0 + n)
    BY <1>5
  <2>2. /\ flags' \in [Task -> Kinds] /\ \A u \in Task \ {t} : flags'[u] = flags[u]
        /\ pc'[t] = "out" /\ n \in 0..Len(wait_list) /\ {} \in SUBSET {t}
        /\ grant(n, Cardinality({}) + n)
    BY <1>1, <2>1, FS_EmptySet DEF TypeOK
  <2>3. ReadHolders' = {} \cup {wait_list[i] : i \in 1..n} /\ WriteHolders' = {}
    BY <1>1, <1>2, <2>1, <2>2, GrantReaders
  <2>4. Queue' = SubSeq(Queue, n + 1, Len(Queue))
    BY <1>1, <2>1, <2>2, QueueServed
  <2> QED BY <1>1, <2>1, <2>3, <2>4, ServeReaders
<1> QED BY <1>3, <1>4, <1>5 DEF __up_write, __rwsem_do_wake

LEMMA DowngradeRefines ==
  ASSUME RInv, NEW t \in Task, __downgrade_write(t)
  PROVE  Lock!Downgrade(t)
<1>1. /\ pc[t] = "in" /\ flags[t] = WRITE /\ waking = {} /\ ~granted[t]
      /\ pc' = pc /\ flags' = [flags EXCEPT ![t] = READ] /\ state' = state
      /\ TypeOK /\ Exclusion
  BY DEF __downgrade_write, wait_lock_free, RInv, Exclusion, GrantIsSeen
<1>2. /\ WriteHolders = {t} /\ ReadHolders = {} /\ WriteHolders \ {t} = {}
      /\ ReadHolders \cup WriteHolders = {t} /\ ReadHolders \cup {t} = {t}
  BY <1>1, WritingMode DEF Holds
<1> SUFFICES Lock!Serve({t}, {})
  BY <1>2 DEF Lock!Downgrade
<1>3. /\ flags' \in [Task -> Kinds] /\ flags'[t] = READ
      /\ \A u \in Task \ {t} : flags'[u] = flags[u]
  BY <1>1 DEF TypeOK
<1>4. CASE grant(0, 1) /\ (wait_list # <<>> => is_write(1))
  <2>1. 0 \in 0..Len(wait_list)
    BY <1>1 DEF TypeOK
  <2>2. granted' = granted
    BY <1>1, <1>4, GrantNobody
  <2>3. ReadHolders' = {t} /\ WriteHolders' = {}
    BY <1>1, <1>2, <1>3, <2>2 DEF ReadHolders, WriteHolders, Holds, TypeOK
  <2>4. Queue' = SubSeq(Queue, 0 + 1, Len(Queue))
    BY <1>1, <1>3, <1>4, <2>1, QueueServed
  <2>5. {t} # {}
    OBVIOUS
  <2> QED BY <1>1, <1>4, <2>3, <2>4, <2>5, ServeNobody
<1>5. CASE \E n \in 1..Len(wait_list) : front_readers(n) /\ grant(n, 1 + n)
  <2>1. PICK n \in 1..Len(wait_list) : front_readers(n) /\ grant(n, 1 + n)
    BY <1>5
  <2>2. pc'[t] = "in" /\ n \in 0..Len(wait_list) /\ {t} \in SUBSET {t}
    BY <1>1 DEF TypeOK
  <2>3. grant(n, Cardinality({t}) + n)
    <3>1. Cardinality({t}) = 1
      BY FS_Singleton
    <3> QED BY <2>1, <3>1
  <2>4. ReadHolders' = {t} \cup {wait_list[i] : i \in 1..n} /\ WriteHolders' = {}
    BY <1>1, <1>2, <1>3, <2>1, <2>2, <2>3, GrantReaders
  <2>5. Queue' = SubSeq(Queue, n + 1, Len(Queue))
    BY <1>1, <1>3, <2>1, <2>2, QueueServed
  <2> QED BY <1>1, <2>1, <2>4, <2>5, ServeReaders
<1> QED BY <1>4, <1>5 DEF __downgrade_write, __rwsem_do_wake

LEMMA RefineInit == Init => Lock!LInit
<1> SUFFICES ASSUME Init PROVE Lock!LInit
  OBVIOUS
<1>1. ReadHolders = {} /\ WriteHolders = {}
  BY DEF Init, ReadHolders, WriteHolders, Holds
<1>2. TypeOK /\ wait_list = <<>>
  BY RInvInit DEF Init, RInv, Exclusion
<1>3. Queue = <<>>
  BY <1>2, QueueOfList
<1> QED BY <1>1, <1>3 DEF Lock!LInit

LEMMA RefineNext == RInv /\ [Next]_vars => [Lock!LNext]_(Lock!lvars)
<1> SUFFICES ASSUME RInv, [Next]_vars
             PROVE  Lock!LNext \/ UNCHANGED <<ReadHolders, WriteHolders, Queue>>
  BY DEF Lock!lvars
<1>1. CASE UNCHANGED vars
  BY <1>1 DEF vars, ReadHolders, WriteHolders, Holds, Queue
<1>2. ASSUME NEW t \in Task, NEW k \in Kinds, down_with(t, k) \/ trylock(t, k)
      PROVE  Lock!LNext
  <2>1. Lock!Enter(t, k)
    BY <1>2, TakeRefines, QueueUpRefines DEF down_with, trylock
  <2> QED BY <2>1 DEF Lock!LNext, Lock!Kinds
<1>3. ASSUME NEW t \in Task,
             wait_check(t) \/ wait_resume(t) \/ wake_up_process(t) \/ stray_wake_up(t)
      PROVE  UNCHANGED <<ReadHolders, WriteHolders, Queue>>
  BY <1>3, WaitRefines
<1>4. ASSUME NEW t \in Task, Release(t) \/ __downgrade_write(t)
      PROVE  Lock!LNext
  BY <1>4, UpReadRefines, UpWriteRefines, DowngradeRefines DEF Release, Lock!LNext
<1> QED BY <1>1, <1>2, <1>3, <1>4 DEF Next, __down_read, __down_write,
           __down_read_trylock, __down_write_trylock

(* The semaphore implements the abstract reader/writer lock: count, grants *)
(* and wake-ups together serve the queue exactly as RwLock says, for every *)
(* number of tasks.                                                        *)
THEOREM RwSemImplementsRwLock == Spec => ImplementsRwLock
<1> QED BY RInvInit, RInvNext, RefineInit, RefineNext, PTL
        DEF Spec, ImplementsRwLock, Lock!LSpec

=============================================================================
