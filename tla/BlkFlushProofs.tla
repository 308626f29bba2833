-------------------------- MODULE BlkFlushProofs ---------------------------
(***************************************************************************)
(* Proofs about the flush machinery, for every finite set of requests.     *)
(*                                                                         *)
(* The invariant is stated of a value s of q, of the requests d the driver *)
(* has and of the requests e the I/O scheduler has, because it is also     *)
(* what holds between two turns of the walk in flush_end_io().             *)
(***************************************************************************)
EXTENDS BlkFlush, LibProofs

Sequenced(s, r) == s.rq[r].on /\ s.rq[r].sequenced
Cur(s, r) == blk_flush_cur_seq(s.rq[r])
OnQueue(s, r) == OnList(s.flush_queue[0], r) \/ OnList(s.flush_queue[1], r)

(* The lists are lists. *)
Linked(s) ==
  /\ OnceEach(s.queue_head)
  /\ \A i \in 0..1 : OnceEach(s.flush_queue[i])
  /\ \A r \in Request : ~(OnList(s.flush_queue[0], r) /\ OnList(s.flush_queue[1], r))

(* A request that is submitted is in one place, a flush list, the queue,   *)
(* the driver or the I/O scheduler, and its next step says which.          *)
Placed(s, d, e, r) ==
  /\ s.rq[r].on <=> OnQueue(s, r) \/ OnList(s.queue_head, r) \/ r \in d \/ r \in e
  /\ OnQueue(s, r) <=> Sequenced(s, r) /\ Cur(s, r) \in {PREFLUSH, POSTFLUSH}
  /\ r \in s.flush_data_in_flight <=> Sequenced(s, r) /\ Cur(s, r) = DATA
  /\ Sequenced(s, r) => Cur(s, r) # DONE
  /\ OnQueue(s, r) => ~OnList(s.queue_head, r) /\ r \notin d
  /\ OnList(s.queue_head, r) => r \notin d
  /\ r \in e => ~OnList(s.queue_head, r) /\ r \notin d /\ ~s.rq[r].sequenced

(* The one flush request is in use while the indices differ. *)
FlushRq(s, d) ==
  /\ in_progress(s) <=> OnList(s.queue_head, flush_rq) \/ flush_rq \in d
  /\ ~(OnList(s.queue_head, flush_rq) /\ flush_rq \in d)

(* A flush in progress is for somebody, and nobody waits for one that is   *)
(* not.                                                                    *)
Running(s) == s.flush_queue[1 - s.flush_pending_idx] # <<>> <=> in_progress(s)

Safe(s, o) == s.rq[o].cache # "cached"

(* What a request waits for, its own data and that of others, is still in  *)
(* the cache only if the flush of the present step has not been made.      *)
Wanted(s, r) ==
  /\ s.rq[r].must \subseteq {o \in Request : ~s.rq[o].on}
  /\ s.rq[r].on => \/ \A o \in s.rq[r].must : Safe(s, o)
                   \/ s.rq[r].sequenced /\ PREFLUSH \notin s.rq[r].seq
  /\ s.rq[r].on /\ "FUA" \in s.rq[r].kind.flags =>
       \/ Safe(s, r) /\ flush_flags # {"FLUSH"}
       \/ s.rq[r].sequenced /\ POSTFLUSH \notin s.rq[r].seq

(* The flush in the device will save what those it is for want.            *)
Covers(s, d, cov) ==
  flush_rq \in d => \A r \in Request : OnList(s.flush_queue[s.flush_running_idx], r) =>
    \A o \in s.rq[r].must \cup {r} : Safe(s, o) \/ o \in cov

NoCache(s) == flush_flags = {} => \A r \in Request : Safe(s, r)

BInv ==
  /\ TypeOK /\ Linked(q) /\ (\A r \in Request : Placed(q, device, elevator, r))
  /\ FlushRq(q, device) /\ Running(q)
  /\ NeverStalls
  /\ NoCache(q) /\ (\A r \in Request : Wanted(q, r)) /\ Covers(q, device, covered)

USE DEF PREFLUSH, DATA, POSTFLUSH, DONE, FSEQ_ACTIONS

(* The first step that is not behind the request. *)
LEMMA CurSeq ==
  ASSUME NEW x, x.seq \in SUBSET FSEQ_ACTIONS
  PROVE  blk_flush_cur_seq(x) = IF PREFLUSH \notin x.seq THEN PREFLUSH
                                ELSE IF DATA \notin x.seq THEN DATA
                                ELSE IF POSTFLUSH \notin x.seq THEN POSTFLUSH ELSE DONE
<1> DEFINE First(n) == n \notin x.seq /\ \A m \in 1..(n - 1) : m \in x.seq
           k == IF PREFLUSH \notin x.seq THEN PREFLUSH
                ELSE IF DATA \notin x.seq THEN DATA
                ELSE IF POSTFLUSH \notin x.seq THEN POSTFLUSH ELSE DONE
<1>1. k \in 1..4 /\ First(k)
  OBVIOUS
<1>2. \A n \in 1..4 : First(n) => n = k
  OBVIOUS
<1> QED BY <1>1, <1>2 DEF blk_flush_cur_seq

(* A new element at the head of a list. *)
LEMMA ListAddHead ==
  ASSUME NEW S, NEW s \in Seq(S), NEW w \in S, ~OnList(s, w), OnceEach(s)
  PROVE  /\ <<w>> \o s \in Seq(S) /\ Len(<<w>> \o s) = Len(s) + 1
         /\ OnList(<<w>> \o s, w)
         /\ \A v : v # w => (OnList(<<w>> \o s, v) <=> OnList(s, v))
         /\ OnceEach(<<w>> \o s)
<1> DEFINE l == <<w>> \o s
<1>1. /\ l \in Seq(S) /\ Len(l) = Len(s) + 1 /\ Len(s) \in Nat
      /\ l[1] = w /\ \A i \in 1..Len(s) : l[i + 1] = s[i]
  OBVIOUS
<1>2. \A i \in 2..Len(l) : i - 1 \in 1..Len(s) /\ l[i] = s[i - 1]
  <2> SUFFICES ASSUME NEW i \in 2..Len(l) PROVE i - 1 \in 1..Len(s) /\ l[i] = s[i - 1]
    OBVIOUS
  <2>1. i - 1 \in 1..Len(s) /\ (i - 1) + 1 = i
    BY <1>1
  <2> QED BY <1>1, <2>1
<1>3. \A i \in 1..Len(l) : i = 1 \/ i \in 2..Len(l)
  BY <1>1
<1> HIDE DEF l
<1>4. OnList(l, w)
  BY <1>1 DEF OnList
<1>5. ASSUME NEW v, v # w PROVE OnList(l, v) <=> OnList(s, v)
  <2>1. ASSUME OnList(l, v) PROVE OnList(s, v)
    BY <1>1, <1>2, <1>3, <1>5, <2>1 DEF OnList
  <2>2. ASSUME OnList(s, v) PROVE OnList(l, v)
    <3>1. PICK i \in 1..Len(s) : s[i] = v
      BY <2>2 DEF OnList
    <3>2. i + 1 \in 1..Len(l) /\ l[i + 1] = v
      BY <1>1, <3>1
    <3> QED BY <3>2 DEF OnList
  <2> QED BY <2>1, <2>2
<1>6. OnceEach(l)
  <2> SUFFICES ASSUME NEW i \in 1..Len(l), NEW j \in 1..Len(l), l[i] = l[j] PROVE i = j
    BY DEF OnceEach
  <2>1. CASE i = 1 \/ j = 1
    BY <1>1, <1>2, <1>3, <2>1 DEF OnList
  <2>2. CASE i \in 2..Len(l) /\ j \in 2..Len(l)
    <3>1. i - 1 \in 1..Len(s) /\ j - 1 \in 1..Len(s) /\ s[i - 1] = s[j - 1]
      BY <1>2, <2>2
    <3>2. i - 1 = j - 1
      BY <3>1 DEF OnceEach
    <3> QED BY <3>2
  <2> QED BY <1>3, <2>1, <2>2
<1> QED BY <1>1, <1>4, <1>5, <1>6 DEF l

(* A list is empty when nothing is on it. *)
LEMMA ListEmpty ==
  ASSUME NEW S, NEW s \in Seq(S)
  PROVE  /\ s = <<>> => \A w : ~OnList(s, w)
         /\ s # <<>> => \E w \in S : OnList(s, w)
<1>1. ASSUME s = <<>> PROVE \A w : ~OnList(s, w)
  BY <1>1 DEF OnList
<1>2. ASSUME s # <<>> PROVE \E w \in S : OnList(s, w)
  <2>1. 1 \in 1..Len(s) /\ s[1] \in S
    BY <1>2
  <2> QED BY <2>1 DEF OnList
<1> QED BY <1>1, <1>2

(* list_del_init() in any case. *)
LEMMA ListDelInit ==
  ASSUME NEW S, NEW s \in Seq(S), NEW w, OnceEach(s)
  PROVE  LET l == list_del_init(s, w)
         IN  /\ l \in Seq(S) /\ OnceEach(l) /\ ~OnList(l, w)
             /\ \A v : v # w => (OnList(l, v) <=> OnList(s, v))
             /\ Len(l) = Len(s) - (IF OnList(s, w) THEN 1 ELSE 0)
<1>1. CASE OnList(s, w)
  BY <1>1, ListDel DEF list_del_init
<1>2. CASE ~OnList(s, w)
  BY <1>2 DEF list_del_init
<1> QED BY <1>1, <1>2

HasPast(s, r, seq, p) ==
  /\ p \in Queues /\ Linked(p)
  /\ p.rq = [s.rq EXCEPT ![r].seq = @ \cup seq]
  /\ \A i \in 0..1 :
       /\ ~OnList(p.flush_queue[i], r)
       /\ \A o : o # r => (OnList(p.flush_queue[i], o) <=> OnList(s.flush_queue[i], o))
       /\ Len(p.flush_queue[i]) = Len(s.flush_queue[i])
                                  - (IF OnList(s.flush_queue[i], r) THEN 1 ELSE 0)
  /\ p.flush_data_in_flight = s.flush_data_in_flight \ {r}
  /\ p.flush_pending_idx = s.flush_pending_idx
  /\ p.flush_running_idx = s.flush_running_idx
  /\ p.late = s.late /\ p.queue_head = s.queue_head

(* r leaves the flush lists and the data in flight. *)
LEMMA Past ==
  ASSUME NEW s \in Queues, NEW r \in Request, NEW seq \in SUBSET FSEQ_ACTIONS, Linked(s),
         NEW p, p = past(s, r, seq)
  PROVE  HasPast(s, r, seq, p)
<1>1. /\ p.rq = [s.rq EXCEPT ![r].seq = @ \cup seq]
      /\ p.flush_queue = [i \in 0..1 |-> list_del_init(s.flush_queue[i], r)]
      /\ p.flush_data_in_flight = s.flush_data_in_flight \ {r}
      /\ p.flush_pending_idx = s.flush_pending_idx
      /\ p.flush_running_idx = s.flush_running_idx
      /\ p.late = s.late /\ p.queue_head = s.queue_head
  BY DEF past, Queues
<1>2. ASSUME NEW i \in 0..1
      PROVE  /\ p.flush_queue[i] \in Seq(Request) /\ OnceEach(p.flush_queue[i])
             /\ ~OnList(p.flush_queue[i], r)
             /\ \A o : o # r => (OnList(p.flush_queue[i], o) <=> OnList(s.flush_queue[i], o))
             /\ Len(p.flush_queue[i]) = Len(s.flush_queue[i])
                                        - (IF OnList(s.flush_queue[i], r) THEN 1 ELSE 0)
  <2>1. p.flush_queue[i] = list_del_init(s.flush_queue[i], r)
    BY <1>1
  <2>2. s.flush_queue[i] \in Seq(Request) /\ OnceEach(s.flush_queue[i])
    BY DEF Queues, Linked
  <2> QED BY <2>1, <2>2, ListDelInit
<1>3. p.rq \in [Request -> Requests]
  <2>1. s.rq[r] \in Requests /\ s.rq \in [Request -> Requests]
    BY DEF Queues
  <2>2. [s.rq[r] EXCEPT !.seq = @ \cup seq] \in Requests
    BY <2>1 DEF Requests
  <2> QED BY <1>1, <2>1, <2>2
<1>4. p \in Queues
  <2>1. p.flush_queue \in [0..1 -> Seq(Request)]
    BY <1>1, <1>2
  <2> QED BY <1>3, <2>1 DEF past, Queues
<1>5. Linked(p)
  BY <1>1, <1>2 DEF Linked
<1> QED BY <1>1, <1>2, <1>4, <1>5 DEF HasPast

HasBegun(p, r, step, error, pending, t) ==
  /\ t \in Queues /\ Linked(t)
  /\ t.flush_pending_idx = p.flush_pending_idx
  /\ t.flush_running_idx = p.flush_running_idx
  /\ t.rq = IF step = DONE
              THEN [p.rq EXCEPT ![r] = [Idle EXCEPT !.error = error, !.cache = p.rq[r].cache]]
              ELSE p.rq
  /\ \A i \in 0..1, o \in Request :
       OnList(t.flush_queue[i], o) <=>
         OnList(p.flush_queue[i], o) \/ (o = r /\ i = pending /\ step \in {PREFLUSH, POSTFLUSH})
  /\ \A i \in 0..1 :
       Len(t.flush_queue[i]) = Len(p.flush_queue[i])
         + (IF i = pending /\ step \in {PREFLUSH, POSTFLUSH} THEN 1 ELSE 0)
  /\ t.flush_data_in_flight = p.flush_data_in_flight \cup (IF step = DATA THEN {r} ELSE {})
  /\ \A o : OnList(t.queue_head, o) <=> OnList(p.queue_head, o) \/ (o = r /\ step = DATA)
  /\ IF step = DATA THEN Len(t.queue_head) = Len(p.queue_head) + 1
                    ELSE t.queue_head = p.queue_head

(* What the steps do to the fields of the queue. *)
LEMMA BeginStep ==
  ASSUME NEW p \in Queues, NEW r \in Request, NEW step \in 1..4, NEW error \in BOOLEAN,
         NEW pending \in 0..1, NEW late \in BOOLEAN, Linked(p), ~OnQueue(p, r),
         ~OnList(p.queue_head, r), r \notin p.flush_data_in_flight,
         NEW t, t = begin_step(p, r, step, error, pending, late)
  PROVE  HasBegun(p, r, step, error, pending, t)
<1>1. CASE step \in {PREFLUSH, POSTFLUSH}
  <2>1. t = [p EXCEPT !.late = late, !.flush_queue[pending] = Append(@, r)]
    BY <1>1 DEF begin_step
  <2>2. /\ t.rq = p.rq /\ t.flush_queue = [p.flush_queue EXCEPT ![pending] = Append(@, r)]
        /\ t.flush_data_in_flight = p.flush_data_in_flight
        /\ t.flush_pending_idx = p.flush_pending_idx
        /\ t.flush_running_idx = p.flush_running_idx
        /\ t.queue_head = p.queue_head
    BY <2>1 DEF Queues
  <2>3. p.flush_queue \in [0..1 -> Seq(Request)] /\ \A i \in 0..1 : ~OnList(p.flush_queue[i], r)
    BY DEF Queues, OnQueue
  <2>4. t.flush_queue[pending] = list_add_tail(p.flush_queue[pending], r)
    BY <2>2, <2>3 DEF list_add_tail
  <2>5. /\ t.flush_queue[pending] \in Seq(Request) /\ OnceEach(t.flush_queue[pending])
        /\ OnList(t.flush_queue[pending], r)
        /\ \A o : o # r => (OnList(t.flush_queue[pending], o) <=> OnList(p.flush_queue[pending], o))
    BY <2>3, <2>4, ListAddTail DEF Linked
  <2>6. Len(t.flush_queue[pending]) = Len(p.flush_queue[pending]) + 1
    BY <2>3, <2>4 DEF list_add_tail
  <2>7. \A i \in 0..1 : i # pending => t.flush_queue[i] = p.flush_queue[i]
    BY <2>2, <2>3
  <2>8. t \in Queues
    <3>1. t.flush_queue \in [0..1 -> Seq(Request)]
      BY <2>2, <2>3, <2>5
    <3> QED BY <2>1, <3>1 DEF Queues
  <2>9. Linked(t)
    <3>1. \A i \in 0..1 : OnceEach(t.flush_queue[i])
      BY <2>5, <2>7 DEF Linked
    <3>2. \A o \in Request : ~(OnList(t.flush_queue[0], o) /\ OnList(t.flush_queue[1], o))
      <4> SUFFICES ASSUME NEW o \in Request
                   PROVE ~(OnList(t.flush_queue[0], o) /\ OnList(t.flush_queue[1], o))
        OBVIOUS
      <4>1. CASE pending = 0
        BY <2>3, <2>5, <2>7, <4>1 DEF Linked
      <4>2. CASE pending = 1
        BY <2>3, <2>5, <2>7, <4>2 DEF Linked
      <4> QED BY <4>1, <4>2
    <3> QED BY <2>2, <3>1, <3>2 DEF Linked
  <2>10. \A i \in 0..1 : Len(p.flush_queue[i]) \in Nat
    BY <2>3
  <2>11. \A i \in 0..1 : Len(t.flush_queue[i]) = Len(p.flush_queue[i])
                           + (IF i = pending THEN 1 ELSE 0)
    <3> SUFFICES ASSUME NEW i \in 0..1
                 PROVE  Len(t.flush_queue[i]) = Len(p.flush_queue[i]) + (IF i = pending THEN 1 ELSE 0)
      OBVIOUS
    <3>1. CASE i = pending
      BY <2>6, <3>1
    <3>2. CASE i # pending
      BY <2>7, <2>10, <3>2
    <3> QED BY <3>1, <3>2
  <2>12. \A i \in 0..1, o \in Request :
           OnList(t.flush_queue[i], o) <=> OnList(p.flush_queue[i], o) \/ (o = r /\ i = pending)
    BY <2>3, <2>5, <2>7
  <2>13. step # DATA /\ step # DONE
    BY <1>1
  <2>14. \A i \in 0..1 : Len(t.flush_queue[i]) = Len(p.flush_queue[i])
           + (IF i = pending /\ step \in {PREFLUSH, POSTFLUSH} THEN 1 ELSE 0)
    BY <1>1, <2>11
  <2> QED BY <1>1, <2>2, <2>8, <2>9, <2>12, <2>13, <2>14 DEF HasBegun
<1>2. CASE step = DATA
  <2>1. t = [p EXCEPT !.flush_data_in_flight = @ \cup {r}, !.queue_head = <<r>> \o @]
    BY <1>2 DEF begin_step
  <2>2. /\ t.rq = p.rq /\ t.flush_queue = p.flush_queue
        /\ t.flush_data_in_flight = p.flush_data_in_flight \cup {r}
        /\ t.flush_pending_idx = p.flush_pending_idx
        /\ t.flush_running_idx = p.flush_running_idx
        /\ t.queue_head = <<r>> \o p.queue_head
    BY <2>1 DEF Queues
  <2>3. p.queue_head \in Seq(Request \cup {flush_rq}) /\ r \in Request \cup {flush_rq}
    BY DEF Queues
  <2>4. /\ t.queue_head \in Seq(Request \cup {flush_rq}) /\ OnceEach(t.queue_head)
        /\ OnList(t.queue_head, r) /\ Len(t.queue_head) = Len(p.queue_head) + 1
        /\ \A o : o # r => (OnList(t.queue_head, o) <=> OnList(p.queue_head, o))
    BY <2>2, <2>3, ListAddHead DEF Linked
  <2>5. t \in Queues
    BY <2>1, <2>2, <2>4 DEF Queues
  <2>6. Linked(t)
    BY <2>2, <2>4 DEF Linked
  <2>7. \A i \in 0..1 : Len(p.flush_queue[i]) + 0 = Len(p.flush_queue[i])
    BY DEF Queues
  <2> QED BY <1>2, <2>2, <2>4, <2>5, <2>6, <2>7 DEF HasBegun
<1>3. CASE step = DONE
  <2>1. t = [p EXCEPT !.rq[r] = [Idle EXCEPT !.error = error, !.cache = p.rq[r].cache]]
    BY <1>3 DEF begin_step, __blk_end_request_all
  <2>2. /\ t.rq = [p.rq EXCEPT ![r] = [Idle EXCEPT !.error = error, !.cache = p.rq[r].cache]]
        /\ t.flush_queue = p.flush_queue
        /\ t.flush_data_in_flight = p.flush_data_in_flight
        /\ t.flush_pending_idx = p.flush_pending_idx
        /\ t.flush_running_idx = p.flush_running_idx
        /\ t.queue_head = p.queue_head
    BY <2>1 DEF Queues
  <2>3. [Idle EXCEPT !.error = error, !.cache = p.rq[r].cache] \in Requests
    BY DEF Idle, Queues, Requests
  <2>4. t \in Queues
    BY <2>1, <2>2, <2>3 DEF Queues
  <2>5. Linked(t)
    BY <2>2 DEF Linked
  <2>6. \A i \in 0..1 : Len(p.flush_queue[i]) + 0 = Len(p.flush_queue[i])
    BY DEF Queues
  <2> QED BY <1>3, <2>2, <2>4, <2>5, <2>6 DEF HasBegun
<1>4. step \in {PREFLUSH, POSTFLUSH} \/ step = DATA \/ step = DONE
  OBVIOUS
<1> QED BY <1>1, <1>2, <1>3, <1>4

HasStepped(s, r, seq, error, pending, t) ==
  /\ t \in Queues /\ Linked(t)
  /\ t.flush_pending_idx = s.flush_pending_idx
  /\ t.flush_running_idx = s.flush_running_idx
  /\ \A o \in Request : o # r => t.rq[o] = s.rq[o]
  /\ t.rq[r].cache = s.rq[r].cache
  /\ \/ /\ t.rq[r] = [Idle EXCEPT !.error = error, !.cache = s.rq[r].cache]
        /\ ~OnQueue(t, r) /\ ~OnList(t.queue_head, r) /\ r \notin t.flush_data_in_flight
        /\ error \/ s.rq[r].seq \cup seq = FSEQ_ACTIONS
     \/ /\ t.rq[r] = [s.rq[r] EXCEPT !.seq = @ \cup seq]
        /\ ~error /\ Cur(t, r) # DONE
        /\ OnQueue(t, r) <=> Cur(t, r) \in {PREFLUSH, POSTFLUSH}
        /\ OnList(t.queue_head, r) <=> Cur(t, r) = DATA
        /\ r \in t.flush_data_in_flight <=> Cur(t, r) = DATA
  /\ OnQueue(t, r) => OnList(t.flush_queue[pending], r)
  /\ \A i \in 0..1, o \in Request :
       o # r => (OnList(t.flush_queue[i], o) <=> OnList(s.flush_queue[i], o))
  /\ \A i \in 0..1 : Len(t.flush_queue[i]) = Len(s.flush_queue[i])
       - (IF OnList(s.flush_queue[i], r) THEN 1 ELSE 0)
       + (IF OnList(t.flush_queue[i], r) THEN 1 ELSE 0)
  /\ \A o : o # r => (o \in t.flush_data_in_flight <=> o \in s.flush_data_in_flight)
  /\ \A o : o # r => (OnList(t.queue_head, o) <=> OnList(s.queue_head, o))
  /\ t.queue_head = s.queue_head \/ Len(t.queue_head) > Len(s.queue_head)

(* The next step of r: r is moved, or ended, and nothing else changes. *)
LEMMA FlushStep ==
  ASSUME NEW s \in Queues, NEW r \in Request, NEW seq \in SUBSET FSEQ_ACTIONS,
         NEW error \in BOOLEAN, NEW pending \in 0..1, Linked(s), ~OnList(s.queue_head, r),
         NEW t, t = flush_step(s, r, seq, error, pending)
  PROVE  HasStepped(s, r, seq, error, pending, t)
<1> DEFINE p == past(s, r, seq)
           step == IF error THEN DONE ELSE blk_flush_cur_seq(p.rq[r])
           late == s.late /\ s.flush_queue[pending] # <<>>
<1>1. HasPast(s, r, seq, p)
  BY Past
<1>2. t = begin_step(p, r, step, error, pending, late)
  BY DEF flush_step
<1> HIDE DEF p
<1>3. /\ p.rq[r] = [s.rq[r] EXCEPT !.seq = @ \cup seq] /\ p.rq[r].seq = s.rq[r].seq \cup seq
      /\ p.rq[r].seq \in SUBSET FSEQ_ACTIONS /\ p.rq[r].cache = s.rq[r].cache
      /\ \A o \in Request : o # r => p.rq[o] = s.rq[o]
      /\ s.rq \in [Request -> Requests] /\ p.rq \in [Request -> Requests]
  <2>1. s.rq[r] \in Requests /\ s.rq \in [Request -> Requests] /\ p.rq \in [Request -> Requests]
    BY <1>1 DEF Queues, HasPast
  <2> QED BY <1>1, <2>1 DEF Requests, HasPast
<1>4. blk_flush_cur_seq(p.rq[r]) = IF PREFLUSH \notin p.rq[r].seq THEN PREFLUSH
                                   ELSE IF DATA \notin p.rq[r].seq THEN DATA
                                   ELSE IF POSTFLUSH \notin p.rq[r].seq THEN POSTFLUSH ELSE DONE
  BY <1>3, CurSeq
<1>5. step \in 1..4 /\ late \in BOOLEAN
  BY <1>4 DEF Queues
<1>6. ~OnQueue(p, r) /\ ~OnList(p.queue_head, r) /\ r \notin p.flush_data_in_flight
  BY <1>1 DEF OnQueue, HasPast
<1> HIDE DEF step, late
<1>7. HasBegun(p, r, step, error, pending, t)
  BY <1>1, <1>2, <1>5, <1>6, BeginStep DEF HasPast
<1>8. \A o \in Request : o # r => t.rq[o] = s.rq[o]
  BY <1>3, <1>7 DEF HasBegun
<1>9. \A i \in 0..1 : OnList(t.flush_queue[i], r) <=> i = pending /\ step \in {PREFLUSH, POSTFLUSH}
  BY <1>1, <1>7 DEF HasPast, HasBegun
<1>10. OnQueue(t, r) <=> step \in {PREFLUSH, POSTFLUSH}
  BY <1>9 DEF OnQueue
<1>11. (r \in t.flush_data_in_flight <=> step = DATA) /\ (OnList(t.queue_head, r) <=> step = DATA)
  BY <1>6, <1>7 DEF HasBegun
<1>12. ASSUME step = DONE
       PROVE  /\ t.rq[r].cache = s.rq[r].cache
              /\ t.rq[r] = [Idle EXCEPT !.error = error, !.cache = s.rq[r].cache]
              /\ ~OnQueue(t, r) /\ ~OnList(t.queue_head, r) /\ r \notin t.flush_data_in_flight
              /\ error \/ s.rq[r].seq \cup seq = FSEQ_ACTIONS
  <2>1. t.rq[r] = [Idle EXCEPT !.error = error, !.cache = s.rq[r].cache]
    BY <1>3, <1>7, <1>12 DEF HasBegun
  <2>2. t.rq[r].cache = s.rq[r].cache
    BY <2>1 DEF Idle
  <2>3. error \/ s.rq[r].seq \cup seq = FSEQ_ACTIONS
    <3>1. error \/ (PREFLUSH \in p.rq[r].seq /\ DATA \in p.rq[r].seq /\ POSTFLUSH \in p.rq[r].seq)
      BY <1>4, <1>12 DEF step
    <3> QED BY <1>3, <3>1
  <2>4. ~OnQueue(t, r) /\ ~OnList(t.queue_head, r) /\ r \notin t.flush_data_in_flight
    BY <1>10, <1>11, <1>12
  <2> QED BY <2>1, <2>2, <2>3, <2>4
<1>13. ASSUME step # DONE
       PROVE  /\ t.rq[r].cache = s.rq[r].cache
              /\ t.rq[r] = [s.rq[r] EXCEPT !.seq = @ \cup seq]
              /\ ~error /\ Cur(t, r) # DONE
              /\ OnQueue(t, r) <=> Cur(t, r) \in {PREFLUSH, POSTFLUSH}
              /\ OnList(t.queue_head, r) <=> Cur(t, r) = DATA
              /\ r \in t.flush_data_in_flight <=> Cur(t, r) = DATA
  <2>1. t.rq[r] = [s.rq[r] EXCEPT !.seq = @ \cup seq] /\ t.rq[r].cache = s.rq[r].cache
    BY <1>3, <1>7, <1>13 DEF HasBegun
  <2>2. ~error /\ Cur(t, r) = step
    BY <1>7, <1>13 DEF Cur, step, HasBegun
  <2> QED BY <1>10, <1>11, <1>13, <2>1, <2>2
<1>14. \A i \in 0..1, o \in Request :
         o # r => (OnList(t.flush_queue[i], o) <=> OnList(s.flush_queue[i], o))
  BY <1>1, <1>7 DEF HasPast, HasBegun
<1>15. \A i \in 0..1 : Len(t.flush_queue[i]) = Len(s.flush_queue[i])
              - (IF OnList(s.flush_queue[i], r) THEN 1 ELSE 0)
              + (IF OnList(t.flush_queue[i], r) THEN 1 ELSE 0)
  <2> SUFFICES ASSUME NEW i \in 0..1
               PROVE  Len(t.flush_queue[i]) = Len(s.flush_queue[i])
                        - (IF OnList(s.flush_queue[i], r) THEN 1 ELSE 0)
                        + (IF OnList(t.flush_queue[i], r) THEN 1 ELSE 0)
    OBVIOUS
  <2>1. Len(s.flush_queue[i]) \in Nat
    BY DEF Queues
  <2>2. Len(p.flush_queue[i]) = Len(s.flush_queue[i]) - (IF OnList(s.flush_queue[i], r) THEN 1 ELSE 0)
    BY <1>1 DEF HasPast
  <2>3. Len(t.flush_queue[i]) = Len(p.flush_queue[i])
          + (IF i = pending /\ step \in {PREFLUSH, POSTFLUSH} THEN 1 ELSE 0)
    BY <1>7 DEF HasBegun
  <2>4. OnList(t.flush_queue[i], r) <=> i = pending /\ step \in {PREFLUSH, POSTFLUSH}
    BY <1>9
  <2> QED BY <2>1, <2>2, <2>3, <2>4
<1>16. \A o : o # r => (o \in t.flush_data_in_flight <=> o \in s.flush_data_in_flight)
  BY <1>1, <1>7 DEF HasPast, HasBegun
<1>17. \A o : o # r => (OnList(t.queue_head, o) <=> OnList(s.queue_head, o))
  BY <1>1, <1>7 DEF HasPast, HasBegun
<1>18. t.queue_head = s.queue_head \/ Len(t.queue_head) > Len(s.queue_head)
  <2>1. Len(s.queue_head) \in Nat
    BY DEF Queues
  <2> QED BY <1>1, <1>7, <2>1 DEF HasPast, HasBegun
<1>19. OnQueue(t, r) => OnList(t.flush_queue[pending], r)
  BY <1>9, <1>10
<1>20. t.flush_pending_idx = s.flush_pending_idx /\ t.flush_running_idx = s.flush_running_idx
  BY <1>1, <1>7 DEF HasPast, HasBegun
<1>21. t.rq[r].cache = s.rq[r].cache
  BY <1>12, <1>13
<1> QED BY <1>7, <1>8, <1>12, <1>13, <1>14, <1>15, <1>16, <1>17, <1>18, <1>19, <1>20, <1>21 DEF HasStepped, HasBegun

Sound(s, d, e) ==
  s \in Queues /\ Linked(s) /\ (\A r \in Request : Placed(s, d, e, r)) /\ FlushRq(s, d)

(* The step of a request brings it to its place. *)
LEMMA StepSound ==
  ASSUME NEW s \in Queues, NEW d, NEW e, NEW r \in Request, NEW seq, NEW error,
         NEW pending \in 0..1, NEW t,
         HasStepped(s, r, seq, error, pending, t), FlushRq(s, d),
         \A o \in Request : o # r => Placed(s, d, e, o),
         Sequenced(s, r), r \notin d, r \notin e
  PROVE  Sound(t, d, e)
<1>1. t \in Queues /\ Linked(t)
  BY DEF HasStepped
<1>2. FlushRq(t, d)
  <2>1. flush_rq # r
    BY FlushRqAssumption
  <2>2. /\ OnList(t.queue_head, flush_rq) <=> OnList(s.queue_head, flush_rq)
        /\ in_progress(t) <=> in_progress(s)
    BY <2>1 DEF HasStepped, in_progress
  <2> QED BY <2>2 DEF FlushRq
<1>3. ASSUME NEW o \in Request, o # r PROVE Placed(t, d, e, o)
  <2>1. /\ t.rq[o] = s.rq[o] /\ (OnQueue(t, o) <=> OnQueue(s, o))
        /\ OnList(t.queue_head, o) <=> OnList(s.queue_head, o)
        /\ o \in t.flush_data_in_flight <=> o \in s.flush_data_in_flight
    BY <1>3 DEF HasStepped, OnQueue
  <2>2. (Sequenced(t, o) <=> Sequenced(s, o)) /\ Cur(t, o) = Cur(s, o)
    BY <2>1 DEF Sequenced, Cur
  <2>3. Placed(s, d, e, o)
    BY <1>3
  <2> QED BY <2>1, <2>2, <2>3 DEF Placed
<1>4. Placed(t, d, e, r)
  <2>1. CASE /\ t.rq[r] = [Idle EXCEPT !.error = error, !.cache = s.rq[r].cache]
             /\ ~OnQueue(t, r) /\ ~OnList(t.queue_head, r) /\ r \notin t.flush_data_in_flight
    <3>1. ~t.rq[r].on
      BY <2>1 DEF Idle
    <3> QED BY <2>1, <3>1 DEF Placed, Sequenced
  <2>2. CASE /\ t.rq[r] = [s.rq[r] EXCEPT !.seq = @ \cup seq]
             /\ ~error /\ Cur(t, r) # DONE
             /\ OnQueue(t, r) <=> Cur(t, r) \in {PREFLUSH, POSTFLUSH}
             /\ OnList(t.queue_head, r) <=> Cur(t, r) = DATA
             /\ r \in t.flush_data_in_flight <=> Cur(t, r) = DATA
    <3>1. s.rq[r] \in Requests /\ t.rq[r] \in Requests
      BY <1>1 DEF Queues
    <3>2. t.rq[r].on /\ t.rq[r].sequenced
      BY <2>2, <3>1 DEF Sequenced, Requests
    <3>3. Cur(t, r) \in {PREFLUSH, POSTFLUSH} \/ Cur(t, r) = DATA
      BY <2>2, <3>1, CurSeq DEF Cur, Requests
    <3> QED BY <2>2, <3>2, <3>3 DEF Placed, Sequenced
  <2> QED BY <2>1, <2>2 DEF HasStepped
<1> QED BY <1>1, <1>2, <1>3, <1>4 DEF Sound

(* What blk_kick_flush() makes of s. *)
HasKicked(s, t) ==
  /\ t.rq = s.rq /\ t.flush_queue = s.flush_queue
  /\ t.flush_data_in_flight = s.flush_data_in_flight
  /\ t.flush_running_idx = s.flush_running_idx
  /\ \/ /\ t = s
        /\ \/ in_progress(s) \/ s.flush_queue[s.flush_pending_idx] = <<>>
           \/ s.flush_data_in_flight # {}
     \/ /\ ~in_progress(s) /\ in_progress(t)
        /\ t.flush_pending_idx = 1 - s.flush_pending_idx
        /\ s.flush_queue[s.flush_pending_idx] # <<>>
        /\ Len(t.queue_head) > Len(s.queue_head)

LEMMA Kick ==
  ASSUME NEW s, NEW d, NEW e, Sound(s, d, e), NEW t, t = blk_kick_flush(s)
  PROVE  Sound(t, d, e) /\ HasKicked(s, t)
<1>0. s \in Queues /\ s.flush_pending_idx \in 0..1 /\ s.flush_running_idx \in 0..1
  BY DEF Sound, Queues
<1>1. CASE \/ in_progress(s) \/ s.flush_queue[s.flush_pending_idx] = <<>>
           \/ s.flush_data_in_flight # {} /\ ~s.late
  <2>1. t = s
    BY <1>1 DEF blk_kick_flush
  <2> QED BY <1>1, <2>1 DEF HasKicked
<1>2. CASE ~(\/ in_progress(s) \/ s.flush_queue[s.flush_pending_idx] = <<>>
             \/ s.flush_data_in_flight # {} /\ ~s.late)
  <2>1. t = [s EXCEPT !.flush_pending_idx = 1 - @, !.queue_head = Append(@, flush_rq)]
    BY <1>2 DEF blk_kick_flush
  <2>2. /\ t.rq = s.rq /\ t.flush_queue = s.flush_queue
        /\ t.flush_data_in_flight = s.flush_data_in_flight
        /\ t.flush_running_idx = s.flush_running_idx
        /\ t.flush_pending_idx = 1 - s.flush_pending_idx
        /\ t.queue_head = list_add_tail(s.queue_head, flush_rq)
    BY <1>0, <2>1 DEF Queues, list_add_tail
  <2>3. /\ s.queue_head \in Seq(Request \cup {flush_rq}) /\ OnceEach(s.queue_head)
        /\ ~OnList(s.queue_head, flush_rq) /\ flush_rq \notin d
    BY <1>0, <1>2 DEF Sound, FlushRq, Linked, Queues
  <2>4. /\ t.queue_head \in Seq(Request \cup {flush_rq}) /\ OnceEach(t.queue_head)
        /\ OnList(t.queue_head, flush_rq)
        /\ \A o : o # flush_rq => (OnList(t.queue_head, o) <=> OnList(s.queue_head, o))
    <3>1. flush_rq \in Request \cup {flush_rq}
      OBVIOUS
    <3> QED BY <2>2, <2>3, <3>1, ListAddTail
  <2>5. Len(t.queue_head) > Len(s.queue_head)
    BY <2>2, <2>3 DEF list_add_tail
  <2>6. in_progress(t)
    BY <1>0, <1>2, <2>2 DEF in_progress
  <2>7. t \in Queues
    <3>1. 1 - s.flush_pending_idx \in 0..1
      BY <1>0
    <3> QED BY <1>0, <2>1, <2>2, <2>4, <3>1 DEF Queues
  <2>8. Linked(t)
    BY <2>2, <2>4 DEF Sound, Linked
  <2>9. FlushRq(t, d)
    BY <2>3, <2>4, <2>6 DEF FlushRq
  <2>10. ASSUME NEW o \in Request PROVE Placed(t, d, e, o)
    <3>1. o # flush_rq
      BY FlushRqAssumption
    <3>2. /\ OnList(t.queue_head, o) <=> OnList(s.queue_head, o)
          /\ Cur(t, o) = Cur(s, o) /\ (OnQueue(t, o) <=> OnQueue(s, o))
          /\ Sequenced(t, o) <=> Sequenced(s, o)
      BY <2>2, <2>4, <3>1 DEF Cur, OnQueue, Sequenced
    <3>3. Placed(s, d, e, o)
      BY DEF Sound
    <3> QED BY <2>2, <3>2, <3>3 DEF Placed
  <2> QED BY <1>2, <2>2, <2>5, <2>6, <2>7, <2>8, <2>9, <2>10 DEF Sound, HasKicked
<1> QED BY <1>1, <1>2

Worth(s) == NoCache(s) /\ \A r \in Request : Wanted(s, r)

(* t follows s, requests may have ended in between, and one that ended     *)
(* without error had what it wants.                                        *)
Finished(s, t) ==
  \A r \in Request :
    /\ t.rq[r].cache = s.rq[r].cache
    /\ ~s.rq[r].on => t.rq[r] = s.rq[r]
    /\ t.rq[r].on => t.rq[r].must = s.rq[r].must /\ t.rq[r].kind = s.rq[r].kind
    /\ s.rq[r].on /\ ~t.rq[r].on /\ ~t.rq[r].error =>
         /\ \A o \in s.rq[r].must : Safe(s, o)
         /\ "FUA" \in s.rq[r].kind.flags => Safe(s, r)

(* Whoever gets past the steps seq has had them. *)
MaySkip(s, r, seq) ==
  /\ PREFLUSH \in seq => \A o \in s.rq[r].must : Safe(s, o)
  /\ POSTFLUSH \in seq /\ "FUA" \in s.rq[r].kind.flags =>
       Safe(s, r) /\ (flush_flags # {"FLUSH"} \/ s.rq[r].seq \cup seq = FSEQ_ACTIONS)

LEMMA FinishedTransitive ==
  ASSUME NEW s, NEW t, NEW u, Finished(s, t), Finished(t, u),
         \A r \in Request : s.rq[r].must \subseteq Request
  PROVE  Finished(s, u)
<1> SUFFICES ASSUME NEW r \in Request
             PROVE  /\ u.rq[r].cache = s.rq[r].cache
                    /\ ~s.rq[r].on => u.rq[r] = s.rq[r]
                    /\ u.rq[r].on => u.rq[r].must = s.rq[r].must /\ u.rq[r].kind = s.rq[r].kind
                    /\ s.rq[r].on /\ ~u.rq[r].on /\ ~u.rq[r].error =>
                         /\ \A o \in s.rq[r].must : Safe(s, o)
                         /\ "FUA" \in s.rq[r].kind.flags => Safe(s, r)
  BY DEF Finished
<1>1. \A o \in Request : Safe(t, o) <=> Safe(s, o)
  BY DEF Finished, Safe
<1>2. CASE t.rq[r].on
  <2>1. /\ t.rq[r].must = s.rq[r].must /\ t.rq[r].kind = s.rq[r].kind
        /\ t.rq[r].cache = s.rq[r].cache /\ u.rq[r].cache = t.rq[r].cache
        /\ s.rq[r].must \subseteq Request /\ (~s.rq[r].on => t.rq[r] = s.rq[r])
    BY <1>2 DEF Finished
  <2>2. /\ u.rq[r].on => u.rq[r].must = t.rq[r].must /\ u.rq[r].kind = t.rq[r].kind
        /\ ~u.rq[r].on /\ ~u.rq[r].error => /\ \A o \in t.rq[r].must : Safe(t, o)
                                            /\ "FUA" \in t.rq[r].kind.flags => Safe(t, r)
    BY <1>2 DEF Finished
  <2>3. s.rq[r].on
    BY <1>2, <2>1
  <2> QED BY <1>1, <2>1, <2>2, <2>3
<1>3. CASE ~t.rq[r].on
  <2>1. u.rq[r] = t.rq[r]
    BY <1>3 DEF Finished
  <2> QED BY <1>3, <2>1 DEF Finished
<1> QED BY <1>2, <1>3

(* The step of a request loses nothing that anybody waits for. *)
LEMMA StepWorth ==
  ASSUME NEW s \in Queues, NEW r \in Request, NEW seq \in SUBSET FSEQ_ACTIONS,
         NEW error \in BOOLEAN, NEW pending \in 0..1, NEW t,
         HasStepped(s, r, seq, error, pending, t), Worth(s), Sequenced(s, r),
         ~error => MaySkip(s, r, seq)
  PROVE  Worth(t) /\ Finished(s, t)
<1>1. \A o \in Request : s.rq[o] \in Requests /\ s.rq[o].must \subseteq Request
  BY DEF Queues, Requests
<1>2. \A o \in Request : t.rq[o].cache = s.rq[o].cache /\ (Safe(t, o) <=> Safe(s, o))
  BY DEF HasStepped, Safe
<1>3. NoCache(t)
  BY <1>2 DEF Worth, NoCache
<1>4. \A o \in Request : t.rq[o].on => s.rq[o].on
  BY DEF HasStepped, Sequenced
<1>5. ASSUME NEW o \in Request, o # r PROVE Wanted(t, o)
  <2>1. t.rq[o] = s.rq[o] /\ Wanted(s, o)
    BY <1>5 DEF HasStepped, Worth
  <2>2. s.rq[o].must \subseteq {b \in Request : ~t.rq[b].on}
    BY <1>4, <2>1 DEF Wanted
  <2>3. Sequenced(t, o) <=> Sequenced(s, o)
    BY <2>1 DEF Sequenced
  <2>4. \A b \in s.rq[o].must : Safe(t, b) <=> Safe(s, b)
    BY <1>1, <1>2
  <2>5. Safe(t, o) <=> Safe(s, o)
    BY <1>2
  <2> QED BY <2>1, <2>2, <2>3, <2>4, <2>5 DEF Wanted
<1>6. CASE /\ t.rq[r] = [Idle EXCEPT !.error = error, !.cache = s.rq[r].cache]
           /\ error \/ s.rq[r].seq \cup seq = FSEQ_ACTIONS
  <2>1. /\ ~t.rq[r].on /\ t.rq[r].must = {} /\ t.rq[r].error = error
    BY <1>6 DEF Idle
  <2>2. Wanted(t, r)
    BY <2>1 DEF Wanted, Sequenced
  <2>3. ASSUME ~error
        PROVE  /\ \A o \in s.rq[r].must : Safe(s, o)
               /\ "FUA" \in s.rq[r].kind.flags => Safe(s, r)
    <3>1. MaySkip(s, r, seq) /\ s.rq[r].seq \cup seq = FSEQ_ACTIONS
      BY <1>6, <2>3
    <3>2. PREFLUSH \in s.rq[r].seq \/ PREFLUSH \in seq
      BY <3>1
    <3>3. POSTFLUSH \in s.rq[r].seq \/ POSTFLUSH \in seq
      BY <3>1
    <3>4. Wanted(s, r) /\ s.rq[r].on
      BY DEF Worth, Sequenced
    <3> QED BY <3>1, <3>2, <3>3, <3>4 DEF MaySkip, Wanted
  <2>4. Finished(s, t)
    <3> SUFFICES ASSUME NEW o \in Request
                 PROVE  /\ t.rq[o].cache = s.rq[o].cache
                        /\ ~s.rq[o].on => t.rq[o] = s.rq[o]
                        /\ t.rq[o].on => t.rq[o].must = s.rq[o].must /\ t.rq[o].kind = s.rq[o].kind
                        /\ s.rq[o].on /\ ~t.rq[o].on /\ ~t.rq[o].error =>
                             /\ \A b \in s.rq[o].must : Safe(s, b)
                             /\ "FUA" \in s.rq[o].kind.flags => Safe(s, o)
      BY DEF Finished
    <3>1. CASE o = r
      BY <1>2, <2>1, <2>3, <3>1 DEF Sequenced
    <3>2. CASE o # r
      BY <3>2 DEF HasStepped
    <3> QED BY <3>1, <3>2
  <2> QED BY <1>3, <1>5, <2>2, <2>4 DEF Worth
<1>7. CASE t.rq[r] = [s.rq[r] EXCEPT !.seq = @ \cup seq] /\ ~error /\ Cur(t, r) # DONE
  <2>1. /\ t.rq[r].on /\ t.rq[r].sequenced /\ s.rq[r].on /\ s.rq[r].sequenced
        /\ t.rq[r].must = s.rq[r].must /\ t.rq[r].kind = s.rq[r].kind
        /\ t.rq[r].cache = s.rq[r].cache /\ t.rq[r].seq = s.rq[r].seq \cup seq
        /\ t.rq[r].seq \in SUBSET FSEQ_ACTIONS
    BY <1>1, <1>7 DEF Sequenced, Requests
  <2>2. t.rq[r].seq # FSEQ_ACTIONS
    BY <1>7, <2>1, CurSeq DEF Cur
  <2>3. Wanted(s, r) /\ MaySkip(s, r, seq)
    BY <1>7 DEF Worth
  <2>4. t.rq[r].must \subseteq {b \in Request : ~t.rq[b].on}
    BY <1>4, <2>1, <2>3 DEF Wanted, Sequenced
  <2>5. (\A o \in t.rq[r].must : Safe(t, o)) \/ PREFLUSH \notin t.rq[r].seq
    <3>1. (\A o \in s.rq[r].must : Safe(s, o)) \/ (PREFLUSH \notin s.rq[r].seq /\ PREFLUSH \notin seq)
      BY <2>1, <2>3 DEF Wanted, MaySkip
    <3>2. \A o \in s.rq[r].must : Safe(t, o) <=> Safe(s, o)
      BY <1>1, <1>2
    <3> QED BY <2>1, <3>1, <3>2
  <2>6. "FUA" \in t.rq[r].kind.flags =>
          \/ Safe(t, r) /\ flush_flags # {"FLUSH"}
          \/ t.rq[r].sequenced /\ POSTFLUSH \notin t.rq[r].seq
    <3>1. "FUA" \in s.rq[r].kind.flags =>
            \/ Safe(s, r) /\ flush_flags # {"FLUSH"}
            \/ POSTFLUSH \notin s.rq[r].seq /\ POSTFLUSH \notin seq
      BY <2>1, <2>2, <2>3 DEF Wanted, MaySkip
    <3>2. Safe(t, r) <=> Safe(s, r)
      BY <1>2
    <3> QED BY <2>1, <3>1, <3>2
  <2>7. Wanted(t, r)
    BY <2>1, <2>4, <2>5, <2>6 DEF Wanted
  <2>8. Finished(s, t)
    BY <2>1 DEF Finished, HasStepped
  <2> QED BY <1>3, <1>5, <2>7, <2>8 DEF Worth
<1> QED BY <1>6, <1>7 DEF HasStepped

(* blk_flush_complete_seq(), of a request that is in no other place. *)
HasCompleted(s, r, seq, error, d, e, t) ==
  \E x : /\ HasStepped(s, r, seq, error, s.flush_pending_idx, x) /\ HasKicked(x, t)
         /\ Sound(x, d, e) /\ Sound(t, d, e) /\ Worth(t) /\ Finished(s, t)

LEMMA CompleteSeq ==
  ASSUME NEW s \in Queues, NEW d, NEW e, NEW r \in Request, NEW seq \in SUBSET FSEQ_ACTIONS,
         NEW error \in BOOLEAN, NEW t, t = blk_flush_complete_seq(s, r, seq, error),
         Linked(s), FlushRq(s, d), \A o \in Request : o # r => Placed(s, d, e, o),
         Sequenced(s, r), r \notin d, r \notin e, ~OnList(s.queue_head, r),
         Worth(s), ~error => MaySkip(s, r, seq)
  PROVE  HasCompleted(s, r, seq, error, d, e, t)
<1> DEFINE u == flush_step(s, r, seq, error, s.flush_pending_idx)
<1>1. t = blk_kick_flush(u) /\ s.flush_pending_idx \in 0..1
  BY DEF blk_flush_complete_seq, Queues
<1>2. HasStepped(s, r, seq, error, s.flush_pending_idx, u)
  BY <1>1, FlushStep
<1> HIDE DEF u
<1>3. Sound(u, d, e)
  BY <1>1, <1>2, StepSound
<1>4. Worth(u) /\ Finished(s, u)
  BY <1>1, <1>2, StepWorth
<1>5. Sound(t, d, e) /\ HasKicked(u, t)
  BY <1>1, <1>3, Kick
<1>6. t.rq = u.rq
  BY <1>5 DEF HasKicked
<1>7. Worth(t)
  BY <1>4, <1>6 DEF Worth, NoCache, Wanted, Safe, Sequenced
<1>8. Finished(s, t)
  BY <1>4, <1>6 DEF Finished
<1>9. \E x : /\ HasStepped(s, r, seq, error, s.flush_pending_idx, x) /\ HasKicked(x, t)
             /\ Sound(x, d, e) /\ Sound(t, d, e) /\ Worth(t) /\ Finished(s, t)
  <2> WITNESS u
  <2> QED BY <1>2, <1>3, <1>5, <1>7, <1>8
<1> QED BY <1>9 DEF HasCompleted

(***************************************************************************)
(* Between two turns of the walk over the list, which began with s: the    *)
(* next flush has been issued, and is for the other list, or has not.      *)
(* Those still to be met have had their flush, unless it failed.           *)
(***************************************************************************)
Walk(s, w, list, error, d, e) ==
  /\ Sound(w.s, d, e) /\ Worth(w.s) /\ Finished(s, w.s)
  /\ w.s.flush_running_idx = 1 - list
  /\ in_progress(w.s) => w.s.flush_queue[1 - list] # <<>>
  /\ ~error => \A r \in Request : OnList(w.s.flush_queue[list], r) =>
                 \A o \in w.s.rq[r].must \cup {r} : Safe(w.s, o)
  /\ w.s.queue_head = s.queue_head \/ Len(w.s.queue_head) > Len(s.queue_head)
  /\ IF w.more THEN w.s.flush_queue[list] # <<>>
               ELSE /\ in_progress(w.s) \/ w.s.flush_queue[list] = <<>>
                    /\ \/ in_progress(w.s) \/ w.s.flush_queue[w.s.flush_pending_idx] = <<>>
                       \/ w.s.flush_data_in_flight # {}

(* The turns that may still come: two for a request that is at its first   *)
(* flush, one for a request that is at its second.                         *)
First(s, list) == {r \in Request : OnList(s.flush_queue[list], r) /\ PREFLUSH \notin s.rq[r].seq}
Turns(s, list) == Len(s.flush_queue[list]) + Cardinality(First(s, list))

LEMMA Turn ==
  ASSUME NEW s, NEW w, NEW list \in 0..1, NEW error \in BOOLEAN, NEW d, NEW e,
         \A r \in Request : s.rq[r].must \subseteq Request, Len(s.queue_head) \in Nat,
         Walk(s, w, list, error, d, e), w.more,
         NEW v, v = push_turn(w, list, error)
  PROVE  /\ Walk(s, v, list, error, d, e)
         /\ Turns(w.s, list) \in Nat /\ Turns(v.s, list) \in Nat
         /\ Turns(v.s, list) < Turns(w.s, list)
<1> DEFINE a == w.s
           b == v.s
           l == a.flush_queue[list]
           r == Head(l)
           seq == {blk_flush_cur_seq(a.rq[r])}
<1>1. /\ a \in Queues /\ Linked(a) /\ FlushRq(a, d) /\ Worth(a) /\ Finished(s, a)
      /\ \A o \in Request : Placed(a, d, e, o)
  BY DEF Walk, Sound
<1>2. l \in Seq(Request) /\ l # <<>> /\ OnceEach(l)
  BY <1>1 DEF Walk, Queues, Linked
<1>3. r \in Request /\ OnList(l, r)
  BY <1>2, ListDelFirst
<1>4. b = blk_flush_complete_seq(a, r, seq, error) /\ (v.more <=> Len(l) > 1)
  BY DEF push_turn
<1>5. ~OnList(a.flush_queue[1 - list], r) /\ 1 - list \in 0..1
  BY <1>1, <1>3 DEF Linked
<1> HIDE DEF a, b, l, r
<1>6. /\ OnQueue(a, r) /\ Sequenced(a, r) /\ Cur(a, r) \in {PREFLUSH, POSTFLUSH}
      /\ r \notin d /\ r \notin e /\ ~OnList(a.queue_head, r)
  <2>1. OnQueue(a, r)
    BY <1>3 DEF OnQueue, l
  <2>2. Placed(a, d, e, r)
    BY <1>1, <1>3
  <2> QED BY <2>1, <2>2 DEF Placed, Sequenced
<1>7. a.rq[r].seq \in SUBSET FSEQ_ACTIONS /\ a.rq[r].must \subseteq Request
  BY <1>1, <1>3 DEF Queues, Requests
<1>8. /\ seq \in SUBSET FSEQ_ACTIONS /\ PREFLUSH \in a.rq[r].seq \cup seq
      /\ PREFLUSH \in seq => PREFLUSH \notin a.rq[r].seq
      /\ POSTFLUSH \in seq => a.rq[r].seq \cup seq = FSEQ_ACTIONS
  BY <1>6, <1>7, CurSeq DEF Cur
<1>9. \A o \in a.rq[r].must \cup {r} : ~error => Safe(a, o)
  BY <1>3 DEF Walk, a, l
<1>10. ~error => MaySkip(a, r, seq)
  BY <1>8, <1>9 DEF MaySkip
<1> HIDE DEF seq
<1>11. HasCompleted(a, r, seq, error, d, e, b)
  <2>1. a \in Queues /\ Linked(a) /\ FlushRq(a, d) /\ Worth(a)
    BY <1>1
  <2>2. \A o \in Request : o # r => Placed(a, d, e, o)
    BY <1>1
  <2>3. Sequenced(a, r) /\ r \notin d /\ r \notin e /\ ~OnList(a.queue_head, r)
    BY <1>6
  <2>4. b = blk_flush_complete_seq(a, r, seq, error) /\ r \in Request /\ seq \in SUBSET FSEQ_ACTIONS
    BY <1>3, <1>4, <1>8
  <2> QED BY <2>1, <2>2, <2>3, <2>4, <1>10, CompleteSeq
<1>12. PICK u : /\ HasStepped(a, r, seq, error, a.flush_pending_idx, u) /\ HasKicked(u, b)
                /\ Sound(u, d, e) /\ Sound(b, d, e) /\ Worth(b) /\ Finished(a, b)
  BY <1>11 DEF HasCompleted
<1>13. /\ b.rq = u.rq /\ b.flush_queue = u.flush_queue
       /\ u.flush_pending_idx = a.flush_pending_idx
       /\ u.flush_running_idx = a.flush_running_idx /\ b.flush_running_idx = a.flush_running_idx
       /\ a.flush_running_idx = 1 - list /\ a.flush_pending_idx \in 0..1
  BY <1>1, <1>12 DEF HasStepped, HasKicked, Walk, Queues, a
<1>14. \A i \in 0..1 : /\ Len(a.flush_queue[i]) \in Nat /\ Len(b.flush_queue[i]) \in Nat
                       /\ a.flush_queue[i] = <<>> <=> Len(a.flush_queue[i]) = 0
                       /\ b.flush_queue[i] = <<>> <=> Len(b.flush_queue[i]) = 0
  <2>1. \A i \in 0..1 : a.flush_queue[i] \in Seq(Request) /\ b.flush_queue[i] \in Seq(Request)
    BY <1>1, <1>12 DEF Sound, Queues
  <2> QED BY <2>1
<1>15. \A i \in 0..1 : Len(b.flush_queue[i]) = Len(a.flush_queue[i])
              - (IF OnList(a.flush_queue[i], r) THEN 1 ELSE 0)
              + (IF OnList(b.flush_queue[i], r) THEN 1 ELSE 0)
  <2>1. \A i \in 0..1 : Len(u.flush_queue[i]) = Len(a.flush_queue[i])
              - (IF OnList(a.flush_queue[i], r) THEN 1 ELSE 0)
              + (IF OnList(u.flush_queue[i], r) THEN 1 ELSE 0)
    BY <1>12 DEF HasStepped
  <2> QED BY <1>13, <2>1, Zenon
<1>16. in_progress(a) => in_progress(b)
  BY <1>12, <1>13 DEF HasKicked, in_progress
<1>17. in_progress(b) => b.flush_queue[1 - list] # <<>>
  <2>1. CASE in_progress(a)
    <3>1. a.flush_queue[1 - list] # <<>>
      BY <2>1 DEF Walk, a
    <3>2. Len(b.flush_queue[1 - list]) >= Len(a.flush_queue[1 - list])
      <4>1. Len(b.flush_queue[1 - list]) = Len(a.flush_queue[1 - list])
              - (IF OnList(a.flush_queue[1 - list], r) THEN 1 ELSE 0)
              + (IF OnList(b.flush_queue[1 - list], r) THEN 1 ELSE 0)
        BY <1>5, <1>15, Zenon
      <4>2. Len(b.flush_queue[1 - list]) \in Nat /\ Len(a.flush_queue[1 - list]) \in Nat
        BY <1>5, <1>14
      <4> QED BY <1>5, <4>1, <4>2
    <3> QED BY <1>5, <1>14, <3>1, <3>2
  <2>2. CASE ~in_progress(a) /\ in_progress(b)
    <3>1. ~in_progress(u) /\ a.flush_pending_idx = 1 - list
      BY <1>13, <2>2 DEF in_progress
    <3>2. u # b
      BY <2>2, <3>1
    <3> QED BY <1>12, <1>13, <3>1, <3>2 DEF HasKicked
  <2> QED BY <2>1, <2>2
<1>18. OnList(b.flush_queue[list], r) => in_progress(b) /\ r \in First(a, list) /\ ~error
  <2> SUFFICES ASSUME OnList(b.flush_queue[list], r)
               PROVE  in_progress(b) /\ r \in First(a, list) /\ ~error
    OBVIOUS
  <2>1. OnQueue(u, r)
    BY <1>13 DEF OnQueue
  <2>2. /\ OnList(u.flush_queue[a.flush_pending_idx], r)
        /\ u.rq[r] = [a.rq[r] EXCEPT !.seq = @ \cup seq] /\ ~error /\ Cur(u, r) # DONE
    BY <1>12, <2>1 DEF HasStepped
  <2>3. a.flush_pending_idx = list
    <3>1. Linked(u)
      BY <1>12 DEF Sound
    <3> QED BY <1>3, <1>13, <2>2, <3>1 DEF Linked
  <2>4. in_progress(a)
    BY <1>13, <2>3 DEF in_progress
  <2>5. a.rq[r] \in Requests
    BY <1>1, <1>3 DEF Queues
  <2>6. u.rq[r].seq = a.rq[r].seq \cup seq /\ u.rq[r].seq \in SUBSET FSEQ_ACTIONS
    BY <1>7, <1>8, <2>2, <2>5 DEF Requests
  <2>7. POSTFLUSH \notin seq
    BY <1>8, <2>2, <2>6, CurSeq DEF Cur
  <2>8. PREFLUSH \notin a.rq[r].seq
    <3>1. seq = {Cur(a, r)}
      BY DEF seq, Cur
    <3> QED BY <1>6, <1>8, <2>7, <3>1
  <2> QED BY <1>3, <1>16, <2>2, <2>4, <2>8 DEF First, l
<1>19. \A o \in Request : o # r => /\ b.rq[o] = a.rq[o]
                                   /\ OnList(b.flush_queue[list], o) <=> OnList(a.flush_queue[list], o)
  BY <1>12, <1>13 DEF HasStepped
<1>20. /\ Len(b.flush_queue[list]) = Len(l) - 1 + (IF OnList(b.flush_queue[list], r) THEN 1 ELSE 0)
       /\ Len(b.flush_queue[list]) \in Nat /\ Len(l) \in Nat
       /\ b.flush_queue[list] = <<>> <=> Len(b.flush_queue[list]) = 0
  <2>1. Len(b.flush_queue[list]) = Len(l) - (IF OnList(l, r) THEN 1 ELSE 0)
              + (IF OnList(b.flush_queue[list], r) THEN 1 ELSE 0)
    BY <1>15, Zenon DEF l
  <2>2. Len(b.flush_queue[list]) \in Nat /\ Len(l) \in Nat
    BY <1>14 DEF l
  <2>3. b.flush_queue[list] = <<>> <=> Len(b.flush_queue[list]) = 0
    BY <1>14
  <2> QED BY <1>3, <2>1, <2>2, <2>3
<1>21. Walk(s, v, list, error, d, e)
  <2>1. Finished(s, b)
    BY <1>1, <1>12, FinishedTransitive
  <2>2. ASSUME ~error, NEW o \in Request, OnList(b.flush_queue[list], o), NEW x \in b.rq[o].must \cup {o}
        PROVE  Safe(b, x)
    <3>1. OnList(a.flush_queue[list], o)
      BY <1>3, <1>19, <2>2 DEF l
    <3>2. b.rq[o].must = a.rq[o].must
      <4>1. b.rq[o].on
        <5>1. Placed(b, d, e, o) /\ OnQueue(b, o)
          BY <1>12, <2>2 DEF Sound, OnQueue
        <5> QED BY <5>1 DEF Placed
      <4> QED BY <1>12, <4>1 DEF Finished
    <3>3. Safe(a, x)
      BY <2>2, <3>1, <3>2 DEF Walk, a
    <3>4. x \in Request
      BY <1>1, <2>2, <3>2 DEF Queues, Requests
    <3> QED BY <1>12, <3>3, <3>4 DEF Finished, Safe
  <2>3. b.queue_head = s.queue_head \/ Len(b.queue_head) > Len(s.queue_head)
    <3>1. a.queue_head = s.queue_head \/ Len(a.queue_head) > Len(s.queue_head)
      BY DEF Walk, a
    <3>2. u.queue_head = a.queue_head \/ Len(u.queue_head) > Len(a.queue_head)
      BY <1>12 DEF HasStepped
    <3>3. b.queue_head = u.queue_head \/ Len(b.queue_head) > Len(u.queue_head)
      BY <1>12 DEF HasKicked
    <3>4. Len(a.queue_head) \in Nat /\ Len(u.queue_head) \in Nat /\ Len(b.queue_head) \in Nat
      BY <1>1, <1>12 DEF Sound, Queues
    <3> QED BY <3>1, <3>2, <3>3, <3>4
  <2>4. v.more => b.flush_queue[list] # <<>>
    BY <1>4, <1>20
  <2>5. ~v.more => in_progress(b) \/ b.flush_queue[list] = <<>>
    <3>1. CASE OnList(b.flush_queue[list], r)
      BY <1>18, <3>1
    <3>2. CASE ~OnList(b.flush_queue[list], r)
      BY <1>4, <1>20, <3>2
    <3> QED BY <3>1, <3>2
  <2>6. \/ in_progress(b) \/ b.flush_queue[b.flush_pending_idx] = <<>> \/ b.flush_data_in_flight # {}
    BY <1>12 DEF HasKicked
  <2>7. b.flush_running_idx = 1 - list
    BY <1>13
  <2> QED BY <1>12, <1>17, <2>1, <2>2, <2>3, <2>4, <2>5, <2>6, <2>7 DEF Walk, b
<1>22. /\ IsFiniteSet(First(a, list)) /\ IsFiniteSet(First(b, list))
       /\ Cardinality(First(a, list)) \in Nat /\ Cardinality(First(b, list)) \in Nat
  BY RequestAssumption, FS_Subset, FS_CardinalityType DEF First
<1>23. First(b, list) \subseteq First(a, list) \ {r}
  <2>1. ASSUME r \in First(b, list) PROVE FALSE
    <3>1. OnQueue(u, r) /\ PREFLUSH \notin u.rq[r].seq
      BY <1>13, <2>1 DEF First, OnQueue
    <3>2. u.rq[r] = [a.rq[r] EXCEPT !.seq = @ \cup seq]
      BY <1>12, <3>1 DEF HasStepped
    <3>3. a.rq[r] \in Requests
      BY <1>1, <1>3 DEF Queues
    <3> QED BY <1>8, <3>1, <3>2, <3>3 DEF Requests
  <2> QED BY <1>19, <2>1 DEF First
<1>24. Turns(b, list) < Turns(a, list) /\ Turns(a, list) \in Nat /\ Turns(b, list) \in Nat
  <2>1. Cardinality(First(b, list)) <= Cardinality(First(a, list))
    BY <1>22, <1>23, FS_Subset
  <2>2. r \in First(a, list) => Cardinality(First(b, list)) <= Cardinality(First(a, list)) - 1
    <3> SUFFICES ASSUME r \in First(a, list)
                 PROVE  Cardinality(First(b, list)) <= Cardinality(First(a, list)) - 1
      OBVIOUS
    <3>1. /\ IsFiniteSet(First(a, list) \ {r})
          /\ Cardinality(First(a, list) \ {r}) = Cardinality(First(a, list)) - 1
      BY <1>22, FS_RemoveElement
    <3> QED BY <1>23, <3>1, FS_Subset
  <2>3. Turns(a, list) = Len(l) + Cardinality(First(a, list))
    BY DEF Turns, l
  <2>4. Turns(b, list) = Len(b.flush_queue[list]) + Cardinality(First(b, list))
    BY DEF Turns
  <2>5. CASE OnList(b.flush_queue[list], r)
    BY <1>18, <1>20, <1>22, <2>2, <2>3, <2>4, <2>5
  <2>6. CASE ~OnList(b.flush_queue[list], r)
    BY <1>20, <1>22, <2>1, <2>3, <2>4, <2>6
  <2> QED BY <2>5, <2>6
<1> QED BY <1>21, <1>24 DEF a, b

(* The states the walk goes through. *)
IsWalk(f, w, list, error) ==
  f = [n \in Nat |-> IF n = 0 THEN w ELSE push_turn(f[n - 1], list, error)]

(* The recursive definition of the walk defines something. *)
LEMMA WalkExists ==
  ASSUME NEW w, NEW list, NEW error
  PROVE  \E f : IsWalk(f, w, list, error)
<1> DEFINE Val(g, i) == IF i = 0 THEN w ELSE push_turn(g[i - 1], list, error)
           Part(g, n) == g = [i \in 0..n |-> Val(g, i)]
           Bad == {n \in Nat : ~\E g : Part(g, n)}
           Upto(n) == CHOOSE g : Part(g, n)
           f == [n \in Nat |-> Upto(n)[n]]
<1>1. Bad = {}
  <2> SUFFICES ASSUME Bad # {} PROVE FALSE
    OBVIOUS
  <2>1. PICK n \in Bad : \A m \in Bad : n <= m
    BY LeastNat
  <2>2. n # 0
    <3> DEFINE g == [i \in 0..0 |-> w]
    <3>1. Part(g, 0)
      OBVIOUS
    <3> HIDE DEF g, Part
    <3> QED BY <2>1, <3>1
  <2>3. n \in Nat /\ n - 1 \in Nat /\ n - 1 \notin Bad
    <3>1. n \in Nat
      OBVIOUS
    <3> HIDE DEF Bad
    <3> QED BY <2>1, <2>2, <3>1
  <2>4. PICK g : Part(g, n - 1)
    BY <2>3
  <2> DEFINE h == [i \in 0..n |-> Val(g, i)]
  <2>5. \A i \in 0..(n - 1) : h[i] = g[i]
    <3>1. \A i \in 0..(n - 1) : g[i] = Val(g, i)
      BY <2>4
    <3>2. \A i \in 0..(n - 1) : h[i] = Val(g, i)
      BY <2>3
    <3> QED BY <3>1, <3>2
  <2>6. \A i \in 0..n : Val(h, i) = Val(g, i)
    <3> SUFFICES ASSUME NEW i \in 0..n, i # 0 PROVE h[i - 1] = g[i - 1]
      <4> HIDE DEF h
      <4> QED OBVIOUS
    <3>1. i - 1 \in 0..(n - 1)
      BY <2>3
    <3> QED BY <2>5, <3>1
  <2>7. Part(h, n)
    <3>1. [i \in 0..n |-> Val(g, i)] = [i \in 0..n |-> Val(h, i)]
      <4> HIDE DEF h, Val
      <4> QED BY <2>6
    <3> QED BY <3>1
  <2> HIDE DEF h, Part
  <2> QED BY <2>1, <2>7
<1>2. \A n \in Nat : Part(Upto(n), n)
  <2> SUFFICES ASSUME NEW n \in Nat PROVE Part(Upto(n), n)
    OBVIOUS
  <2>1. \E g : Part(g, n)
    BY <1>1
  <2> HIDE DEF Part
  <2> QED BY <2>1
<1> HIDE DEF Upto
<1>3. \A n \in Nat, i \in Nat : i <= n => Upto(n)[i] = Val(Upto(n), i)
  BY <1>2
<1>4. \A n \in Nat, i \in Nat : i <= n => Upto(n)[i] = Upto(i)[i]
  <2> SUFFICES ASSUME NEW n \in Nat
               PROVE  \A i \in Nat : i <= n => Upto(n)[i] = Upto(i)[i]
    OBVIOUS
  <2> DEFINE B == {i \in Nat : i <= n /\ \E m \in Nat : i <= m /\ Upto(n)[i] # Upto(m)[i]}
  <2> SUFFICES ASSUME B # {} PROVE FALSE
    OBVIOUS
  <2>1. PICK i \in B : \A m \in B : i <= m
    BY LeastNat
  <2>2. i \in Nat /\ i <= n
    OBVIOUS
  <2>3. PICK m \in Nat : i <= m /\ Upto(n)[i] # Upto(m)[i]
    OBVIOUS
  <2>4. Upto(n)[i] = Val(Upto(n), i) /\ Upto(m)[i] = Val(Upto(m), i)
    BY <1>3, <2>2, <2>3
  <2>5. i # 0
    BY <2>3, <2>4
  <2>6. i - 1 \in Nat /\ i - 1 <= n /\ i - 1 <= m /\ i - 1 \notin B
    BY <2>1, <2>2, <2>3, <2>5
  <2>7. Upto(n)[i - 1] = Upto(m)[i - 1]
    BY <2>6
  <2> QED BY <2>3, <2>4, <2>5, <2>7
<1>5. \A n \in Nat : f[n] = Val(f, n)
  <2> SUFFICES ASSUME NEW n \in Nat PROVE f[n] = Val(f, n)
    OBVIOUS
  <2>1. f[n] = Val(Upto(n), n)
    BY <1>3
  <2>2. ASSUME n # 0 PROVE Upto(n)[n - 1] = f[n - 1]
    <3>1. n - 1 \in Nat /\ n - 1 <= n
      BY <2>2
    <3> QED BY <1>4, <3>1
  <2> HIDE DEF f
  <2> QED BY <2>1, <2>2
<1>6. f = [n \in Nat |-> Val(f, n)]
  <2>1. f = [n \in Nat |-> f[n]]
    OBVIOUS
  <2> HIDE DEF f, Val
  <2> QED BY <1>5, <2>1
<1>7. IsWalk(f, w, list, error)
  BY <1>6 DEF IsWalk
<1> QED
  <2> HIDE DEF f
  <2> QED BY <1>7

(* push_waiting() returns what the walk has come to. *)
LEMMA PushWaiting ==
  ASSUME NEW s, NEW list, NEW error
  PROVE  \E f : /\ IsWalk(f, [s |-> s, more |-> s.flush_queue[list] # <<>>], list, error)
                /\ push_waiting(s, list, error) = f[2 * Cardinality(Request)].s
<1> DEFINE w == [s |-> s, more |-> s.flush_queue[list] # <<>>]
           f == CHOOSE g : g = [n \in Nat |-> IF n = 0 THEN w ELSE push_turn(g[n - 1], list, error)]
<1>1. push_waiting(s, list, error) = f[2 * Cardinality(Request)].s
  BY DEF push_waiting
<1>2. f = CHOOSE g : IsWalk(g, w, list, error)
  BY DEF IsWalk
<1> HIDE DEF f
<1>3. \E g : IsWalk(g, w, list, error)
  BY WalkExists
<1>4. IsWalk(f, w, list, error)
  BY <1>2, <1>3
<1> QED BY <1>1, <1>4
(* A list has at most as many entries as there are requests. *)
LEMMA ListBound ==
  ASSUME NEW l \in Seq(Request), OnceEach(l)
  PROVE  Len(l) \in Nat /\ Cardinality(Request) \in Nat /\ Len(l) <= Cardinality(Request)
<1> DEFINE all == {l[i] : i \in 1..Len(l)}
<1>1. Len(l) \in 0..Len(l) /\ Len(l) \in Nat
  OBVIOUS
<1>2. all \subseteq Request /\ Cardinality(all) = Len(l)
  BY <1>1, ListFront
<1> HIDE DEF all
<1> QED BY <1>1, <1>2, RequestAssumption, FS_Subset, FS_CardinalityType

(* The walk comes to its end within the turns it is given. *)
LEMMA PushEnds ==
  ASSUME NEW s, NEW list \in 0..1, NEW error \in BOOLEAN, NEW d, NEW e,
         s.flush_queue[list] # <<>>,
         Walk(s, [s |-> s, more |-> TRUE], list, error, d, e),
         NEW t, t = push_waiting(s, list, error)
  PROVE  Walk(s, [s |-> t, more |-> FALSE], list, error, d, e)
<1> DEFINE w == [s |-> s, more |-> s.flush_queue[list] # <<>>]
           N == 2 * Cardinality(Request)
<1>1. PICK f : IsWalk(f, w, list, error) /\ t = f[N].s
  BY PushWaiting
<1>2. f[0] = w /\ \A n \in Nat : n # 0 => f[n] = push_turn(f[n - 1], list, error)
  BY <1>1 DEF IsWalk
<1>3. /\ s \in Queues /\ (\A r \in Request : s.rq[r].must \subseteq Request)
      /\ Len(s.queue_head) \in Nat
  <2>1. s \in Queues
    BY DEF Walk, Sound
  <2> QED BY <2>1 DEF Queues, Requests
<1>4. Cardinality(Request) \in Nat /\ N \in Nat /\ N = Cardinality(Request) + Cardinality(Request)
  BY RequestAssumption, FS_CardinalityType
<1> DEFINE Good(n) == /\ Walk(s, f[n], list, error, d, e)
                      /\ f[n].more => /\ Turns(f[n].s, list) \in Nat
                                      /\ Turns(f[n].s, list) + n <= N
           Bad == {n \in Nat : ~Good(n)}
<1> HIDE DEF N
<1>5. Good(0)
  <2>1. Walk(s, w, list, error, d, e)
    BY DEF Walk
  <2>2. Turns(s, list) \in Nat /\ Turns(s, list) <= N
    <3>1. s.flush_queue[list] \in Seq(Request) /\ OnceEach(s.flush_queue[list])
      BY <1>3 DEF Walk, Sound, Queues, Linked
    <3>2. Len(s.flush_queue[list]) \in Nat /\ Len(s.flush_queue[list]) <= Cardinality(Request)
      BY <3>1, ListBound
    <3>3. First(s, list) \subseteq Request
      BY DEF First
    <3>4. /\ Cardinality(First(s, list)) \in Nat
          /\ Cardinality(First(s, list)) <= Cardinality(Request)
      BY <3>3, RequestAssumption, FS_Subset, FS_CardinalityType
    <3> QED BY <1>4, <3>2, <3>4 DEF Turns
  <2>3. f[0] = w /\ w.s = s
    BY <1>2
  <2> HIDE DEF w
  <2> QED BY <1>4, <2>1, <2>2, <2>3
<1>6. ASSUME NEW n \in Nat, n # 0, Good(n - 1) PROVE Good(n)
  <2> DEFINE u == f[n - 1]
             v == f[n]
  <2>1. v = push_turn(u, list, error) /\ n - 1 \in Nat
    BY <1>2, <1>6
  <2>2. Walk(s, u, list, error, d, e) /\ (u.more => Turns(u.s, list) + (n - 1) <= N)
    BY <1>6
  <2> HIDE DEF u, v
  <2>3. CASE u.more
    <3>1. /\ Walk(s, v, list, error, d, e)
          /\ Turns(u.s, list) \in Nat /\ Turns(v.s, list) \in Nat
          /\ Turns(v.s, list) < Turns(u.s, list)
      BY <1>3, <2>1, <2>2, <2>3, Turn
    <3>2. Turns(v.s, list) + n <= N
      BY <1>4, <2>2, <2>3, <3>1
    <3> QED BY <3>1, <3>2 DEF v
  <2>4. CASE ~u.more
    <3>1. v = u
      BY <2>1, <2>4 DEF push_turn
    <3> QED BY <2>2, <2>4, <3>1 DEF v
  <2> QED BY <2>3, <2>4
<1>7. Bad = {}
  <2> SUFFICES ASSUME Bad # {} PROVE FALSE
    OBVIOUS
  <2>1. PICK n \in Bad : \A m \in Bad : n <= m
    BY LeastNat
  <2>2. n \in Nat /\ ~Good(n)
    OBVIOUS
  <2> HIDE DEF Good
  <2>3. n # 0
    BY <1>5, <2>2
  <2>4. n - 1 \in Nat /\ n - 1 < n
    BY <2>2, <2>3
  <2>5. Good(n - 1)
    BY <2>1, <2>2, <2>4
  <2> QED BY <1>6, <2>2, <2>3, <2>5
<1>8. Good(N)
  <2> HIDE DEF Good
  <2> QED BY <1>4, <1>7
<1>9. ~f[N].more
  <2> SUFFICES ASSUME f[N].more PROVE FALSE
    OBVIOUS
  <2> DEFINE a == f[N].s
  <2>1. Turns(a, list) \in Nat /\ Turns(a, list) + N <= N
    BY <1>8
  <2>2. a.flush_queue[list] # <<>> /\ a \in Queues
    BY <1>8 DEF Walk, Sound
  <2> HIDE DEF a
  <2>3. a.flush_queue[list] \in Seq(Request)
    BY <2>2 DEF Queues
  <2>4. Len(a.flush_queue[list]) \in Nat /\ Len(a.flush_queue[list]) # 0
    BY <2>2, <2>3
  <2>5. Cardinality(First(a, list)) \in Nat
    BY RequestAssumption, FS_Subset, FS_CardinalityType DEF First
  <2> QED BY <1>4, <2>1, <2>4, <2>5 DEF Turns
<1> QED BY <1>1, <1>8, <1>9 DEF Walk
----------------------------------------------------------------------------
(* What does not concern a request does not change its place. *)
LEMMA PlacedSame ==
  ASSUME NEW s, NEW d, NEW e, NEW t, NEW c, NEW f, NEW o,
         s.rq[o].seq \in SUBSET FSEQ_ACTIONS, t.rq[o].seq = s.rq[o].seq,
         t.rq[o].on <=> s.rq[o].on, t.rq[o].sequenced <=> s.rq[o].sequenced,
         OnQueue(t, o) <=> OnQueue(s, o), OnList(t.queue_head, o) <=> OnList(s.queue_head, o),
         o \in t.flush_data_in_flight <=> o \in s.flush_data_in_flight,
         o \in c <=> o \in d, o \in f <=> o \in e, Placed(s, d, e, o)
  PROVE  Placed(t, c, f, o)
<1>1. Cur(t, o) = Cur(s, o)
  BY CurSeq DEF Cur
<1>2. Sequenced(t, o) <=> Sequenced(s, o)
  BY DEF Sequenced
<1> QED BY <1>1, <1>2 DEF Placed

(* Nobody but a request itself is told apart by s and t. *)
SameLists(s, t) ==
  /\ t.flush_queue = s.flush_queue /\ t.flush_data_in_flight = s.flush_data_in_flight
  /\ t.flush_pending_idx = s.flush_pending_idx /\ t.flush_running_idx = s.flush_running_idx
  /\ t.queue_head = s.queue_head

HasReplaced(s, r, new, t) ==
  /\ t \in Queues /\ SameLists(s, t)
  /\ t.rq[r] = new /\ \A o \in Request : o # r => t.rq[o] = s.rq[o]

LEMMA Replace ==
  ASSUME NEW s \in Queues, NEW r \in Request, NEW new \in Requests, NEW t,
         t = [s EXCEPT !.rq[r] = new]
  PROVE  HasReplaced(s, r, new, t)
<1>1. t.rq = [s.rq EXCEPT ![r] = new] /\ SameLists(s, t) /\ s.rq \in [Request -> Requests]
  BY DEF Queues, SameLists
<1>2. t.rq \in [Request -> Requests]
  BY <1>1
<1>3. t \in Queues
  BY <1>2 DEF Queues
<1> QED BY <1>1, <1>3 DEF HasReplaced

HasForgotten(s, r, t) ==
  /\ t \in Queues /\ SameLists(s, t)
  /\ \A o \in Request :
       /\ t.rq[o] = [s.rq[o] EXCEPT !.must = @ \ {r}] /\ t.rq[o].must = s.rq[o].must \ {r}
       /\ t.rq[o].on = s.rq[o].on /\ t.rq[o].sequenced = s.rq[o].sequenced
       /\ t.rq[o].kind = s.rq[o].kind /\ t.rq[o].seq = s.rq[o].seq
       /\ t.rq[o].cache = s.rq[o].cache /\ t.rq[o].error = s.rq[o].error

LEMMA Forgotten ==
  ASSUME NEW s \in Queues, NEW r, NEW t, t = Forget(s, r)
  PROVE  HasForgotten(s, r, t)
<1>1. /\ t.rq = [o \in Request |-> [s.rq[o] EXCEPT !.must = @ \ {r}]] /\ SameLists(s, t)
  BY DEF Forget, Queues, SameLists
<1>2. \A o \in Request : s.rq[o] \in Requests
  BY DEF Queues
<1>3. \A o \in Request :
       /\ t.rq[o] = [s.rq[o] EXCEPT !.must = @ \ {r}] /\ t.rq[o].must = s.rq[o].must \ {r}
       /\ t.rq[o].on = s.rq[o].on /\ t.rq[o].sequenced = s.rq[o].sequenced
       /\ t.rq[o].kind = s.rq[o].kind /\ t.rq[o].seq = s.rq[o].seq
       /\ t.rq[o].cache = s.rq[o].cache /\ t.rq[o].error = s.rq[o].error
       /\ t.rq[o] \in Requests
  BY <1>1, <1>2 DEF Requests
<1>4. t.rq \in [Request -> Requests]
  BY <1>1, <1>3
<1>5. t \in Queues
  BY <1>4 DEF Forget, Queues
<1> QED BY <1>1, <1>3, <1>5 DEF HasForgotten

LEMMA ForgetSound ==
  ASSUME NEW s, NEW d, NEW e, NEW r, NEW t, Sound(s, d, e), HasForgotten(s, r, t)
  PROVE  Sound(t, d, e)
<1>1. s \in Queues /\ t \in Queues /\ SameLists(s, t)
  BY DEF Sound, HasForgotten
<1>2. Linked(t) /\ FlushRq(t, d)
  BY <1>1 DEF Sound, Linked, FlushRq, SameLists, in_progress
<1>3. ASSUME NEW o \in Request PROVE Placed(t, d, e, o)
  <2>1. s.rq[o].seq \in SUBSET FSEQ_ACTIONS
    BY <1>1 DEF Queues, Requests
  <2>2. /\ t.rq[o].seq = s.rq[o].seq
        /\ t.rq[o].on <=> s.rq[o].on
        /\ t.rq[o].sequenced <=> s.rq[o].sequenced
    BY DEF HasForgotten
  <2>3. /\ OnQueue(t, o) <=> OnQueue(s, o)
        /\ OnList(t.queue_head, o) <=> OnList(s.queue_head, o)
        /\ o \in t.flush_data_in_flight <=> o \in s.flush_data_in_flight
    BY <1>1 DEF OnQueue, SameLists
  <2>4. Placed(s, d, e, o)
    BY DEF Sound
  <2> QED BY <2>1, <2>2, <2>3, <2>4, PlacedSame
<1> QED BY <1>1, <1>2, <1>3 DEF Sound

Unstalled(s, e, running, delayed) ==
  /\ s.queue_head # <<>> => running
  /\ e # {} => running \/ (delayed /\ in_progress(s))
  /\ s.flush_queue[s.flush_pending_idx] # <<>> => in_progress(s) \/ s.flush_data_in_flight # {}

(* What a step must not do: end a request, or give it to the device, while *)
(* data it wants is in the cache.                                          *)
Kept ==
  \A r \in Request : q.rq[r].on =>
    LET ends == ~q'.rq[r].on /\ ~q'.rq[r].error
        safe(o) == q'.rq[o].cache # "cached"
    IN  /\ ends \/ r \in device' \ device => \A o \in q.rq[r].must : safe(o)
        /\ ends /\ "FUA" \in q.rq[r].kind.flags => safe(r)

LEMMA Parts ==
  ASSUME BInv
  PROVE  /\ Sound(q, device, elevator) /\ Running(q) /\ Worth(q) /\ Covers(q, device, covered)
         /\ Unstalled(q, elevator, run, flush_queue_delayed)
         /\ q \in Queues /\ elevator \subseteq Request /\ device \subseteq Request \cup {flush_rq}
         /\ covered \subseteq Request /\ run \in BOOLEAN /\ flush_queue_delayed \in BOOLEAN
         /\ flush_flags \in {{}, {"FLUSH"}, {"FLUSH", "FUA"}}
<1>1. flush_flags \in Capabilities
  BY DEF BInv, TypeOK
<1>2. flush_flags \in {{}, {"FLUSH"}, {"FLUSH", "FUA"}}
  BY <1>1, CapabilityAssumption, Zenon
<1>3. Unstalled(q, elevator, run, flush_queue_delayed)
  BY DEF BInv, NeverStalls, Unstalled
<1> QED BY <1>2, <1>3 DEF BInv, TypeOK, Sound, Worth

LEMMA Assemble ==
  ASSUME BInv, UNCHANGED config,
         Sound(q', device', elevator'), Running(q'), Worth(q'), Covers(q', device', covered'),
         Unstalled(q', elevator', run', flush_queue_delayed'),
         elevator' \subseteq Request, device' \subseteq Request \cup {flush_rq},
         covered' \subseteq Request, run' \in BOOLEAN, flush_queue_delayed' \in BOOLEAN
  PROVE  BInv'
<1>1. TypeOK'
  BY DEF BInv, TypeOK, Sound, config
<1>2. Linked(q)' /\ (\A r \in Request : Placed(q, device, elevator, r))' /\ FlushRq(q, device)'
  BY DEF Sound, Linked, Placed, FlushRq, OnQueue, Sequenced, Cur, in_progress
<1>3. Running(q)'
  BY DEF Running, in_progress
<1>4. NeverStalls'
  BY DEF Unstalled, NeverStalls, in_progress
<1>5. NoCache(q)' /\ (\A r \in Request : Wanted(q, r))'
  BY DEF Worth, NoCache, Wanted, Safe, config
<1>6. Covers(q, device, covered)'
  BY DEF Covers, Safe
<1> QED BY <1>1, <1>2, <1>3, <1>4, <1>5, <1>6 DEF BInv

(* Nothing ends and nothing is given to the device. *)
LEMMA KeptQuiet ==
  ASSUME \A r \in Request : q.rq[r].on => q'.rq[r].on, device' \subseteq device
  PROVE  Kept
BY DEF Kept

(* A request that was not on a flush list goes, if at all, to the one the  *)
(* present flush is not for.                                               *)
LEMMA Newcomer ==
  ASSUME NEW s \in Queues, NEW r \in Request, NEW seq, NEW error, NEW x, NEW t,
         HasStepped(s, r, seq, error, s.flush_pending_idx, x), HasKicked(x, t),
         ~OnQueue(s, r), Running(s), t \in Queues
  PROVE  /\ Running(t)
         /\ in_progress(s) => \A o \in Request :
              OnList(t.flush_queue[t.flush_running_idx], o) =>
                o # r /\ OnList(s.flush_queue[s.flush_running_idx], o)
         /\ t.queue_head = s.queue_head \/ Len(t.queue_head) > Len(s.queue_head)
         /\ in_progress(s) => in_progress(t)
         /\ t.flush_queue[t.flush_pending_idx] # <<>> => in_progress(t) \/ t.flush_data_in_flight # {}
<1>0. x \in Queues /\ Linked(x)
  BY DEF HasStepped
<1>1. /\ x.flush_pending_idx = s.flush_pending_idx /\ x.flush_running_idx = s.flush_running_idx
      /\ t.flush_queue = x.flush_queue /\ t.flush_running_idx = s.flush_running_idx
      /\ s.flush_pending_idx \in 0..1 /\ s.flush_running_idx \in 0..1
      /\ t.flush_pending_idx \in 0..1
  BY DEF HasStepped, HasKicked, Queues
<1>2. ~OnList(x.flush_queue[1 - s.flush_pending_idx], r)
  <2>1. OnQueue(x, r) => OnList(x.flush_queue[s.flush_pending_idx], r)
    BY DEF HasStepped
  <2>2. s.flush_pending_idx = 0 \/ s.flush_pending_idx = 1
    BY <1>1
  <2>3. 1 - 0 = 1 /\ 1 - 1 = 0
    OBVIOUS
  <2> QED BY <1>0, <2>1, <2>2, <2>3 DEF Linked, OnQueue
<1>3. x.flush_queue[1 - s.flush_pending_idx] = <<>> <=> s.flush_queue[1 - s.flush_pending_idx] = <<>>
  <2> DEFINE i == 1 - s.flush_pending_idx
  <2>1. i \in 0..1
    BY <1>1
  <2>2. ~OnList(x.flush_queue[i], r)
    BY <1>2
  <2> HIDE DEF i
  <2>3. ~OnList(s.flush_queue[i], r)
    BY <2>1 DEF OnQueue
  <2>4. Len(x.flush_queue[i]) = Len(s.flush_queue[i])
              - (IF OnList(s.flush_queue[i], r) THEN 1 ELSE 0)
              + (IF OnList(x.flush_queue[i], r) THEN 1 ELSE 0)
    BY <2>1 DEF HasStepped
  <2>5. x.flush_queue[i] \in Seq(Request) /\ s.flush_queue[i] \in Seq(Request)
    BY <1>0, <2>1 DEF Queues
  <2>6. Len(x.flush_queue[i]) = Len(s.flush_queue[i])
    BY <2>2, <2>3, <2>4, <2>5
  <2> QED BY <2>5, <2>6 DEF i
<1>4. in_progress(s) <=> in_progress(x)
  BY <1>1 DEF in_progress
<1>5. Running(x)
  BY <1>1, <1>3, <1>4 DEF Running
<1>6. CASE t = x
  <2>1. ASSUME in_progress(s), NEW o \in Request,
               OnList(t.flush_queue[t.flush_running_idx], o)
        PROVE  o # r /\ OnList(s.flush_queue[s.flush_running_idx], o)
    <3>1. s.flush_running_idx = 1 - s.flush_pending_idx
      BY <1>1, <2>1 DEF in_progress
    <3>2. o # r
      BY <1>1, <1>2, <2>1, <3>1
    <3>3. \A i \in 0..1 : OnList(x.flush_queue[i], o) <=> OnList(s.flush_queue[i], o)
      BY <3>2 DEF HasStepped
    <3> QED BY <1>1, <2>1, <3>2, <3>3
  <2>2. \/ in_progress(t) \/ t.flush_queue[t.flush_pending_idx] = <<>> \/ t.flush_data_in_flight # {}
    BY <1>6 DEF HasKicked
  <2> QED BY <1>4, <1>5, <1>6, <2>1, <2>2 DEF HasStepped
<1>7. CASE /\ ~in_progress(x) /\ in_progress(t)
           /\ t.flush_pending_idx = 1 - x.flush_pending_idx
           /\ x.flush_queue[x.flush_pending_idx] # <<>>
           /\ Len(t.queue_head) > Len(x.queue_head)
  <2>1. 1 - t.flush_pending_idx = x.flush_pending_idx
    BY <1>1, <1>7
  <2>2. Running(t)
    BY <1>1, <1>7, <2>1 DEF Running
  <2>3. Len(t.queue_head) > Len(s.queue_head)
    <3>1. x.queue_head = s.queue_head \/ Len(x.queue_head) > Len(s.queue_head)
      BY DEF HasStepped
    <3>2. Len(s.queue_head) \in Nat /\ Len(x.queue_head) \in Nat /\ Len(t.queue_head) \in Nat
      BY <1>0 DEF Queues
    <3> QED BY <1>7, <3>1, <3>2
  <2> QED BY <1>4, <1>7, <2>2, <2>3
<1> QED BY <1>6, <1>7 DEF HasKicked
----------------------------------------------------------------------------
(* The actions. *)
LEMMA RequestFnReturn ==
  ASSUME BInv, request_fn_return
  PROVE  BInv' /\ Kept
<1>1. /\ Sound(q, device, elevator) /\ Running(q) /\ Worth(q) /\ Covers(q, device, covered)
      /\ Unstalled(q, elevator, run, flush_queue_delayed)
      /\ elevator \subseteq Request /\ device \subseteq Request \cup {flush_rq}
      /\ covered \subseteq Request /\ flush_queue_delayed \in BOOLEAN
  BY Parts
<1>2. /\ UNCHANGED config /\ q' = q /\ elevator' = elevator /\ device' = device
      /\ covered' = covered /\ run' = FALSE
      /\ q.queue_head = <<>> /\ (hold \/ elevator = {})
      /\ flush_queue_delayed' = (flush_queue_delayed \/ hold)
  BY DEF request_fn_return
<1>3. flush_queue_delayed' \in BOOLEAN /\ run' \in BOOLEAN
  BY <1>1, <1>2
<1>4. Unstalled(q', elevator', run', flush_queue_delayed')
  <2>1. elevator # {} => (flush_queue_delayed \/ hold) /\ in_progress(q)
    BY <1>2 DEF hold
  <2> QED BY <1>1, <1>2, <2>1 DEF Unstalled
<1>5. BInv'
  BY <1>1, <1>2, <1>3, <1>4, Assemble
<1> QED BY <1>2, <1>5, KeptQuiet

LEMMA Jiffies ==
  ASSUME BInv, jiffies
  PROVE  BInv' /\ Kept
<1>1. /\ Sound(q, device, elevator) /\ Running(q) /\ Worth(q) /\ Covers(q, device, covered)
      /\ Unstalled(q, elevator, run, flush_queue_delayed)
      /\ elevator \subseteq Request /\ device \subseteq Request \cup {flush_rq}
      /\ covered \subseteq Request /\ run \in BOOLEAN /\ flush_queue_delayed \in BOOLEAN
      /\ q \in Queues
  BY Parts
<1>2. /\ UNCHANGED config /\ q' = [q EXCEPT !.late = TRUE] /\ elevator' = elevator
      /\ device' = device /\ covered' = covered /\ run' = run
      /\ flush_queue_delayed' = flush_queue_delayed
  BY DEF jiffies
<1>3. q' \in Queues /\ SameLists(q, q') /\ q'.rq = q.rq
  BY <1>1, <1>2 DEF Queues, SameLists
<1>4. Sound(q', device', elevator')
  <2>1. Linked(q') /\ FlushRq(q', device')
    BY <1>1, <1>2, <1>3 DEF Sound, SameLists, Linked, FlushRq, in_progress
  <2>2. \A r \in Request : Placed(q', device', elevator', r)
    BY <1>1, <1>2, <1>3 DEF Sound, SameLists, Placed, OnQueue, Sequenced, Cur
  <2> QED BY <1>3, <2>1, <2>2 DEF Sound
<1>5. Running(q') /\ Unstalled(q', elevator', run', flush_queue_delayed')
  BY <1>1, <1>2, <1>3 DEF SameLists, Running, Unstalled, in_progress
<1>6. Worth(q')
  BY <1>1, <1>3 DEF Worth, NoCache, Wanted, Safe
<1>7. Covers(q', device', covered')
  BY <1>1, <1>2, <1>3 DEF Covers, SameLists, Safe
<1>8. BInv'
  BY <1>1, <1>2, <1>4, <1>5, <1>6, <1>7, Assemble
<1> QED BY <1>2, <1>3, <1>8, KeptQuiet

LEMMA ElevatorDispatch ==
  ASSUME BInv, NEW r \in Request, elevator_dispatch(r)
  PROVE  BInv' /\ Kept
<1>1. /\ Sound(q, device, elevator) /\ Running(q) /\ Worth(q) /\ Covers(q, device, covered)
      /\ Unstalled(q, elevator, run, flush_queue_delayed)
      /\ elevator \subseteq Request /\ device \subseteq Request \cup {flush_rq}
      /\ covered \subseteq Request /\ run \in BOOLEAN /\ flush_queue_delayed \in BOOLEAN
      /\ q \in Queues
  BY Parts
<1>2. /\ UNCHANGED config /\ q' = [q EXCEPT !.queue_head = <<r>>] /\ elevator' = elevator \ {r}
      /\ device' = device /\ covered' = covered /\ run' = run
      /\ flush_queue_delayed' = flush_queue_delayed
      /\ run /\ q.queue_head = <<>> /\ r \in elevator
  BY DEF elevator_dispatch
<1>3. /\ q'.rq = q.rq /\ q'.flush_queue = q.flush_queue
      /\ q'.flush_data_in_flight = q.flush_data_in_flight
      /\ q'.flush_pending_idx = q.flush_pending_idx
      /\ q'.flush_running_idx = q.flush_running_idx /\ q'.queue_head = <<r>>
  BY <1>1, <1>2 DEF Queues
<1>4. /\ \A o : OnList(q'.queue_head, o) <=> o = r
      /\ \A o : ~OnList(q.queue_head, o)
      /\ OnceEach(q'.queue_head) /\ q'.queue_head \in Seq(Request \cup {flush_rq})
  BY <1>2, <1>3 DEF OnList, OnceEach
<1>5. q' \in Queues
  BY <1>1, <1>2, <1>3, <1>4 DEF Queues
<1>6. Sound(q', device', elevator')
  <2>1. Linked(q')
    BY <1>1, <1>3, <1>4 DEF Sound, Linked
  <2>2. FlushRq(q', device')
    <3>1. r # flush_rq
      BY FlushRqAssumption
    <3> QED BY <1>1, <1>2, <1>3, <1>4, <3>1 DEF Sound, FlushRq, in_progress
  <2>3. ASSUME NEW o \in Request PROVE Placed(q', device', elevator', o)
    <3>1. Placed(q, device, elevator, o)
      BY <1>1 DEF Sound
    <3>2. /\ OnQueue(q', o) <=> OnQueue(q, o)
          /\ Sequenced(q', o) <=> Sequenced(q, o)
          /\ Cur(q', o) = Cur(q, o)
      BY <1>3 DEF OnQueue, Sequenced, Cur
    <3>3. CASE o = r
      <4>1. /\ ~q.rq[r].sequenced /\ r \notin device /\ q.rq[r].on /\ ~Sequenced(q, r)
        BY <1>2, <3>1, <3>3 DEF Placed, Sequenced
      <4> QED BY <1>2, <1>3, <1>4, <3>1, <3>2, <3>3, <4>1 DEF Placed
    <3>4. CASE o # r
      BY <1>2, <1>3, <1>4, <3>1, <3>2, <3>4 DEF Placed
    <3> QED BY <3>3, <3>4
  <2> QED BY <1>5, <2>1, <2>2, <2>3 DEF Sound
<1>7. Running(q') /\ Unstalled(q', elevator', run', flush_queue_delayed')
  BY <1>1, <1>2, <1>3 DEF Running, Unstalled, in_progress
<1>8. Worth(q')
  BY <1>1, <1>3 DEF Worth, NoCache, Wanted, Safe, Sequenced
<1>9. Covers(q', device', covered')
  BY <1>1, <1>2, <1>3 DEF Covers, Safe
<1>10. elevator' \subseteq Request
  BY <1>1, <1>2
<1>11. BInv'
  BY <1>1, <1>2, <1>6, <1>7, <1>8, <1>9, <1>10, Assemble
<1> QED BY <1>2, <1>3, <1>11, KeptQuiet
(* The driver takes a request: if it is the flush, all that is in the      *)
(* cache will be saved; if not, the flush before it has been made.         *)
LEMMA FetchRequest ==
  ASSUME BInv, blk_fetch_request
  PROVE  BInv' /\ Kept
<1> DEFINE r == Head(q.queue_head)
<1>1. /\ Sound(q, device, elevator) /\ Running(q) /\ Worth(q) /\ Covers(q, device, covered)
      /\ Unstalled(q, elevator, run, flush_queue_delayed)
      /\ elevator \subseteq Request /\ device \subseteq Request \cup {flush_rq}
      /\ covered \subseteq Request /\ run \in BOOLEAN /\ flush_queue_delayed \in BOOLEAN
      /\ q \in Queues
  BY Parts
<1>2. /\ UNCHANGED config /\ q' = [q EXCEPT !.queue_head = Tail(@)] /\ elevator' = elevator
      /\ device' = device \cup {r}
      /\ covered' = (IF r = flush_rq THEN {o \in Request : q.rq[o].cache = "cached"} ELSE covered)
      /\ run' = run /\ flush_queue_delayed' = flush_queue_delayed
      /\ run /\ q.queue_head # <<>>
  BY DEF blk_fetch_request
<1>3. /\ q'.rq = q.rq /\ q'.flush_queue = q.flush_queue
      /\ q'.flush_data_in_flight = q.flush_data_in_flight
      /\ q'.flush_pending_idx = q.flush_pending_idx
      /\ q'.flush_running_idx = q.flush_running_idx /\ q'.queue_head = Tail(q.queue_head)
  BY <1>1, <1>2 DEF Queues
<1>4. /\ r \in Request \cup {flush_rq} /\ OnList(q.queue_head, r)
      /\ q'.queue_head \in Seq(Request \cup {flush_rq})
      /\ ~OnList(q'.queue_head, r) /\ OnceEach(q'.queue_head)
      /\ \A o : o # r => (OnList(q'.queue_head, o) <=> OnList(q.queue_head, o))
  <2>1. q.queue_head \in Seq(Request \cup {flush_rq}) /\ OnceEach(q.queue_head)
    BY <1>1 DEF Queues, Sound, Linked
  <2> QED BY <1>2, <1>3, <2>1, ListDelFirst
<1> HIDE DEF r
<1>5. q' \in Queues
  BY <1>1, <1>2, <1>3, <1>4 DEF Queues
<1>6. Sound(q', device', elevator')
  <2>1. Linked(q')
    BY <1>1, <1>3, <1>4 DEF Sound, Linked
  <2>2. FlushRq(q', device')
    BY <1>1, <1>2, <1>3, <1>4 DEF Sound, FlushRq, in_progress
  <2>3. ASSUME NEW o \in Request PROVE Placed(q', device', elevator', o)
    <3>1. Placed(q, device, elevator, o)
      BY <1>1 DEF Sound
    <3>2. /\ OnQueue(q', o) <=> OnQueue(q, o)
          /\ Sequenced(q', o) <=> Sequenced(q, o)
          /\ Cur(q', o) = Cur(q, o)
      BY <1>3 DEF OnQueue, Sequenced, Cur
    <3>3. CASE o = r
      <4>1. r \in device' /\ ~OnQueue(q, r) /\ r \notin elevator /\ q.rq[r].on
        BY <1>2, <1>4, <3>1, <3>3 DEF Placed
      <4> QED BY <1>2, <1>3, <1>4, <3>1, <3>2, <3>3, <4>1 DEF Placed
    <3>4. CASE o # r
      <4>1. o \in device' <=> o \in device
        BY <1>2, <3>4
      <4> QED BY <1>2, <1>3, <1>4, <3>1, <3>2, <3>4, <4>1 DEF Placed
    <3> QED BY <3>3, <3>4
  <2> QED BY <1>5, <2>1, <2>2, <2>3 DEF Sound
<1>7. Running(q') /\ Unstalled(q', elevator', run', flush_queue_delayed')
  BY <1>1, <1>2, <1>3 DEF Running, Unstalled, in_progress
<1>8. Worth(q')
  BY <1>1, <1>3 DEF Worth, NoCache, Wanted, Safe, Sequenced
<1>9. Covers(q', device', covered')
  <2>1. CASE r = flush_rq
    <3>1. \A o \in Request : q.rq[o].must \subseteq Request
      BY <1>1 DEF Queues, Requests
    <3>2. \A o \in Request : Safe(q', o) \/ o \in covered'
      BY <1>2, <1>3, <2>1 DEF Safe
    <3> QED BY <1>3, <3>1, <3>2 DEF Covers
  <2>2. CASE r # flush_rq
    <3>1. (flush_rq \in device' <=> flush_rq \in device) /\ covered' = covered
      BY <1>2, <2>2
    <3> QED BY <1>1, <1>3, <3>1 DEF Covers, Safe
  <2> QED BY <2>1, <2>2
<1>10. device' \subseteq Request \cup {flush_rq} /\ covered' \subseteq Request
  BY <1>1, <1>2, <1>4
<1>11. BInv'
  BY <1>1, <1>2, <1>6, <1>7, <1>8, <1>9, <1>10, Assemble
<1>12. Kept
  <2>1. ASSUME NEW o \in Request, q.rq[o].on, o \in device' \ device
        PROVE  \A x \in q.rq[o].must : Safe(q', x)
    <3>1. o = r /\ Placed(q, device, elevator, o) /\ Wanted(q, o)
      BY <1>1, <1>2, <2>1 DEF Sound, Worth
    <3>2. ~OnQueue(q, o)
      BY <1>4, <3>1 DEF Placed
    <3>3. Sequenced(q, o) => PREFLUSH \in q.rq[o].seq
      <4>1. q.rq[o].seq \in SUBSET FSEQ_ACTIONS
        BY <1>1 DEF Queues, Requests
      <4>2. PREFLUSH \notin q.rq[o].seq => Cur(q, o) = PREFLUSH
        BY <4>1, CurSeq DEF Cur
      <4> QED BY <3>1, <3>2, <4>2 DEF Placed
    <3>4. \A x \in q.rq[o].must : Safe(q, x)
      BY <2>1, <3>1, <3>3 DEF Wanted, Sequenced
    <3> QED BY <1>3, <3>4 DEF Safe
  <2> QED BY <1>3, <2>1 DEF Kept, Safe
<1> QED BY <1>11, <1>12

(* What the device does to the data. *)
HasWritten(r, error, s) ==
  /\ s \in Queues /\ SameLists(q, s)
  /\ \A o \in Request : o # r => s.rq[o] = q.rq[o]
  /\ s.rq[r].on = q.rq[r].on /\ s.rq[r].sequenced = q.rq[r].sequenced
  /\ s.rq[r].kind = q.rq[r].kind /\ s.rq[r].seq = q.rq[r].seq
  /\ s.rq[r].must = q.rq[r].must /\ s.rq[r].error = q.rq[r].error
  /\ s.rq[r].cache = IF error THEN q.rq[r].cache
                     ELSE IF flush_flags = {} \/ "FUA" \in flush_flags \cap q.rq[r].kind.flags
                            THEN "stable" ELSE "cached"

LEMMA Write ==
  ASSUME NEW r \in Request, NEW error \in BOOLEAN, q \in Queues, NEW s, s = Written(r, error)
  PROVE  HasWritten(r, error, s)
<1>1. CASE error
  <2>1. s = q
    BY <1>1 DEF Written
  <2> QED BY <1>1, <2>1 DEF HasWritten, SameLists
<1>2. CASE ~error
  <2> DEFINE c == IF flush_flags = {} \/ "FUA" \in flush_flags \cap q.rq[r].kind.flags
                    THEN "stable" ELSE "cached"
             new == [q.rq[r] EXCEPT !.cache = c]
  <2>0. c \in {"stable", "cached"}
    OBVIOUS
  <2>1. s = [q EXCEPT !.rq[r].cache = c]
    BY <1>2 DEF Written
  <2> HIDE DEF c
  <2>2. q.rq[r] \in Requests /\ q.rq \in [Request -> Requests]
    BY DEF Queues
  <2>3. /\ new \in Requests /\ new.cache = c /\ new.on = q.rq[r].on
        /\ new.sequenced = q.rq[r].sequenced /\ new.kind = q.rq[r].kind
        /\ new.seq = q.rq[r].seq /\ new.must = q.rq[r].must /\ new.error = q.rq[r].error
    BY <2>0, <2>2 DEF Requests
  <2>4. s = [q EXCEPT !.rq[r] = new]
    BY <2>1, <2>2 DEF Queues
  <2> HIDE DEF new
  <2>5. HasReplaced(q, r, new, s)
    BY <2>3, <2>4, Replace
  <2> QED BY <1>2, <2>3, <2>5 DEF HasWritten, HasReplaced, c
<1> QED BY <1>1, <1>2
(* Nobody wants the data of a request that has not ended, but itself. *)
LEMMA WriteWorth ==
  ASSUME NEW r \in Request, NEW error \in BOOLEAN, NEW s, q \in Queues, Worth(q),
         HasWritten(r, error, s), q.rq[r].on, flush_flags \in {{}, {"FLUSH"}, {"FLUSH", "FUA"}}
  PROVE  /\ Worth(s)
         /\ \A o \in Request : o # r => (Safe(s, o) <=> Safe(q, o))
         /\ \A o \in Request : r \notin q.rq[o].must /\ q.rq[o].must \subseteq Request
<1>1. \A o \in Request : r \notin q.rq[o].must /\ q.rq[o].must \subseteq Request
  <2> SUFFICES ASSUME NEW o \in Request
               PROVE  r \notin q.rq[o].must /\ q.rq[o].must \subseteq Request
    OBVIOUS
  <2>1. q.rq[o].must \subseteq {b \in Request : ~q.rq[b].on}
    BY DEF Worth, Wanted
  <2> QED BY <2>1
<1>2. \A o \in Request : o # r => (Safe(s, o) <=> Safe(q, o))
  BY DEF HasWritten, Safe
<1>3. /\ \A o \in Request : s.rq[o].on = q.rq[o].on
      /\ \A o \in Request : s.rq[o].must = q.rq[o].must
      /\ \A o \in Request : s.rq[o].kind = q.rq[o].kind
      /\ \A o \in Request : s.rq[o].sequenced = q.rq[o].sequenced
      /\ \A o \in Request : s.rq[o].seq = q.rq[o].seq
  BY DEF HasWritten
<1>4. flush_flags = {} => Safe(s, r)
  BY DEF HasWritten, Worth, NoCache, Safe
<1>5. NoCache(s)
  BY <1>2, <1>4 DEF Worth, NoCache
<1>6. ASSUME NEW o \in Request PROVE Wanted(s, o)
  <2>1. Wanted(q, o)
    BY DEF Worth
  <2>2. s.rq[o].must \subseteq {b \in Request : ~s.rq[b].on}
    BY <1>3, <2>1 DEF Wanted
  <2>3. \A b \in q.rq[o].must : Safe(s, b) <=> Safe(q, b)
    BY <1>1, <1>2
  <2>4. s.rq[o].on => \/ \A b \in s.rq[o].must : Safe(s, b)
                      \/ s.rq[o].sequenced /\ PREFLUSH \notin s.rq[o].seq
    BY <1>3, <2>1, <2>3 DEF Wanted
  <2>5. ASSUME "FUA" \in q.rq[o].kind.flags, flush_flags # {"FLUSH"}, Safe(q, o)
        PROVE  Safe(s, o)
    <3>1. CASE o # r
      BY <1>2, <2>5, <3>1
    <3>2. CASE o = r /\ flush_flags = {}
      BY <1>4, <3>2
    <3>3. CASE o = r /\ "FUA" \in flush_flags
      <4>1. s.rq[r].cache = q.rq[r].cache \/ s.rq[r].cache = "stable"
        BY <2>5, <3>3 DEF HasWritten
      <4> QED BY <2>5, <3>3, <4>1 DEF Safe
    <3> QED BY <2>5, <3>1, <3>2, <3>3
  <2>6. s.rq[o].on /\ "FUA" \in s.rq[o].kind.flags =>
          \/ Safe(s, o) /\ flush_flags # {"FLUSH"}
          \/ s.rq[o].sequenced /\ POSTFLUSH \notin s.rq[o].seq
    BY <1>3, <2>1, <2>5 DEF Wanted
  <2> QED BY <2>2, <2>4, <2>6 DEF Wanted
<1> QED BY <1>1, <1>2, <1>5, <1>6 DEF Worth

LEMMA EndRequest ==
  ASSUME BInv, NEW r \in Request, NEW error \in BOOLEAN, blk_end_request(r, error)
  PROVE  BInv' /\ Kept
<1> DEFINE s == Written(r, error)
           new == [Idle EXCEPT !.error = error, !.cache = s.rq[r].cache]
<1>1. /\ Sound(q, device, elevator) /\ Running(q) /\ Worth(q) /\ Covers(q, device, covered)
      /\ Unstalled(q, elevator, run, flush_queue_delayed)
      /\ elevator \subseteq Request /\ device \subseteq Request \cup {flush_rq}
      /\ covered \subseteq Request /\ run \in BOOLEAN /\ flush_queue_delayed \in BOOLEAN
      /\ q \in Queues /\ flush_flags \in {{}, {"FLUSH"}, {"FLUSH", "FUA"}}
  BY Parts
<1>2. /\ UNCHANGED config /\ q' = [s EXCEPT !.rq[r] = new] /\ elevator' = elevator
      /\ device' = device \ {r} /\ covered' = covered /\ run' = run
      /\ flush_queue_delayed' = flush_queue_delayed
      /\ r \in device /\ r # flush_rq /\ ~q.rq[r].sequenced
  BY DEF blk_end_request, __blk_end_request_all
<1>3. HasWritten(r, error, s)
  BY <1>1, Write
<1> HIDE DEF s
<1>4. /\ new \in Requests /\ ~new.on /\ new.must = {} /\ new.cache = s.rq[r].cache
      /\ new.error = error /\ new.seq = {} /\ ~new.sequenced
  <2>1. s.rq[r] \in Requests
    BY <1>3 DEF HasWritten, Queues
  <2> QED BY <2>1 DEF Idle, Requests
<1> HIDE DEF new
<1>5. HasReplaced(s, r, new, q')
  BY <1>2, <1>3, <1>4, Replace DEF HasWritten
<1>6. /\ q' \in Queues /\ q'.rq[r] = new /\ (\A o \in Request : o # r => q'.rq[o] = q.rq[o])
      /\ q'.flush_queue = q.flush_queue /\ q'.flush_data_in_flight = q.flush_data_in_flight
      /\ q'.flush_pending_idx = q.flush_pending_idx
      /\ q'.flush_running_idx = q.flush_running_idx
      /\ q'.queue_head = q.queue_head
  BY <1>3, <1>5 DEF HasReplaced, HasWritten, SameLists
<1>7. /\ q.rq[r].on /\ ~OnQueue(q, r) /\ ~OnList(q.queue_head, r) /\ r \notin elevator
      /\ r \notin q.flush_data_in_flight
  <2>1. Placed(q, device, elevator, r)
    BY <1>1 DEF Sound
  <2> QED BY <1>2, <2>1 DEF Placed, Sequenced
<1>8. Sound(q', device', elevator')
  <2>1. Linked(q') /\ FlushRq(q', device')
    BY <1>1, <1>2, <1>6 DEF Sound, Linked, FlushRq, in_progress
  <2>2. Placed(q', device', elevator', r)
    <3>1. ~OnQueue(q', r) /\ ~Sequenced(q', r)
      BY <1>4, <1>6, <1>7 DEF OnQueue, Sequenced
    <3> QED BY <1>2, <1>4, <1>6, <1>7, <3>1 DEF Placed
  <2>3. ASSUME NEW o \in Request, o # r PROVE Placed(q', device', elevator', o)
    <3>1. Placed(q, device, elevator, o) /\ q.rq[o].seq \in SUBSET FSEQ_ACTIONS
      BY <1>1 DEF Sound, Queues, Requests
    <3>2. /\ q'.rq[o] = q.rq[o]
          /\ OnQueue(q', o) <=> OnQueue(q, o)
          /\ OnList(q'.queue_head, o) <=> OnList(q.queue_head, o)
          /\ o \in q'.flush_data_in_flight <=> o \in q.flush_data_in_flight
          /\ o \in device' <=> o \in device
          /\ o \in elevator' <=> o \in elevator
      BY <1>2, <1>6, <2>3 DEF OnQueue
    <3> QED BY <3>1, <3>2, PlacedSame
  <2> QED BY <1>6, <2>1, <2>2, <2>3 DEF Sound
<1>9. Running(q') /\ Unstalled(q', elevator', run', flush_queue_delayed')
  BY <1>1, <1>2, <1>6 DEF Running, Unstalled, in_progress
<1>10. /\ Worth(s)
       /\ \A o \in Request : o # r => (Safe(s, o) <=> Safe(q, o))
       /\ \A o \in Request : r \notin q.rq[o].must /\ q.rq[o].must \subseteq Request
  BY <1>1, <1>3, <1>7, WriteWorth
<1>11. \A o \in Request : Safe(q', o) <=> Safe(s, o)
  BY <1>4, <1>5 DEF Safe, HasReplaced
<1>12. Worth(q')
  <2>1. NoCache(q')
    BY <1>10, <1>11 DEF Worth, NoCache
  <2>2. Wanted(q', r)
    BY <1>4, <1>6 DEF Wanted
  <2>3. ASSUME NEW o \in Request, o # r PROVE Wanted(q', o)
    <3>1. Wanted(q, o) /\ q'.rq[o] = q.rq[o]
      BY <1>1, <1>6, <2>3 DEF Worth
    <3>2. \A b \in q.rq[o].must : Safe(q', b) <=> Safe(q, b)
      BY <1>10, <1>11
    <3>3. Safe(q', o) <=> Safe(q, o)
      BY <1>10, <1>11, <2>3
    <3>4. \A b \in Request : ~q.rq[b].on => ~q'.rq[b].on
      BY <1>4, <1>6
    <3>5. q'.rq[o].must \subseteq {b \in Request : ~q'.rq[b].on}
      BY <3>1, <3>4 DEF Wanted
    <3> QED BY <3>1, <3>2, <3>3, <3>5 DEF Wanted
  <2> QED BY <2>1, <2>2, <2>3 DEF Worth
<1>13. Covers(q', device', covered')
  <2> SUFFICES ASSUME flush_rq \in device', NEW o \in Request,
                      OnList(q'.flush_queue[q'.flush_running_idx], o),
                      NEW b \in q'.rq[o].must \cup {o}
               PROVE  Safe(q', b) \/ b \in covered'
    BY DEF Covers
  <2>1. flush_rq \in device /\ OnList(q.flush_queue[q.flush_running_idx], o)
    BY <1>2, <1>6
  <2>2. o # r
    BY <1>1, <1>7, <2>1 DEF OnQueue, Queues
  <2>3. b \in q.rq[o].must \cup {o} /\ b \in Request /\ b # r
    BY <1>6, <1>10, <2>2
  <2>4. Safe(q, b) \/ b \in covered
    BY <1>1, <2>1, <2>3 DEF Covers
  <2> QED BY <1>2, <1>10, <1>11, <2>3, <2>4
<1>14. device' \subseteq Request \cup {flush_rq}
  BY <1>1, <1>2
<1>15. BInv'
  BY <1>1, <1>2, <1>8, <1>9, <1>12, <1>13, <1>14, Assemble
<1>16. Kept
  <2>1. /\ \A b \in q.rq[r].must : Safe(q', b)
        /\ "FUA" \in q.rq[r].kind.flags => Safe(q', r)
    <3>1. Wanted(s, r) /\ s.rq[r].on /\ ~s.rq[r].sequenced /\ s.rq[r].must = q.rq[r].must
          /\ s.rq[r].kind = q.rq[r].kind
      BY <1>2, <1>3, <1>7, <1>10 DEF Worth, HasWritten
    <3>2. /\ \A b \in q.rq[r].must : Safe(s, b)
          /\ "FUA" \in q.rq[r].kind.flags => Safe(s, r)
      BY <3>1 DEF Wanted
    <3> QED BY <1>10, <1>11, <3>2
  <2>2. \A o \in Request : o \notin device' \ device
    BY <1>2
  <2>3. \A o \in Request : o # r => q'.rq[o].on = q.rq[o].on
    BY <1>6
  <2> QED BY <2>1, <2>2, <2>3 DEF Kept, Safe
<1> QED BY <1>15, <1>16
LEMMA FlushDataEndIo ==
  ASSUME BInv, NEW r \in Request, NEW error \in BOOLEAN, flush_data_end_io(r, error)
  PROVE  BInv' /\ Kept
<1> DEFINE s == Written(r, error)
           seq == {DATA}
<1>1. /\ Sound(q, device, elevator) /\ Running(q) /\ Worth(q) /\ Covers(q, device, covered)
      /\ Unstalled(q, elevator, run, flush_queue_delayed)
      /\ elevator \subseteq Request /\ device \subseteq Request \cup {flush_rq}
      /\ covered \subseteq Request /\ run \in BOOLEAN /\ flush_queue_delayed \in BOOLEAN
      /\ q \in Queues /\ flush_flags \in {{}, {"FLUSH"}, {"FLUSH", "FUA"}}
  BY Parts
<1>2. /\ UNCHANGED config /\ q' = blk_flush_complete_seq(s, r, seq, error)
      /\ elevator' = elevator /\ device' = device \ {r} /\ covered' = covered
      /\ run' = (run \/ queued(q, q')) /\ flush_queue_delayed' = flush_queue_delayed
      /\ r \in device /\ r # flush_rq /\ q.rq[r].sequenced
  BY DEF flush_data_end_io
<1>3. HasWritten(r, error, s)
  BY <1>1, Write
<1> HIDE DEF s
<1>4. /\ s \in Queues /\ (\A o \in Request : o # r => s.rq[o] = q.rq[o])
      /\ s.flush_queue = q.flush_queue /\ s.flush_data_in_flight = q.flush_data_in_flight
      /\ s.flush_pending_idx = q.flush_pending_idx
      /\ s.flush_running_idx = q.flush_running_idx
      /\ s.queue_head = q.queue_head
  BY <1>3 DEF HasWritten, SameLists
<1>5. /\ q.rq[r].on /\ ~OnQueue(q, r) /\ ~OnList(q.queue_head, r) /\ r \notin elevator
  <2>1. Placed(q, device, elevator, r)
    BY <1>1 DEF Sound
  <2> QED BY <1>2, <2>1 DEF Placed, Sequenced
<1>6. Linked(s) /\ FlushRq(s, device') /\ Running(s)
  BY <1>1, <1>2, <1>4 DEF Sound, Linked, FlushRq, Running, in_progress
<1>7. \A o \in Request : o # r => Placed(s, device', elevator', o)
  <2> SUFFICES ASSUME NEW o \in Request, o # r PROVE Placed(s, device', elevator', o)
    OBVIOUS
  <2>1. Placed(q, device, elevator, o) /\ q.rq[o].seq \in SUBSET FSEQ_ACTIONS
    BY <1>1 DEF Sound, Queues, Requests
  <2>2. /\ s.rq[o] = q.rq[o]
        /\ OnQueue(s, o) <=> OnQueue(q, o)
        /\ OnList(s.queue_head, o) <=> OnList(q.queue_head, o)
        /\ o \in s.flush_data_in_flight <=> o \in q.flush_data_in_flight
        /\ o \in device' <=> o \in device
        /\ o \in elevator' <=> o \in elevator
    BY <1>2, <1>4 DEF OnQueue
  <2> QED BY <2>1, <2>2, PlacedSame
<1>8. Sequenced(s, r) /\ r \notin device' /\ r \notin elevator' /\ ~OnList(s.queue_head, r)
      /\ ~OnQueue(s, r)
  BY <1>2, <1>3, <1>4, <1>5 DEF HasWritten, Sequenced, OnQueue
<1>9. /\ Worth(s)
      /\ \A o \in Request : o # r => (Safe(s, o) <=> Safe(q, o))
      /\ \A o \in Request : r \notin q.rq[o].must /\ q.rq[o].must \subseteq Request
  BY <1>1, <1>3, <1>5, WriteWorth
<1>10. seq \in SUBSET FSEQ_ACTIONS /\ (~error => MaySkip(s, r, seq))
  BY DEF MaySkip
<1> HIDE DEF seq
<1>11. HasCompleted(s, r, seq, error, device', elevator', q')
  <2>1. s \in Queues /\ q' = blk_flush_complete_seq(s, r, seq, error) /\ Worth(s)
        /\ Linked(s) /\ FlushRq(s, device')
    BY <1>2, <1>4, <1>6, <1>9
  <2> QED BY <2>1, <1>7, <1>8, <1>10, CompleteSeq
<1>12. PICK x : /\ HasStepped(s, r, seq, error, s.flush_pending_idx, x) /\ HasKicked(x, q')
                /\ Sound(q', device', elevator') /\ Worth(q') /\ Finished(s, q')
  BY <1>11 DEF HasCompleted
<1>13. q' \in Queues
  BY <1>12 DEF Sound
<1>14. /\ Running(q')
       /\ in_progress(s) => \A o \in Request :
            OnList(q'.flush_queue[q'.flush_running_idx], o) =>
              o # r /\ OnList(s.flush_queue[s.flush_running_idx], o)
       /\ q'.queue_head = s.queue_head \/ Len(q'.queue_head) > Len(s.queue_head)
       /\ in_progress(s) => in_progress(q')
       /\ q'.flush_queue[q'.flush_pending_idx] # <<>> =>
            in_progress(q') \/ q'.flush_data_in_flight # {}
  BY <1>4, <1>6, <1>8, <1>12, <1>13, Newcomer
<1>15. in_progress(s) <=> in_progress(q)
  BY <1>4 DEF in_progress
<1>16. Unstalled(q', elevator', run', flush_queue_delayed')
  <2>1. q'.queue_head # <<>> => run'
    BY <1>1, <1>2, <1>4, <1>14 DEF Unstalled, queued
  <2>2. elevator' # {} => run' \/ (flush_queue_delayed' /\ in_progress(q'))
    BY <1>1, <1>2, <1>14, <1>15 DEF Unstalled
  <2> QED BY <1>14, <2>1, <2>2 DEF Unstalled
<1>17. \A o \in Request : Safe(q', o) <=> Safe(s, o)
  BY <1>12 DEF Finished, Safe
<1>18. Covers(q', device', covered')
  <2> SUFFICES ASSUME flush_rq \in device', NEW o \in Request,
                      OnList(q'.flush_queue[q'.flush_running_idx], o),
                      NEW b \in q'.rq[o].must \cup {o}
               PROVE  Safe(q', b) \/ b \in covered'
    BY DEF Covers
  <2>1. flush_rq \in device /\ in_progress(s)
    BY <1>1, <1>2, <1>15 DEF Sound, FlushRq
  <2>2. o # r /\ OnList(q.flush_queue[q.flush_running_idx], o)
    BY <1>4, <1>14, <2>1
  <2>3. q'.rq[o] = q.rq[o]
    BY <1>4, <1>12, <2>2 DEF HasStepped, HasKicked
  <2>4. b \in q.rq[o].must \cup {o} /\ b \in Request /\ b # r
    BY <1>9, <2>2, <2>3
  <2>5. Safe(q, b) \/ b \in covered
    BY <1>1, <2>1, <2>2, <2>4 DEF Covers
  <2> QED BY <1>2, <1>9, <1>17, <2>4, <2>5
<1>19. device' \subseteq Request \cup {flush_rq} /\ run' \in BOOLEAN
  BY <1>1, <1>2 DEF queued
<1>20. BInv'
  BY <1>1, <1>2, <1>12, <1>14, <1>16, <1>18, <1>19, Assemble
<1>21. Kept
  <2>1. \A o \in Request : o \notin device' \ device
    BY <1>2
  <2>2. ASSUME NEW o \in Request, q.rq[o].on, ~q'.rq[o].on, ~q'.rq[o].error
        PROVE  /\ \A b \in q.rq[o].must : Safe(q', b)
               /\ "FUA" \in q.rq[o].kind.flags => Safe(q', o)
    <3>1. s.rq[o].on = q.rq[o].on /\ s.rq[o].must = q.rq[o].must /\ s.rq[o].kind = q.rq[o].kind
      BY <1>3 DEF HasWritten
    <3>2. /\ \A b \in s.rq[o].must : Safe(s, b)
          /\ "FUA" \in s.rq[o].kind.flags => Safe(s, o)
      BY <1>12, <2>2, <3>1 DEF Finished
    <3> QED BY <1>9, <1>17, <3>1, <3>2
  <2> QED BY <2>1, <2>2 DEF Kept, Safe
<1> QED BY <1>20, <1>21
(* The end of a flush, with all the turns of the walk. *)
LEMMA FlushEndIo ==
  ASSUME BInv, NEW error \in BOOLEAN, flush_end_io(error)
  PROVE  BInv' /\ Kept
<1> DEFINE saved == IF error THEN q
                    ELSE [q EXCEPT !.rq = [r \in Request |-> IF r \in covered
                            THEN [q.rq[r] EXCEPT !.cache = "stable"] ELSE q.rq[r]]]
           s == [saved EXCEPT !.flush_running_idx = 1 - @]
           list == q.flush_running_idx
<1>1. /\ Sound(q, device, elevator) /\ Running(q) /\ Worth(q) /\ Covers(q, device, covered)
      /\ Unstalled(q, elevator, run, flush_queue_delayed)
      /\ elevator \subseteq Request /\ device \subseteq Request \cup {flush_rq}
      /\ covered \subseteq Request /\ run \in BOOLEAN /\ flush_queue_delayed \in BOOLEAN
      /\ q \in Queues
  BY Parts
<1>2. /\ UNCHANGED config /\ q' = push_waiting(s, list, error)
      /\ elevator' = elevator /\ device' = device \ {flush_rq} /\ covered' = {}
      /\ run' = (run \/ queued(q, q') \/ flush_queue_delayed) /\ flush_queue_delayed' = FALSE
      /\ flush_rq \in device
  BY DEF flush_end_io
<1>3. /\ saved \in Queues /\ SameLists(q, saved)
      /\ \A o \in Request : /\ saved.rq[o].on = q.rq[o].on /\ saved.rq[o].sequenced = q.rq[o].sequenced
                            /\ saved.rq[o].kind = q.rq[o].kind /\ saved.rq[o].seq = q.rq[o].seq
                            /\ saved.rq[o].must = q.rq[o].must
                            /\ Safe(q, o) => Safe(saved, o)
                            /\ ~error /\ o \in covered => Safe(saved, o)
  <2>1. CASE error
    <3>1. saved = q
      BY <2>1
    <3> HIDE DEF saved
    <3> QED BY <1>1, <2>1, <3>1 DEF SameLists
  <2>2. CASE ~error
    <3> DEFINE f == [r \in Request |-> IF r \in covered
                       THEN [q.rq[r] EXCEPT !.cache = "stable"] ELSE q.rq[r]]
    <3>1. saved = [q EXCEPT !.rq = f]
      BY <2>2
    <3>2. \A o \in Request : q.rq[o] \in Requests
      BY <1>1 DEF Queues
    <3>3. \A o \in Request : /\ f[o] \in Requests
                             /\ f[o].on = q.rq[o].on /\ f[o].sequenced = q.rq[o].sequenced
                             /\ f[o].kind = q.rq[o].kind /\ f[o].seq = q.rq[o].seq
                             /\ f[o].must = q.rq[o].must
                             /\ f[o].cache = IF o \in covered THEN "stable" ELSE q.rq[o].cache
      BY <3>2 DEF Requests
    <3>4. f \in [Request -> Requests]
      BY <3>3
    <3> HIDE DEF f, saved
    <3>5. saved \in Queues /\ SameLists(q, saved) /\ saved.rq = f
      BY <1>1, <3>1, <3>4 DEF Queues, SameLists
    <3> QED BY <2>2, <3>3, <3>5 DEF Safe
  <2> QED BY <2>1, <2>2
<1> HIDE DEF saved
<1>4. /\ in_progress(q) /\ q.flush_pending_idx = 1 - list /\ list \in 0..1 /\ 1 - list \in 0..1
      /\ 1 - q.flush_pending_idx = list
      /\ ~OnList(q.queue_head, flush_rq)
  <2>1. in_progress(q) /\ ~OnList(q.queue_head, flush_rq)
    BY <1>1, <1>2 DEF Sound, FlushRq
  <2>2. q.flush_pending_idx \in 0..1 /\ list \in 0..1
    BY <1>1 DEF Queues
  <2> QED BY <2>1, <2>2 DEF in_progress
<1>5. /\ s \in Queues /\ s.rq = saved.rq /\ s.flush_queue = q.flush_queue
      /\ s.flush_data_in_flight = q.flush_data_in_flight
      /\ s.flush_pending_idx = 1 - list /\ s.flush_running_idx = 1 - list
      /\ s.queue_head = q.queue_head
  BY <1>3, <1>4 DEF Queues, SameLists
<1> HIDE DEF s, list
<1>6. \A o \in Request : /\ s.rq[o].on = q.rq[o].on /\ s.rq[o].sequenced = q.rq[o].sequenced
                         /\ s.rq[o].kind = q.rq[o].kind /\ s.rq[o].seq = q.rq[o].seq
                         /\ s.rq[o].must = q.rq[o].must
                         /\ Safe(q, o) => Safe(s, o)
                         /\ ~error /\ o \in covered => Safe(s, o)
  BY <1>3, <1>5 DEF Safe
<1>7. ~in_progress(s)
  BY <1>5 DEF in_progress
<1>8. Sound(s, device', elevator')
  <2>1. Linked(s)
    BY <1>1, <1>5 DEF Sound, Linked
  <2>2. FlushRq(s, device')
    BY <1>2, <1>4, <1>5, <1>7 DEF FlushRq
  <2>3. ASSUME NEW o \in Request PROVE Placed(s, device', elevator', o)
    <3>1. Placed(q, device, elevator, o) /\ q.rq[o].seq \in SUBSET FSEQ_ACTIONS
      BY <1>1 DEF Sound, Queues, Requests
    <3>2. o # flush_rq
      BY FlushRqAssumption
    <3>3. /\ s.rq[o].seq = q.rq[o].seq
          /\ s.rq[o].on <=> q.rq[o].on
          /\ s.rq[o].sequenced <=> q.rq[o].sequenced
      BY <1>6
    <3>4. /\ OnQueue(s, o) <=> OnQueue(q, o)
          /\ OnList(s.queue_head, o) <=> OnList(q.queue_head, o)
          /\ o \in s.flush_data_in_flight <=> o \in q.flush_data_in_flight
          /\ o \in device' <=> o \in device
          /\ o \in elevator' <=> o \in elevator
      BY <1>2, <1>5, <3>2 DEF OnQueue
    <3> QED BY <3>1, <3>3, <3>4, PlacedSame
  <2> QED BY <1>5, <2>1, <2>2, <2>3 DEF Sound
<1>9. \A o \in Request : q.rq[o].must \subseteq Request
  BY <1>1 DEF Queues, Requests
<1>10. Worth(s)
  <2>1. NoCache(s)
    BY <1>1, <1>6 DEF Worth, NoCache
  <2>2. ASSUME NEW o \in Request PROVE Wanted(s, o)
    <3>1. Wanted(q, o)
      BY <1>1 DEF Worth
    <3>2. s.rq[o].must \subseteq {b \in Request : ~s.rq[b].on}
      BY <1>6, <3>1 DEF Wanted
    <3>3. (\A b \in q.rq[o].must : Safe(q, b)) => (\A b \in s.rq[o].must : Safe(s, b))
      BY <1>6, <1>9
    <3> QED BY <1>6, <3>1, <3>2, <3>3 DEF Wanted
  <2> QED BY <2>1, <2>2 DEF Worth
<1>11. s.flush_queue[list] # <<>>
  BY <1>1, <1>4, <1>5 DEF Running
<1>12. ~error => \A o \in Request : OnList(s.flush_queue[list], o) =>
                   \A b \in s.rq[o].must \cup {o} : Safe(s, b)
  <2> SUFFICES ASSUME ~error, NEW o \in Request, OnList(s.flush_queue[list], o),
                      NEW b \in s.rq[o].must \cup {o}
               PROVE  Safe(s, b)
    OBVIOUS
  <2>1. OnList(q.flush_queue[q.flush_running_idx], o) /\ b \in q.rq[o].must \cup {o}
    BY <1>5, <1>6 DEF list
  <2>2. Safe(q, b) \/ b \in covered
    BY <1>1, <1>2, <2>1 DEF Covers
  <2>3. b \in Request
    BY <1>9, <2>1
  <2> QED BY <1>6, <2>2, <2>3
<1>13. Finished(s, s)
  BY DEF Finished
<1>14. Walk(s, [s |-> s, more |-> TRUE], list, error, device', elevator')
  BY <1>5, <1>7, <1>8, <1>10, <1>11, <1>12, <1>13 DEF Walk
<1>15. Walk(s, [s |-> q', more |-> FALSE], list, error, device', elevator')
  BY <1>2, <1>4, <1>11, <1>14, PushEnds
<1>16. /\ Sound(q', device', elevator') /\ Worth(q') /\ Finished(s, q')
       /\ q'.flush_running_idx = 1 - list
       /\ in_progress(q') => q'.flush_queue[1 - list] # <<>>
       /\ q'.queue_head = s.queue_head \/ Len(q'.queue_head) > Len(s.queue_head)
       /\ in_progress(q') \/ q'.flush_queue[list] = <<>>
       /\ \/ in_progress(q') \/ q'.flush_queue[q'.flush_pending_idx] = <<>>
          \/ q'.flush_data_in_flight # {}
  BY <1>15 DEF Walk
<1>17. Running(q')
  <2>1. q'.flush_pending_idx \in 0..1
    BY <1>16 DEF Sound, Queues
  <2>2. CASE in_progress(q')
    <3>1. 1 - q'.flush_pending_idx = 1 - list
      BY <1>4, <1>16, <2>1, <2>2 DEF in_progress
    <3> QED BY <1>16, <2>2, <3>1 DEF Running
  <2>3. CASE ~in_progress(q')
    <3>1. 1 - q'.flush_pending_idx = list
      BY <1>4, <1>16, <2>1, <2>3 DEF in_progress
    <3> QED BY <1>16, <2>3, <3>1 DEF Running
  <2> QED BY <2>2, <2>3
<1>18. Unstalled(q', elevator', run', flush_queue_delayed')
  <2>1. q'.queue_head # <<>> => run'
    BY <1>1, <1>2, <1>5, <1>16 DEF Unstalled, queued
  <2>2. elevator' # {} => run'
    BY <1>1, <1>2 DEF Unstalled
  <2> QED BY <1>16, <2>1, <2>2 DEF Unstalled
<1>19. Covers(q', device', covered')
  BY <1>2 DEF Covers
<1>20. /\ device' \subseteq Request \cup {flush_rq} /\ run' \in BOOLEAN
       /\ flush_queue_delayed' \in BOOLEAN /\ covered' \subseteq Request
  BY <1>1, <1>2 DEF queued
<1>21. BInv'
  BY <1>1, <1>2, <1>16, <1>17, <1>18, <1>19, <1>20, Assemble
<1>22. Kept
  <2>1. \A o \in Request : o \notin device' \ device
    BY <1>2
  <2>2. \A o \in Request : Safe(q', o) <=> Safe(s, o)
    BY <1>16 DEF Finished, Safe
  <2>3. ASSUME NEW o \in Request, q.rq[o].on, ~q'.rq[o].on, ~q'.rq[o].error
        PROVE  /\ \A b \in q.rq[o].must : Safe(q', b)
               /\ "FUA" \in q.rq[o].kind.flags => Safe(q', o)
    <3>1. s.rq[o].on /\ s.rq[o].must = q.rq[o].must /\ s.rq[o].kind = q.rq[o].kind
      BY <1>6, <2>3
    <3>2. /\ \A b \in s.rq[o].must : Safe(s, b)
          /\ "FUA" \in s.rq[o].kind.flags => Safe(s, o)
      BY <1>16, <2>3, <3>1 DEF Finished
    <3> QED BY <1>9, <2>2, <3>1, <3>2
  <2> QED BY <2>1, <2>3 DEF Kept, Safe
<1> QED BY <1>21, <1>22
----------------------------------------------------------------------------
(* The request r is submitted: policy is the steps it will take, M is what *)
(* it wants to be safe.                                                    *)
Entered(r, kind, M, policy, u) ==
  /\ \A o \in Request : o # r =>
       /\ u.rq[o].on = q.rq[o].on /\ u.rq[o].sequenced = q.rq[o].sequenced
       /\ u.rq[o].kind = q.rq[o].kind /\ u.rq[o].seq = q.rq[o].seq
       /\ u.rq[o].cache = q.rq[o].cache /\ u.rq[o].must = q.rq[o].must \ {r}
  /\ u.rq[r].cache = "none" /\ u.rq[r].must \subseteq M
  /\ u.rq[r].on => /\ u.rq[r].kind = kind
                   /\ IF u.rq[r].sequenced THEN u.rq[r].seq = FSEQ_ACTIONS \ policy
                                           ELSE policy \subseteq {DATA}
  /\ Running(u)
  /\ in_progress(q) => \A o \in Request :
       OnList(u.flush_queue[u.flush_running_idx], o) =>
         o # r /\ OnList(q.flush_queue[q.flush_running_idx], o)
  /\ u.flush_queue[u.flush_pending_idx] # <<>> => in_progress(u) \/ u.flush_data_in_flight # {}

LEMMA SubmitDone ==
  ASSUME BInv, NEW r \in Request, NEW kind, NEW M, NEW policy, ~q.rq[r].on,
         UNCHANGED config, device' = device, covered' = covered \ {r}, run' = TRUE,
         flush_queue_delayed' = flush_queue_delayed, elevator' \subseteq Request,
         Sound(q', device', elevator'), Entered(r, kind, M, policy, q'),
         M \subseteq {o \in Request \ {r} : ~q.rq[o].on},
         PREFLUSH \notin policy => M = {},
         POSTFLUSH \notin policy /\ "FUA" \in kind.flags => flush_flags # {"FLUSH"}
  PROVE  BInv' /\ Kept
<1>1. /\ Sound(q, device, elevator) /\ Worth(q) /\ Covers(q, device, covered)
      /\ device \subseteq Request \cup {flush_rq}
      /\ covered \subseteq Request /\ flush_queue_delayed \in BOOLEAN /\ q \in Queues
  BY Parts
<1>2. \A o \in Request : o # r => (Safe(q', o) <=> Safe(q, o))
  BY DEF Entered, Safe
<1>3. Safe(q', r)
  BY DEF Entered, Safe
<1>4. \A o \in Request : q.rq[o].must \subseteq Request
  BY <1>1 DEF Queues, Requests
<1>5. Worth(q')
  <2>1. NoCache(q')
    BY <1>1, <1>2, <1>3 DEF Worth, NoCache
  <2>2. ASSUME NEW o \in Request, o # r PROVE Wanted(q', o)
    <3>1. /\ q'.rq[o].on = q.rq[o].on /\ q'.rq[o].sequenced = q.rq[o].sequenced
          /\ q'.rq[o].kind = q.rq[o].kind /\ q'.rq[o].seq = q.rq[o].seq
          /\ q'.rq[o].must = q.rq[o].must \ {r}
      BY <2>2 DEF Entered
    <3>2. Wanted(q, o)
      BY <1>1 DEF Worth
    <3>3. q'.rq[o].must \subseteq {b \in Request : ~q'.rq[b].on}
      <4> SUFFICES ASSUME NEW b \in q'.rq[o].must PROVE b \in Request /\ ~q'.rq[b].on
        OBVIOUS
      <4>1. b \in Request /\ b # r /\ ~q.rq[b].on
        BY <3>1, <3>2 DEF Wanted
      <4> QED BY <4>1 DEF Entered
    <3>4. (\A b \in q.rq[o].must : Safe(q, b)) => (\A b \in q'.rq[o].must : Safe(q', b))
      BY <1>2, <1>4, <3>1
    <3>5. Safe(q', o) <=> Safe(q, o)
      BY <1>2, <2>2
    <3> QED BY <3>1, <3>2, <3>3, <3>4, <3>5 DEF Wanted
  <2>3. Wanted(q', r)
    <3>1. q'.rq[r].must \subseteq {b \in Request : ~q'.rq[b].on}
      <4> SUFFICES ASSUME NEW b \in q'.rq[r].must PROVE b \in Request /\ ~q'.rq[b].on
        OBVIOUS
      <4>1. b \in Request /\ b # r /\ ~q.rq[b].on
        BY DEF Entered
      <4> QED BY <4>1 DEF Entered
    <3>2. q'.rq[r].on => \/ \A o \in q'.rq[r].must : Safe(q', o)
                         \/ q'.rq[r].sequenced /\ PREFLUSH \notin q'.rq[r].seq
      <4>1. CASE PREFLUSH \in policy
        BY <4>1 DEF Entered
      <4>2. CASE PREFLUSH \notin policy
        <5>1. q'.rq[r].must = {}
          BY <4>2 DEF Entered
        <5> QED BY <5>1
      <4> QED BY <4>1, <4>2
    <3>3. q'.rq[r].on /\ "FUA" \in q'.rq[r].kind.flags =>
            \/ Safe(q', r) /\ flush_flags # {"FLUSH"}
            \/ q'.rq[r].sequenced /\ POSTFLUSH \notin q'.rq[r].seq
      <4>1. CASE POSTFLUSH \in policy
        BY <4>1 DEF Entered
      <4>2. CASE POSTFLUSH \notin policy
        BY <1>3, <4>2 DEF Entered
      <4> QED BY <4>1, <4>2
    <3> QED BY <3>1, <3>2, <3>3 DEF Wanted
  <2> QED BY <2>1, <2>2, <2>3 DEF Worth
<1>6. Covers(q', device', covered')
  <2> SUFFICES ASSUME flush_rq \in device', NEW o \in Request,
                      OnList(q'.flush_queue[q'.flush_running_idx], o),
                      NEW b \in q'.rq[o].must \cup {o}
               PROVE  Safe(q', b) \/ b \in covered'
    BY DEF Covers
  <2>1. flush_rq \in device /\ in_progress(q)
    BY <1>1 DEF Sound, FlushRq
  <2>2. o # r /\ OnList(q.flush_queue[q.flush_running_idx], o)
    BY <2>1 DEF Entered
  <2>3. b \in q.rq[o].must \cup {o} /\ b \in Request /\ b # r
    BY <1>4, <2>2 DEF Entered
  <2>4. Safe(q, b) \/ b \in covered
    BY <1>1, <2>1, <2>2, <2>3 DEF Covers
  <2> QED BY <1>2, <2>3, <2>4
<1>7. Running(q') /\ Unstalled(q', elevator', run', flush_queue_delayed')
  BY DEF Entered, Unstalled
<1>8. covered' \subseteq Request /\ run' \in BOOLEAN /\ flush_queue_delayed' \in BOOLEAN
      /\ device' \subseteq Request \cup {flush_rq}
  BY <1>1
<1>9. BInv'
  BY <1>5, <1>6, <1>7, <1>8, Assemble
<1>10. Kept
  BY KeptQuiet DEF Entered
<1> QED BY <1>9, <1>10

LEMMA SubmitWrite ==
  ASSUME BInv, NEW r \in Request, NEW kind \in Kinds, submit_write(r, kind)
  PROVE  BInv' /\ Kept
<1> DEFINE new == [Idle EXCEPT !.on = TRUE, !.kind = kind]
           t == [q EXCEPT !.rq[r] = new]
<1>1. /\ Sound(q, device, elevator) /\ Running(q) /\ elevator \subseteq Request
      /\ Unstalled(q, elevator, run, flush_queue_delayed) /\ q \in Queues
  BY Parts
<1>2. /\ UNCHANGED config /\ q' = Forget(t, r) /\ elevator' = elevator \cup {r}
      /\ device' = device /\ covered' = covered \ {r} /\ run' = TRUE
      /\ flush_queue_delayed' = flush_queue_delayed
      /\ ~q.rq[r].on /\ kind.flags = {}
  BY DEF submit_write
<1>3. /\ new \in Requests /\ new.on /\ new.kind = kind /\ ~new.sequenced /\ new.seq = {}
      /\ new.cache = "none" /\ new.must = {}
  BY DEF Idle, Requests
<1> HIDE DEF new
<1>4. HasReplaced(q, r, new, t)
  BY <1>1, <1>3, Replace
<1> HIDE DEF t
<1>5. HasForgotten(t, r, q')
  BY <1>2, <1>4, Forgotten DEF HasReplaced
<1>6. /\ q' \in Queues /\ q'.flush_queue = q.flush_queue
      /\ q'.flush_data_in_flight = q.flush_data_in_flight
      /\ q'.flush_pending_idx = q.flush_pending_idx
      /\ q'.flush_running_idx = q.flush_running_idx /\ q'.queue_head = q.queue_head
  BY <1>4, <1>5 DEF HasReplaced, HasForgotten, SameLists
<1>7. /\ q'.rq[r].on /\ ~q'.rq[r].sequenced /\ q'.rq[r].kind = kind
      /\ q'.rq[r].cache = "none" /\ q'.rq[r].must \subseteq {}
  BY <1>3, <1>4, <1>5 DEF HasReplaced, HasForgotten
<1>8. \A o \in Request : o # r =>
        /\ q'.rq[o].on = q.rq[o].on /\ q'.rq[o].sequenced = q.rq[o].sequenced
        /\ q'.rq[o].kind = q.rq[o].kind /\ q'.rq[o].seq = q.rq[o].seq
        /\ q'.rq[o].cache = q.rq[o].cache /\ q'.rq[o].must = q.rq[o].must \ {r}
  BY <1>4, <1>5 DEF HasReplaced, HasForgotten
<1>9. /\ ~OnQueue(q, r) /\ ~OnList(q.queue_head, r) /\ r \notin device
      /\ r \notin q.flush_data_in_flight
  <2>1. Placed(q, device, elevator, r)
    BY <1>1 DEF Sound
  <2> QED BY <1>2, <2>1 DEF Placed, Sequenced
<1>10. Sound(q', device', elevator')
  <2>1. Linked(q') /\ FlushRq(q', device')
    BY <1>1, <1>2, <1>6 DEF Sound, Linked, FlushRq, in_progress
  <2>2. Placed(q', device', elevator', r)
    <3>1. ~OnQueue(q', r) /\ ~Sequenced(q', r)
      BY <1>6, <1>7, <1>9 DEF OnQueue, Sequenced
    <3> QED BY <1>2, <1>6, <1>7, <1>9, <3>1 DEF Placed
  <2>3. ASSUME NEW o \in Request, o # r PROVE Placed(q', device', elevator', o)
    <3>1. Placed(q, device, elevator, o) /\ q.rq[o].seq \in SUBSET FSEQ_ACTIONS
      BY <1>1 DEF Sound, Queues, Requests
    <3>2. /\ q'.rq[o].seq = q.rq[o].seq
          /\ q'.rq[o].on <=> q.rq[o].on
          /\ q'.rq[o].sequenced <=> q.rq[o].sequenced
      BY <1>8, <2>3
    <3>3. /\ OnQueue(q', o) <=> OnQueue(q, o)
          /\ OnList(q'.queue_head, o) <=> OnList(q.queue_head, o)
          /\ o \in q'.flush_data_in_flight <=> o \in q.flush_data_in_flight
          /\ o \in device' <=> o \in device
          /\ o \in elevator' <=> o \in elevator
      BY <1>2, <1>6, <2>3 DEF OnQueue
    <3> QED BY <3>1, <3>2, <3>3, PlacedSame
  <2> QED BY <1>6, <2>1, <2>2, <2>3 DEF Sound
<1> DEFINE M == {}
           policy == {DATA}
<1>11. Entered(r, kind, M, policy, q')
  <2>1. Running(q') /\ \A o \in Request :
          OnList(q'.flush_queue[q'.flush_running_idx], o) =>
            o # r /\ OnList(q.flush_queue[q.flush_running_idx], o)
    BY <1>1, <1>6, <1>9 DEF Running, in_progress, OnQueue, Queues
  <2>2. q'.flush_queue[q'.flush_pending_idx] # <<>> =>
          in_progress(q') \/ q'.flush_data_in_flight # {}
    BY <1>1, <1>6 DEF Unstalled, in_progress
  <2> QED BY <1>7, <1>8, <2>1, <2>2 DEF Entered
<1>12. /\ M \subseteq {o \in Request \ {r} : ~q.rq[o].on} /\ (PREFLUSH \notin policy => M = {})
       /\ POSTFLUSH \notin policy /\ "FUA" \in kind.flags => flush_flags # {"FLUSH"}
  BY <1>2
<1>13. elevator' \subseteq Request
  BY <1>1, <1>2
<1> HIDE DEF M, policy
<1> QED BY <1>2, <1>10, <1>11, <1>12, <1>13, SubmitDone
(* A request that is in no place may be given one. *)
LEMMA SubmitFlush ==
  ASSUME BInv, NEW r \in Request, NEW kind \in Kinds, submit_flush(r, kind)
  PROVE  BInv' /\ Kept
<1> DEFINE policy == blk_flush_policy(kind)
           M == IF "FLUSH" \in kind.flags
                  THEN {o \in Request \ {r} : ~q.rq[o].on /\ q.rq[o].cache = "cached"} ELSE {}
           new == [Idle EXCEPT !.on = TRUE, !.kind = kind, !.must = M]
           s == [q EXCEPT !.rq[r] = new]
           t == blk_insert_flush(r, kind)
<1>1. /\ Sound(q, device, elevator) /\ Running(q) /\ elevator \subseteq Request /\ Worth(q)
      /\ Unstalled(q, elevator, run, flush_queue_delayed) /\ q \in Queues
      /\ flush_flags \in {{}, {"FLUSH"}, {"FLUSH", "FUA"}}
  BY Parts
<1>2. /\ UNCHANGED config /\ q' = Forget(t, r) /\ elevator' = elevator
      /\ device' = device /\ covered' = covered \ {r} /\ run' = TRUE
      /\ flush_queue_delayed' = flush_queue_delayed
      /\ ~q.rq[r].on
  BY DEF submit_flush
<1>3. /\ M \subseteq {o \in Request \ {r} : ~q.rq[o].on} /\ (PREFLUSH \notin policy => M = {})
  <2>1. "FLUSH" \notin flush_flags => M = {}
    <3>1. "FLUSH" \notin flush_flags => flush_flags = {}
      BY <1>1
    <3> QED BY <1>1, <3>1 DEF Worth, NoCache, Safe
  <2> QED BY <2>1 DEF blk_flush_policy
<1>4. /\ POSTFLUSH \notin policy /\ "FUA" \in kind.flags => flush_flags # {"FLUSH"}
      /\ policy \subseteq FSEQ_ACTIONS
  BY DEF blk_flush_policy
<1>5. t = CASE policy = {} -> __blk_end_request_all(s, r, FALSE)
            [] policy = {DATA} -> [s EXCEPT !.queue_head = Append(@, r)]
            [] OTHER -> blk_flush_complete_seq([s EXCEPT !.rq[r].sequenced = TRUE],
                                               r, FSEQ_ACTIONS \ policy, FALSE)
  BY DEF blk_insert_flush
<1> HIDE DEF M, policy, t
<1>6. /\ new \in Requests /\ new.on /\ new.kind = kind /\ ~new.sequenced /\ new.seq = {}
      /\ new.cache = "none" /\ new.must = M
  BY <1>3 DEF Idle, Requests
<1> HIDE DEF new
<1>7. HasReplaced(q, r, new, s)
  BY <1>1, <1>6, Replace
<1>8. s.rq \in [Request -> Requests] /\ s.rq[r] = new /\ s \in Queues
  BY <1>7 DEF HasReplaced, Queues
<1> HIDE DEF s
<1>9. /\ ~OnQueue(q, r) /\ ~OnList(q.queue_head, r) /\ r \notin device /\ r \notin elevator
      /\ r \notin q.flush_data_in_flight
  <2>1. Placed(q, device, elevator, r)
    BY <1>1 DEF Sound
  <2> QED BY <1>2, <2>1 DEF Placed, Sequenced
<1>10. ASSUME NEW u, SameLists(q, u), u \in Queues, \A o \in Request : o # r => u.rq[o] = q.rq[o]
       PROVE  /\ \A o \in Request : o # r => Placed(u, device, elevator, o)
              /\ Linked(u) /\ FlushRq(u, device) /\ Running(u)
              /\ ~OnQueue(u, r) /\ ~OnList(u.queue_head, r) /\ r \notin u.flush_data_in_flight
              /\ in_progress(u) <=> in_progress(q)
  <2>1. ASSUME NEW o \in Request, o # r PROVE Placed(u, device, elevator, o)
    <3>1. Placed(q, device, elevator, o) /\ q.rq[o].seq \in SUBSET FSEQ_ACTIONS
      BY <1>1 DEF Sound, Queues, Requests
    <3>2. /\ u.rq[o] = q.rq[o]
          /\ OnQueue(u, o) <=> OnQueue(q, o)
          /\ OnList(u.queue_head, o) <=> OnList(q.queue_head, o)
          /\ o \in u.flush_data_in_flight <=> o \in q.flush_data_in_flight
      BY <1>10, <2>1 DEF OnQueue, SameLists
    <3> QED BY <3>1, <3>2, PlacedSame
  <2>2. Linked(u) /\ FlushRq(u, device) /\ Running(u) /\ (in_progress(u) <=> in_progress(q))
    BY <1>1, <1>10 DEF SameLists, Sound, Linked, FlushRq, Running, in_progress
  <2>3. ~OnQueue(u, r) /\ ~OnList(u.queue_head, r) /\ r \notin u.flush_data_in_flight
    BY <1>9, <1>10 DEF SameLists, OnQueue
  <2> QED BY <2>1, <2>2, <2>3
(* Whatever happened to r, what is left is the same. *)
<1>11. ASSUME t \in Queues, Sound(t, device, elevator), Running(t),
              \A o \in Request : o # r => t.rq[o] = q.rq[o],
              t.rq[r].cache = "none", t.rq[r].must \subseteq M,
              t.rq[r].on => /\ t.rq[r].kind = kind
                            /\ IF t.rq[r].sequenced THEN t.rq[r].seq = FSEQ_ACTIONS \ policy
                                                    ELSE policy \subseteq {DATA},
              in_progress(q) => \A o \in Request :
                OnList(t.flush_queue[t.flush_running_idx], o) =>
                  o # r /\ OnList(q.flush_queue[q.flush_running_idx], o),
              t.flush_queue[t.flush_pending_idx] # <<>> =>
                in_progress(t) \/ t.flush_data_in_flight # {}
       PROVE  BInv' /\ Kept
  <2>1. HasForgotten(t, r, q')
    BY <1>2, <1>11, Forgotten
  <2>2. Sound(q', device', elevator')
    BY <1>2, <1>11, <2>1, ForgetSound
  <2>3. /\ q'.flush_queue = t.flush_queue /\ q'.flush_data_in_flight = t.flush_data_in_flight
        /\ q'.flush_pending_idx = t.flush_pending_idx
        /\ q'.flush_running_idx = t.flush_running_idx
    BY <2>1 DEF HasForgotten, SameLists
  <2>4. \A o \in Request : o # r =>
        /\ q'.rq[o].on = q.rq[o].on /\ q'.rq[o].sequenced = q.rq[o].sequenced
        /\ q'.rq[o].kind = q.rq[o].kind /\ q'.rq[o].seq = q.rq[o].seq
        /\ q'.rq[o].cache = q.rq[o].cache /\ q'.rq[o].must = q.rq[o].must \ {r}
    BY <1>11, <2>1 DEF HasForgotten
  <2>5. /\ q'.rq[r].on = t.rq[r].on /\ q'.rq[r].sequenced = t.rq[r].sequenced
        /\ q'.rq[r].kind = t.rq[r].kind /\ q'.rq[r].seq = t.rq[r].seq
        /\ q'.rq[r].cache = t.rq[r].cache /\ q'.rq[r].must = t.rq[r].must \ {r}
    BY <2>1 DEF HasForgotten
  <2>6. q'.rq[r].cache = "none" /\ q'.rq[r].must \subseteq M
    BY <1>11, <2>5
  <2>7. q'.rq[r].on => /\ q'.rq[r].kind = kind
                       /\ IF q'.rq[r].sequenced THEN q'.rq[r].seq = FSEQ_ACTIONS \ policy
                                                ELSE policy \subseteq {DATA}
    BY <1>11, <2>5
  <2>8. /\ Running(q')
        /\ in_progress(q) => \A o \in Request :
             OnList(q'.flush_queue[q'.flush_running_idx], o) =>
               o # r /\ OnList(q.flush_queue[q.flush_running_idx], o)
        /\ q'.flush_queue[q'.flush_pending_idx] # <<>> =>
             in_progress(q') \/ q'.flush_data_in_flight # {}
    BY <1>11, <2>3 DEF Running, in_progress
  <2>9. Entered(r, kind, M, policy, q')
    BY <2>4, <2>6, <2>7, <2>8 DEF Entered
  <2>10. elevator' \subseteq Request
    BY <1>1, <1>2
  <2> QED BY <1>2, <1>3, <1>4, <2>2, <2>9, <2>10, SubmitDone
(* Nothing is to be done: it ends at once. *)
<1>12. CASE policy = {}
  <2> DEFINE x == [Idle EXCEPT !.error = FALSE, !.cache = s.rq[r].cache]
  <2>1. t = [s EXCEPT !.rq[r] = x]
    BY <1>5, <1>12 DEF __blk_end_request_all
  <2>2. /\ x \in Requests /\ ~x.on /\ ~x.sequenced /\ x.cache = "none" /\ x.must = {}
    BY <1>6, <1>8 DEF Idle, Requests
  <2> HIDE DEF x
  <2>3. HasReplaced(s, r, x, t)
    BY <1>8, <2>1, <2>2, Replace
  <2>4. SameLists(q, t) /\ t \in Queues /\ (\A o \in Request : o # r => t.rq[o] = q.rq[o])
        /\ t.rq[r] = x
    BY <1>7, <2>3 DEF HasReplaced, SameLists
  <2>5. /\ \A o \in Request : o # r => Placed(t, device, elevator, o)
        /\ Linked(t) /\ FlushRq(t, device) /\ Running(t)
        /\ ~OnQueue(t, r) /\ ~OnList(t.queue_head, r) /\ r \notin t.flush_data_in_flight
        /\ in_progress(t) <=> in_progress(q)
    BY <1>10, <2>4
  <2>6. Placed(t, device, elevator, r)
    BY <1>9, <2>2, <2>4, <2>5 DEF Placed, Sequenced
  <2>7. Sound(t, device, elevator)
    BY <2>4, <2>5, <2>6 DEF Sound
  <2>8. \A o \in Request : OnList(t.flush_queue[t.flush_running_idx], o) =>
                             o # r /\ OnList(q.flush_queue[q.flush_running_idx], o)
    BY <1>1, <1>9, <2>4 DEF SameLists, OnQueue, Queues
  <2>9. t.flush_queue[t.flush_pending_idx] # <<>> => in_progress(t) \/ t.flush_data_in_flight # {}
    BY <1>1, <2>4, <2>5 DEF SameLists, Unstalled
  <2>10. t.rq[r].cache = "none" /\ t.rq[r].must \subseteq M /\ ~t.rq[r].on
    BY <2>2, <2>4
  <2> QED BY <1>11, <2>4, <2>5, <2>7, <2>8, <2>9, <2>10
(* Only its data is to be written. *)
<1>13. CASE policy = {DATA}
  <2>1. t = [s EXCEPT !.queue_head = Append(@, r)]
    BY <1>5, <1>13
  <2>2. SameLists(q, s) /\ \A o \in Request : o # r => s.rq[o] = q.rq[o]
    BY <1>7 DEF HasReplaced
  <2>3. /\ \A o \in Request : o # r => Placed(s, device, elevator, o)
        /\ Linked(s) /\ FlushRq(s, device) /\ Running(s)
        /\ ~OnQueue(s, r) /\ ~OnList(s.queue_head, r) /\ r \notin s.flush_data_in_flight
        /\ in_progress(s) <=> in_progress(q)
    BY <1>8, <1>10, <2>2
  <2>4. /\ t.rq = s.rq /\ t.flush_queue = s.flush_queue
        /\ t.flush_data_in_flight = s.flush_data_in_flight
        /\ t.flush_pending_idx = s.flush_pending_idx
        /\ t.flush_running_idx = s.flush_running_idx
        /\ t.queue_head = list_add_tail(s.queue_head, r)
    BY <1>8, <2>1 DEF Queues, list_add_tail
  <2>5. /\ t.queue_head \in Seq(Request \cup {flush_rq}) /\ OnceEach(t.queue_head)
        /\ OnList(t.queue_head, r)
        /\ \A o : o # r => (OnList(t.queue_head, o) <=> OnList(s.queue_head, o))
    <3>1. /\ s.queue_head \in Seq(Request \cup {flush_rq}) /\ r \in Request \cup {flush_rq}
          /\ OnceEach(s.queue_head)
      BY <1>8, <2>3 DEF Queues, Linked
    <3> QED BY <2>3, <2>4, <3>1, ListAddTail
  <2>6. t \in Queues
    BY <1>8, <2>1, <2>4, <2>5 DEF Queues
  <2>7. Linked(t) /\ Running(t) /\ (in_progress(t) <=> in_progress(q))
    BY <2>3, <2>4, <2>5 DEF Linked, Running, in_progress
  <2>8. FlushRq(t, device)
    <3>1. flush_rq # r
      BY FlushRqAssumption
    <3> QED BY <2>3, <2>4, <2>5, <3>1 DEF FlushRq, in_progress
  <2>9. Placed(t, device, elevator, r)
    <3>1. ~OnQueue(t, r) /\ ~Sequenced(t, r) /\ t.rq[r].on /\ r \notin t.flush_data_in_flight
      BY <1>6, <1>8, <2>3, <2>4 DEF OnQueue, Sequenced
    <3> QED BY <1>9, <2>5, <3>1 DEF Placed
  <2>10. ASSUME NEW o \in Request, o # r PROVE Placed(t, device, elevator, o)
    <3>1. Placed(s, device, elevator, o) /\ s.rq[o].seq \in SUBSET FSEQ_ACTIONS
      BY <1>8, <2>3, <2>10 DEF Queues, Requests
    <3>2. /\ t.rq[o] = s.rq[o]
          /\ OnQueue(t, o) <=> OnQueue(s, o)
          /\ OnList(t.queue_head, o) <=> OnList(s.queue_head, o)
          /\ o \in t.flush_data_in_flight <=> o \in s.flush_data_in_flight
      BY <2>4, <2>5, <2>10 DEF OnQueue
    <3> QED BY <3>1, <3>2, PlacedSame
  <2>11. Sound(t, device, elevator)
    BY <2>6, <2>7, <2>8, <2>9, <2>10 DEF Sound
  <2>12. \A o \in Request : OnList(t.flush_queue[t.flush_running_idx], o) =>
                              o # r /\ OnList(q.flush_queue[q.flush_running_idx], o)
    BY <1>1, <1>9, <2>2, <2>4 DEF SameLists, OnQueue, Queues
  <2>13. t.flush_queue[t.flush_pending_idx] # <<>> => in_progress(t) \/ t.flush_data_in_flight # {}
    BY <1>1, <2>2, <2>4, <2>7 DEF SameLists, Unstalled
  <2>14. /\ \A o \in Request : o # r => t.rq[o] = q.rq[o]
         /\ t.rq[r].cache = "none" /\ t.rq[r].must \subseteq M /\ t.rq[r].kind = kind
         /\ ~t.rq[r].sequenced /\ policy \subseteq {DATA}
    BY <1>6, <1>8, <1>13, <2>2, <2>4
  <2> QED BY <1>11, <2>6, <2>7, <2>11, <2>12, <2>13, <2>14
(* It is taken through its steps. *)
<1>14. CASE policy # {} /\ policy # {DATA}
  <2> DEFINE x == [new EXCEPT !.sequenced = TRUE]
             a == [s EXCEPT !.rq[r].sequenced = TRUE]
             seq == FSEQ_ACTIONS \ policy
  <2>1. t = blk_flush_complete_seq(a, r, seq, FALSE)
    BY <1>5, <1>14
  <2>2. /\ x \in Requests /\ x.on /\ x.kind = kind /\ x.sequenced /\ x.seq = {}
        /\ x.cache = "none" /\ x.must = M
    BY <1>6 DEF Requests
  <2>3. a = [s EXCEPT !.rq[r] = x]
    BY <1>8 DEF Queues
  <2> HIDE DEF x
  <2>4. HasReplaced(s, r, x, a)
    BY <1>8, <2>2, <2>3, Replace
  <2> HIDE DEF a
  <2>5. SameLists(q, a) /\ a \in Queues /\ (\A o \in Request : o # r => a.rq[o] = q.rq[o])
        /\ a.rq[r] = x
    BY <1>7, <2>4 DEF HasReplaced, SameLists
  <2>6. /\ \A o \in Request : o # r => Placed(a, device, elevator, o)
        /\ Linked(a) /\ FlushRq(a, device) /\ Running(a)
        /\ ~OnQueue(a, r) /\ ~OnList(a.queue_head, r) /\ r \notin a.flush_data_in_flight
        /\ in_progress(a) <=> in_progress(q)
    BY <1>10, <2>5
  <2> DEFINE v == flush_step(a, r, seq, FALSE, a.flush_pending_idx)
  <2>7. t = blk_kick_flush(v) /\ a.flush_pending_idx \in 0..1 /\ seq \in SUBSET FSEQ_ACTIONS
    BY <2>1, <2>5 DEF blk_flush_complete_seq, Queues
  <2> HIDE DEF seq
  <2>8. HasStepped(a, r, seq, FALSE, a.flush_pending_idx, v)
    BY <2>5, <2>6, <2>7, FlushStep
  <2> HIDE DEF v
  <2>9. Sequenced(a, r)
    BY <2>2, <2>5 DEF Sequenced
  <2>10. Sound(v, device, elevator)
    BY <1>9, <2>5, <2>6, <2>7, <2>8, <2>9, StepSound
  <2>11. Sound(t, device, elevator) /\ HasKicked(v, t)
    BY <2>7, <2>10, Kick
  <2>12. t \in Queues
    BY <2>11 DEF Sound
  <2>13. /\ Running(t)
         /\ in_progress(a) => \A o \in Request :
              OnList(t.flush_queue[t.flush_running_idx], o) =>
                o # r /\ OnList(a.flush_queue[a.flush_running_idx], o)
         /\ t.flush_queue[t.flush_pending_idx] # <<>> => in_progress(t) \/ t.flush_data_in_flight # {}
    BY <2>5, <2>6, <2>8, <2>11, <2>12, Newcomer
  <2>14. in_progress(q) => \A o \in Request :
           OnList(t.flush_queue[t.flush_running_idx], o) =>
             o # r /\ OnList(q.flush_queue[q.flush_running_idx], o)
    BY <2>5, <2>6, <2>13 DEF SameLists
  <2>15. t.rq = v.rq
    BY <2>11 DEF HasKicked
  <2>16. \A o \in Request : o # r => t.rq[o] = q.rq[o]
    BY <2>5, <2>8, <2>15 DEF HasStepped
  <2>17. t.rq[r].cache = "none"
    BY <2>2, <2>5, <2>8, <2>15 DEF HasStepped
  <2>18. CASE t.rq[r] = [Idle EXCEPT !.error = FALSE, !.cache = a.rq[r].cache]
    <3>1. ~t.rq[r].on /\ t.rq[r].must = {}
      BY <2>18 DEF Idle
    <3> QED BY <1>11, <2>11, <2>12, <2>13, <2>14, <2>16, <2>17, <3>1
  <2>19. CASE t.rq[r] = [x EXCEPT !.seq = @ \cup seq]
    <3>1. t.rq[r].must = M /\ t.rq[r].kind = kind /\ t.rq[r].sequenced /\ t.rq[r].seq = seq
      BY <2>2, <2>19 DEF Requests
    <3> QED BY <1>11, <2>11, <2>12, <2>13, <2>14, <2>16, <2>17, <3>1 DEF seq
  <2> QED BY <2>5, <2>8, <2>15, <2>18, <2>19 DEF HasStepped
<1> QED BY <1>12, <1>13, <1>14
----------------------------------------------------------------------------
LEMMA InitInv ==
  ASSUME Init
  PROVE  BInv
<1>1. /\ flush_flags \in Capabilities /\ flush_not_queueable \in BOOLEAN
      /\ q.rq = [r \in Request |-> Idle] /\ q.flush_queue = [i \in 0..1 |-> <<>>]
      /\ q.flush_data_in_flight = {} /\ q.flush_pending_idx = 0 /\ q.flush_running_idx = 0
      /\ q.late = FALSE /\ q.queue_head = <<>>
      /\ elevator = {} /\ device = {} /\ covered = {} /\ run = FALSE /\ flush_queue_delayed = FALSE
  BY DEF Init
<1>2. Idle \in Requests
  BY DEF Idle, Requests
<1>3. q \in Queues
  <2>1. [r \in Request |-> Idle] \in [Request -> Requests]
    BY <1>2
  <2>2. <<>> \in Seq(Request) /\ <<>> \in Seq(Request \cup {flush_rq})
    OBVIOUS
  <2>3. [i \in 0..1 |-> <<>>] \in [0..1 -> Seq(Request)]
    BY <2>2
  <2> QED BY <2>1, <2>2, <2>3 DEF Init, Queues
<1>4. TypeOK
  BY <1>1, <1>3 DEF TypeOK
<1>5. \A o : ~OnList(<<>>, o)
  BY DEF OnList
<1>6. Linked(q)
  BY <1>1, <1>5 DEF Linked, OnceEach
<1>7. \A r \in Request : ~OnQueue(q, r) /\ ~OnList(q.queue_head, r)
  BY <1>1, <1>5 DEF OnQueue
<1>8. \A r \in Request : ~q.rq[r].on /\ ~Sequenced(q, r) /\ q.rq[r].must = {} /\ Safe(q, r)
  BY <1>1 DEF Idle, Sequenced, Safe
<1>9. \A r \in Request : Placed(q, device, elevator, r)
  BY <1>1, <1>7, <1>8 DEF Placed
<1>10. FlushRq(q, device)
  BY <1>1, <1>5 DEF FlushRq, in_progress
<1>11. \A i \in 0..1 : q.flush_queue[i] = <<>>
  BY <1>1
<1>12. Running(q)
  BY <1>1, <1>11 DEF Running, in_progress
<1>13. NeverStalls
  BY <1>1, <1>11 DEF NeverStalls
<1>14. NoCache(q) /\ \A r \in Request : Wanted(q, r)
  BY <1>8 DEF NoCache, Wanted
<1>15. Covers(q, device, covered)
  BY <1>1 DEF Covers
<1> QED BY <1>4, <1>6, <1>9, <1>10, <1>12, <1>13, <1>14, <1>15 DEF BInv

LEMMA NextInv ==
  ASSUME BInv, Next
  PROVE  BInv' /\ Kept
<1>1. ASSUME NEW r \in Request, NEW kind \in Asks[r], submit_flush(r, kind) \/ submit_write(r, kind)
      PROVE  BInv' /\ Kept
  <2>1. kind \in Kinds
    BY <1>1, AsksAssumption
  <2> QED BY <1>1, <2>1, SubmitFlush, SubmitWrite
<1>2. ASSUME NEW r \in Request, NEW error \in BOOLEAN,
             flush_data_end_io(r, error) \/ blk_end_request(r, error)
      PROVE  BInv' /\ Kept
  BY <1>2, FlushDataEndIo, EndRequest
<1>3. ASSUME Driver PROVE BInv' /\ Kept
  BY <1>3, FetchRequest, RequestFnReturn, ElevatorDispatch DEF Driver
<1>4. ASSUME jiffies PROVE BInv' /\ Kept
  BY <1>4, Jiffies
<1>5. ASSUME NEW error \in BOOLEAN, flush_end_io(error) PROVE BInv' /\ Kept
  BY <1>5, FlushEndIo
<1> QED BY <1>1, <1>2, <1>3, <1>4, <1>5 DEF Next, Submit, Complete

LEMMA StutterInv ==
  ASSUME BInv, UNCHANGED vars
  PROVE  BInv'
BY DEF vars, BInv, TypeOK, Linked, Placed, FlushRq, Running, NeverStalls, NoCache, Wanted, Covers,
       OnQueue, Sequenced, Cur, Safe, in_progress

(* A list says how often something is on it. *)
LEMMA ListCount ==
  ASSUME NEW S, NEW l \in Seq(S), OnceEach(l), NEW x
  PROVE  Cardinality({i \in DOMAIN l : l[i] = x}) = IF OnList(l, x) THEN 1 ELSE 0
<1>1. DOMAIN l = 1..Len(l)
  OBVIOUS
<1>2. CASE OnList(l, x)
  <2>1. PICK k \in 1..Len(l) : l[k] = x
    BY <1>2 DEF OnList
  <2>2. {i \in DOMAIN l : l[i] = x} = {k}
    BY <1>1, <2>1 DEF OnceEach
  <2> QED BY <1>2, <2>2, FS_Singleton
<1>3. CASE ~OnList(l, x)
  <2>1. {i \in DOMAIN l : l[i] = x} = {}
    BY <1>1, <1>3 DEF OnList
  <2> QED BY <1>3, <2>1, FS_EmptySet
<1> QED BY <1>2, <1>3

LEMMA WaitsCount ==
  ASSUME q \in Queues, Linked(q), NEW r \in Request
  PROVE  Waits(r) = IF OnQueue(q, r) THEN 1 ELSE 0
<1> DEFINE N == Cardinality(Request)
           W == {x \in (0..1) \X (1..N) :
                   x[2] \in DOMAIN q.flush_queue[x[1]] /\ q.flush_queue[x[1]][x[2]] = r}
<1>1. Waits(r) = Cardinality(W)
  BY DEF Waits
<1>2. \A i \in 0..1 : /\ q.flush_queue[i] \in Seq(Request) /\ OnceEach(q.flush_queue[i])
                      /\ DOMAIN q.flush_queue[i] = 1..Len(q.flush_queue[i])
  BY DEF Queues, Linked
<1>3. \A i \in 0..1 : Len(q.flush_queue[i]) \in Nat /\ N \in Nat /\ Len(q.flush_queue[i]) <= N
  BY <1>2, ListBound
<1> HIDE DEF N
<1>4. CASE OnQueue(q, r)
  <2>1. PICK i \in 0..1 : OnList(q.flush_queue[i], r)
    BY <1>4 DEF OnQueue
  <2>2. PICK k \in 1..Len(q.flush_queue[i]) : q.flush_queue[i][k] = r
    BY <2>1 DEF OnList
  <2>3. \A j \in 0..1 : OnList(q.flush_queue[j], r) => j = i
    BY <2>1 DEF Linked
  <2>4. ASSUME NEW x \in W PROVE x = <<i, k>>
    <3>1. /\ x[1] \in 0..1 /\ x[2] \in 1..N /\ x = <<x[1], x[2]>>
          /\ x[2] \in 1..Len(q.flush_queue[x[1]]) /\ q.flush_queue[x[1]][x[2]] = r
      BY <1>2
    <3>2. x[1] = i
      BY <2>3, <3>1 DEF OnList
    <3>3. x[2] = k
      BY <1>2, <2>2, <3>1, <3>2 DEF OnceEach
    <3> QED BY <3>1, <3>2, <3>3
  <2>5. <<i, k>> \in W
    <3>1. k \in 1..N
      BY <1>3, <2>2
    <3> QED BY <1>2, <2>2, <3>1
  <2>6. W = {<<i, k>>}
    <3> HIDE DEF W
    <3> QED BY <2>4, <2>5
  <2> QED BY <1>1, <1>4, <2>6, FS_Singleton
<1>5. CASE ~OnQueue(q, r)
  <2>1. W = {}
    <3> SUFFICES ASSUME NEW x \in W PROVE FALSE
      OBVIOUS
    <3>1. /\ x[1] \in 0..1 /\ x[2] \in 1..Len(q.flush_queue[x[1]])
          /\ q.flush_queue[x[1]][x[2]] = r
      BY <1>2
    <3>2. OnList(q.flush_queue[x[1]], r)
      BY <3>1 DEF OnList
    <3>3. x[1] = 0 \/ x[1] = 1
      BY <3>1
    <3> QED BY <1>5, <3>2, <3>3 DEF OnQueue
  <2> QED BY <1>1, <1>5, <2>1, FS_EmptySet
<1> QED BY <1>4, <1>5

(* What the invariant says of places is what SequencedAccounted counts. *)
LEMMA InvAccounted ==
  ASSUME BInv
  PROVE  SequencedAccounted
<1>1. Sound(q, device, elevator) /\ Running(q) /\ q \in Queues /\ TypeOK /\ Linked(q)
  BY Parts DEF BInv
<1>2. \A x : Places(x) = (IF OnList(q.queue_head, x) THEN 1 ELSE 0)
                         + (IF x \in device THEN 1 ELSE 0)
  BY <1>1, ListCount DEF Places, Queues, Linked
<1>3. Places(flush_rq) = (IF in_progress(q) THEN 1 ELSE 0)
  BY <1>1, <1>2 DEF Sound, FlushRq
<1>4. ~in_progress(q) => q.flush_queue[1 - q.flush_pending_idx] = <<>>
  BY <1>1 DEF Running
<1>5. ASSUME NEW r \in Request
      PROVE  IF q.rq[r].on /\ q.rq[r].sequenced
             THEN \/ /\ blk_flush_cur_seq(q.rq[r]) \in {PREFLUSH, POSTFLUSH}
                     /\ Waits(r) = 1 /\ Places(r) = 0 /\ r \notin q.flush_data_in_flight
                  \/ /\ blk_flush_cur_seq(q.rq[r]) = DATA
                     /\ Waits(r) = 0 /\ Places(r) = 1 /\ r \in q.flush_data_in_flight
             ELSE /\ Waits(r) = 0 /\ r \notin q.flush_data_in_flight
                  /\ Places(r) + (IF r \in elevator THEN 1 ELSE 0) = (IF q.rq[r].on THEN 1 ELSE 0)
  <2>1. Placed(q, device, elevator, r)
    BY <1>1 DEF Sound
  <2>2. Waits(r) = IF OnQueue(q, r) THEN 1 ELSE 0
    BY <1>1, WaitsCount
  <2>3. Places(r) = (IF OnList(q.queue_head, r) THEN 1 ELSE 0) + (IF r \in device THEN 1 ELSE 0)
    BY <1>2
  <2>4. CASE Sequenced(q, r)
    <3>1. q.rq[r].seq \in SUBSET FSEQ_ACTIONS
      BY <1>1 DEF Queues, Requests
    <3>2. Cur(q, r) \in {PREFLUSH, POSTFLUSH} \/ Cur(q, r) = DATA
      BY <2>1, <2>4, <3>1, CurSeq DEF Placed, Cur
    <3>3. r \notin elevator /\ q.rq[r].on /\ q.rq[r].sequenced
      BY <2>1, <2>4 DEF Placed, Sequenced
    <3>4. CASE Cur(q, r) \in {PREFLUSH, POSTFLUSH}
      <4>1. OnQueue(q, r) /\ ~OnList(q.queue_head, r) /\ r \notin device
            /\ r \notin q.flush_data_in_flight
        BY <2>1, <2>4, <3>4 DEF Placed
      <4> QED BY <2>2, <2>3, <3>3, <3>4, <4>1 DEF Cur
    <3>5. CASE Cur(q, r) = DATA
      <4>1. /\ ~OnQueue(q, r) /\ r \in q.flush_data_in_flight
            /\ OnList(q.queue_head, r) \/ r \in device
            /\ ~(OnList(q.queue_head, r) /\ r \in device)
        BY <2>1, <2>4, <3>3, <3>5 DEF Placed
      <4> QED BY <2>2, <2>3, <3>3, <3>5, <4>1 DEF Cur
    <3> QED BY <3>2, <3>4, <3>5
  <2>5. CASE ~Sequenced(q, r)
    <3>1. /\ ~OnQueue(q, r) /\ r \notin q.flush_data_in_flight
          /\ ~(OnList(q.queue_head, r) /\ r \in device)
          /\ r \in elevator => ~OnList(q.queue_head, r) /\ r \notin device
          /\ q.rq[r].on <=> OnList(q.queue_head, r) \/ r \in device \/ r \in elevator
      BY <2>1, <2>5 DEF Placed
    <3>2. ~(q.rq[r].on /\ q.rq[r].sequenced)
      BY <2>5 DEF Sequenced
    <3>3. Places(r) + (IF r \in elevator THEN 1 ELSE 0) = (IF q.rq[r].on THEN 1 ELSE 0)
      BY <2>3, <3>1
    <3> QED BY <2>2, <3>1, <3>2, <3>3
  <2> QED BY <2>4, <2>5
<1> QED BY <1>1, <1>3, <1>4, <1>5 DEF SequencedAccounted

(***************************************************************************)
(* The invariant holds in every behaviour, whatever the requests ask for   *)
(* and in whatever order the device ends them.                             *)
(***************************************************************************)
THEOREM BlkFlushInvariant == Spec => []BInv
<1>1. Init => BInv
  BY InitInv
<1>2. BInv /\ [Next]_vars => BInv'
  BY NextInv, StutterInv
<1> QED BY <1>1, <1>2, PTL DEF Spec

(***************************************************************************)
(* No request is lost between the flush lists, the queue, the driver and   *)
(* the I/O scheduler, or in two of these places, and no BUG_ON() of        *)
(* block/blk-flush.c can fail, also within the walk of flush_end_io().     *)
(***************************************************************************)
THEOREM BlkFlushAccounted == Spec => []SequencedAccounted
<1>1. BInv => SequencedAccounted
  BY InvAccounted
<1> QED BY <1>1, BlkFlushInvariant, PTL

(***************************************************************************)
(* There is never work that nobody will come for: what is on the queue has *)
(* the driver running, and what waits for a flush has one in progress or   *)
(* data in flight that will issue it.                                      *)
(***************************************************************************)
THEOREM BlkFlushNeverStalls == Spec => []NeverStalls
<1>1. BInv => NeverStalls
  BY DEF BInv
<1> QED BY <1>1, BlkFlushInvariant, PTL

(***************************************************************************)
(* A request with REQ_FLUSH is given to the device, or ends without error, *)
(* only when the data that had ended before it is safe, one with REQ_FUA   *)
(* ends only when its own is.                                              *)
(***************************************************************************)
THEOREM BlkFlushDurable == Spec => Durable
<1>1. BInv /\ [Next]_vars =>
        [\A r \in Request : q.rq[r].on =>
           LET ends == ~q'.rq[r].on /\ ~q'.rq[r].error
               safe(o) == q'.rq[o].cache # "cached"
           IN  /\ ends \/ r \in device' \ device => \A o \in q.rq[r].must : safe(o)
               /\ ends /\ "FUA" \in q.rq[r].kind.flags => safe(r)]_vars
  BY NextInv DEF Kept
<1> QED BY <1>1, BlkFlushInvariant, PTL DEF Spec, Durable
=============================================================================
