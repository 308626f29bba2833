------------------------------ MODULE BlkFlush ------------------------------
(***************************************************************************)
(* The flush machinery of the block layer, block/blk-flush.c, with the     *)
(* part of the request queue it works on.                                  *)
(*                                                                         *)
(* A request with REQ_FLUSH or REQ_FUA is taken through up to three steps: *)
(* flush the cache of the device, write the data, flush again.  A flush    *)
(* serves all requests that wait for one when it is issued; the requests   *)
(* that come while it is in progress wait on a second list for the next.   *)
(*                                                                         *)
(* Everything happens under q->queue_lock: a submission, a completion, a   *)
(* turn of the driver's loop is one action.  Requests are reused, so that  *)
(* there are endless streams of them.  The driver and the device are known *)
(* from how the block layer uses them only: the driver takes requests till *)
(* there are none; the device ends them in any order and may fail; a flush *)
(* saves at least what was written before it was given to the device.      *)
(***************************************************************************)
EXTENDS Integers, Sequences, FiniteSets, WaitList

CONSTANTS
  Request,      \* memory for requests
  Capabilities, \* the values q->flush_flags may have
  Asks          \* the kinds of requests that are made of each memory, see Kinds

ASSUME RequestAssumption == IsFiniteSet(Request)
ASSUME CapabilityAssumption == Capabilities \subseteq {{}, {"FLUSH"}, {"FLUSH", "FUA"}}

flush_rq == "flush_rq"
ASSUME FlushRqAssumption == flush_rq \notin Request

VARIABLES
  flush_flags,          \* {} without a cache, "FUA" if single writes may bypass it
  flush_not_queueable,
  q,                    \* the request queue with its requests, see Init
  elevator,             \* requests the I/O scheduler has
  device,               \* requests the driver has taken and not ended
  covered,              \* written data that the flush in the device will save
  run,                  \* the driver's request function is running, or about to
  flush_queue_delayed

vars == <<flush_flags, flush_not_queueable, q, elevator, device, covered, run, flush_queue_delayed>>
config == <<flush_flags, flush_not_queueable>>

(* The steps of a sequence, in their order. *)
PREFLUSH  == 1
DATA      == 2
POSTFLUSH == 3
DONE      == 4
FSEQ_ACTIONS == {PREFLUSH, DATA, POSTFLUSH}

(***************************************************************************)
(* What a submitter may ask for: the flags, and whether there is data.     *)
(***************************************************************************)
Kinds == {[flags |-> {}, sectors |-> TRUE], [flags |-> {"FLUSH"}, sectors |-> FALSE],
          [flags |-> {"FLUSH", "FUA"}, sectors |-> FALSE]}
         \cup {[flags |-> f, sectors |-> TRUE] : f \in {{"FLUSH"}, {"FUA"}, {"FLUSH", "FUA"}}}

ASSUME AsksAssumption == Asks \in [Request -> SUBSET Kinds]

(***************************************************************************)
(* A request: on, it is submitted and not ended; sequenced, it has         *)
(* REQ_FLUSH_SEQ; seq, the steps it has behind it; cache, what became of   *)
(* its data; must (a ghost), the requests that had ended, with their data  *)
(* still in the cache, when it asked for a flush.                          *)
(***************************************************************************)
Idle == [on |-> FALSE, kind |-> [flags |-> {}, sectors |-> FALSE], sequenced |-> FALSE,
         seq |-> {}, error |-> FALSE, cache |-> "none", must |-> {}]

(* late: FLUSH_PENDING_TIMEOUT is over since flush_pending_since. *)
Init ==
  /\ flush_flags \in Capabilities
  /\ flush_not_queueable \in BOOLEAN
  /\ q = [rq |-> [r \in Request |-> Idle],
          flush_queue |-> [i \in 0..1 |-> <<>>],
          flush_data_in_flight |-> {},
          flush_pending_idx |-> 0,
          flush_running_idx |-> 0,
          late |-> FALSE,
          queue_head |-> <<>>]
  /\ elevator = {}
  /\ device = {}
  /\ covered = {}
  /\ run = FALSE
  /\ flush_queue_delayed = FALSE

----------------------------------------------------------------------------
(* The operators below take and return a value of q. *)

blk_flush_policy(kind) ==
  (IF kind.sectors THEN {DATA} ELSE {})
  \cup (IF "FLUSH" \in flush_flags /\ "FLUSH" \in kind.flags THEN {PREFLUSH} ELSE {})
  \cup (IF "FLUSH" \in flush_flags /\ "FUA" \notin flush_flags /\ "FUA" \in kind.flags
          THEN {POSTFLUSH} ELSE {})

blk_flush_cur_seq(rq) == CHOOSE n \in 1..4 : n \notin rq.seq /\ \A m \in 1..(n - 1) : m \in rq.seq

(* bio_endio() tells the submitter; what it needed the flags for is over. *)
__blk_end_request_all(s, r, error) ==
  [s EXCEPT !.rq[r] = [Idle EXCEPT !.error = error, !.cache = s.rq[r].cache]]

in_progress(s) == s.flush_pending_idx # s.flush_running_idx

blk_kick_flush_anytime(s) ==   \* mutant: no C1
  IF s.flush_queue[s.flush_pending_idx] = <<>> \/ (s.flush_data_in_flight # {} /\ ~s.late)
    THEN s
    ELSE [s EXCEPT !.flush_pending_idx = 1 - @, !.queue_head = Append(@, flush_rq)]

(* C1, C2 and C3 of the comment at the top of the file. *)
blk_kick_flush(s) ==
  IF \/ in_progress(s)
     \/ s.flush_queue[s.flush_pending_idx] = <<>>
     \/ s.flush_data_in_flight # {} /\ ~s.late
    THEN s
    ELSE [s EXCEPT !.flush_pending_idx = 1 - @, !.queue_head = Append(@, flush_rq)]

(* The request is taken from the list, if it is on it. *)
list_del_init(l, r) == IF OnList(l, r) THEN list_del(l, r) ELSE l

(* r has got past the steps seq, and leaves the list of the last one. *)
past(s, r, seq) ==
  [s EXCEPT !.rq[r].seq = @ \cup seq,
            !.flush_queue = [i \in 0..1 |-> list_del_init(s.flush_queue[i], r)],
            !.flush_data_in_flight = @ \ {r}]

(* The step that is next for r, whose sequence has got to p, is begun.  It *)
(* waits for a flush on the list pending; late is for its first request.   *)
begin_step(p, r, step, error, pending, late) ==
  CASE step \in {PREFLUSH, POSTFLUSH} ->
         [p EXCEPT !.late = late, !.flush_queue[pending] = Append(@, r)]
    [] step = DATA ->
         [p EXCEPT !.flush_data_in_flight = @ \cup {r}, !.queue_head = <<r>> \o @]
    [] step = DONE -> __blk_end_request_all(p, r, error)

flush_step(s, r, seq, error, pending) ==
  LET p == past(s, r, seq)
  IN  begin_step(p, r, IF error THEN DONE ELSE blk_flush_cur_seq(p.rq[r]), error, pending,
                 s.late /\ s.flush_queue[pending] # <<>>)

blk_flush_complete_seq_one_list(s, r, seq, error) ==   \* mutant: no second list
  blk_kick_flush(flush_step(s, r, seq, error, s.flush_running_idx))

blk_flush_complete_seq(s, r, seq, error) ==
  blk_kick_flush(flush_step(s, r, seq, error, s.flush_pending_idx))

(***************************************************************************)
(* The requests the flush was for go on, one after the other.  On the way  *)
(* the next flush may be issued, and then the list that is walked becomes  *)
(* the one to wait on: a request without data that needs a second flush is *)
(* moved to its end and, if it was not the last, met again.                *)
(***************************************************************************)
push_turn(w, list, error) ==
  LET r == Head(w.s.flush_queue[list])
  IN  IF ~w.more THEN w
      ELSE [s |-> blk_flush_complete_seq(w.s, r, {blk_flush_cur_seq(w.s.rq[r])}, error),
            more |-> Len(w.s.flush_queue[list]) > 1]

push_waiting(s, list, error) ==
  LET walk[n \in Nat] == IF n = 0 THEN [s |-> s, more |-> s.flush_queue[list] # <<>>]
                                  ELSE push_turn(walk[n - 1], list, error)
  IN  walk[2 * Cardinality(Request)].s

queued(s, t) == Len(t.queue_head) > Len(s.queue_head)

----------------------------------------------------------------------------
(* Submission.  The caller runs the queue afterwards in any case. *)
blk_insert_flush(r, kind) ==
  LET policy == blk_flush_policy(kind)
      s == [q EXCEPT !.rq[r] =
              [Idle EXCEPT !.on = TRUE, !.kind = kind,
                 !.must = IF "FLUSH" \in kind.flags
                            THEN {o \in Request \ {r} : ~q.rq[o].on /\ q.rq[o].cache = "cached"}
                            ELSE {}]]
  IN  CASE policy = {} -> __blk_end_request_all(s, r, FALSE)
        [] policy = {DATA} -> [s EXCEPT !.queue_head = Append(@, r)]
        [] OTHER -> blk_flush_complete_seq([s EXCEPT !.rq[r].sequenced = TRUE],
                                           r, FSEQ_ACTIONS \ policy, FALSE)

(* Nobody waits any more for data the request had when it was used before. *)
Forget(s, r) == [s EXCEPT !.rq = [o \in Request |-> [s.rq[o] EXCEPT !.must = @ \ {r}]]]

submit_flush(r, kind) ==
  /\ ~q.rq[r].on /\ kind.flags # {}
  /\ q' = Forget(blk_insert_flush(r, kind), r)
  /\ covered' = covered \ {r}
  /\ run' = TRUE
  /\ UNCHANGED <<config, elevator, device, flush_queue_delayed>>

(* An ordinary write goes to the I/O scheduler. *)
submit_write(r, kind) ==
  /\ ~q.rq[r].on /\ kind.flags = {}
  /\ q' = Forget([q EXCEPT !.rq[r] = [Idle EXCEPT !.on = TRUE, !.kind = kind]], r)
  /\ elevator' = elevator \cup {r}
  /\ covered' = covered \ {r}
  /\ run' = TRUE
  /\ UNCHANGED <<config, device, flush_queue_delayed>>

----------------------------------------------------------------------------
(* The driver's loop.  It takes the first request, *)
blk_fetch_request ==
  /\ run /\ q.queue_head # <<>>
  /\ q' = [q EXCEPT !.queue_head = Tail(@)]
  /\ device' = device \cup {Head(q.queue_head)}
  /\ covered' = IF Head(q.queue_head) = flush_rq
                  THEN {r \in Request : q.rq[r].cache = "cached"} ELSE covered
  /\ UNCHANGED <<config, elevator, run, flush_queue_delayed>>

hold == in_progress(q) /\ flush_not_queueable

(* or, when there is none, one of the I/O scheduler's, *)
elevator_dispatch(r) ==
  /\ run /\ q.queue_head = <<>> /\ ~hold /\ r \in elevator
  /\ q' = [q EXCEPT !.queue_head = <<r>>]
  /\ elevator' = elevator \ {r}
  /\ UNCHANGED <<config, device, covered, run, flush_queue_delayed>>

(* and returns when __elv_next_request() has nothing for it. *)
request_fn_return ==
  /\ run /\ q.queue_head = <<>> /\ (hold \/ elevator = {})
  /\ run' = FALSE
  /\ flush_queue_delayed' = (flush_queue_delayed \/ hold)
  /\ UNCHANGED <<config, q, elevator, device, covered>>

----------------------------------------------------------------------------
(* The device has written, or failed to write, the data of a request: safe *)
(* for sure only without a cache, or past it.                              *)
Written(r, error) ==
  IF error THEN q
  ELSE [q EXCEPT !.rq[r].cache =
          IF flush_flags = {} \/ "FUA" \in flush_flags \cap q.rq[r].kind.flags
            THEN "stable" ELSE "cached"]

flush_data_end_io(r, error) ==
  /\ r \in device \ {flush_rq} /\ q.rq[r].sequenced
  /\ q' = blk_flush_complete_seq(Written(r, error), r, {DATA}, error)
  /\ run' = (run \/ queued(q, q'))
  /\ device' = device \ {r}
  /\ UNCHANGED <<config, elevator, covered, flush_queue_delayed>>

(* A request that is not sequenced is ended at once; whether the driver    *)
(* then looks for more is its own affair, here it does not.                *)
blk_end_request(r, error) ==
  /\ r \in device \ {flush_rq} /\ ~q.rq[r].sequenced
  /\ q' = __blk_end_request_all(Written(r, error), r, error)
  /\ device' = device \ {r}
  /\ UNCHANGED <<config, elevator, covered, run, flush_queue_delayed>>

flush_end_io_no_restart(error) ==   \* mutant: only requests moved to the queue run it
  LET saved == IF error THEN q
               ELSE [q EXCEPT !.rq = [r \in Request |-> IF r \in covered
                       THEN [q.rq[r] EXCEPT !.cache = "stable"] ELSE q.rq[r]]]
      s == push_waiting([saved EXCEPT !.flush_running_idx = 1 - @], q.flush_running_idx, error)
  IN  /\ flush_rq \in device
      /\ q' = s
      /\ run' = (run \/ queued(q, s))
      /\ flush_queue_delayed' = FALSE
      /\ device' = device \ {flush_rq}
      /\ covered' = {}
      /\ UNCHANGED <<config, elevator>>

flush_end_io(error) ==
  LET saved == IF error THEN q
               ELSE [q EXCEPT !.rq = [r \in Request |-> IF r \in covered
                       THEN [q.rq[r] EXCEPT !.cache = "stable"] ELSE q.rq[r]]]
      s == push_waiting([saved EXCEPT !.flush_running_idx = 1 - @], q.flush_running_idx, error)
  IN  /\ flush_rq \in device
      /\ q' = s
      /\ run' = (run \/ queued(q, s) \/ flush_queue_delayed)
      /\ flush_queue_delayed' = FALSE
      /\ device' = device \ {flush_rq}
      /\ covered' = {}
      /\ UNCHANGED <<config, elevator>>

(* FLUSH_PENDING_TIMEOUT passes. *)
jiffies ==
  /\ ~q.late /\ q.flush_queue[q.flush_pending_idx] # <<>>
  /\ q' = [q EXCEPT !.late = TRUE]
  /\ UNCHANGED <<config, elevator, device, covered, run, flush_queue_delayed>>

----------------------------------------------------------------------------
Submit(r)   == \E kind \in Asks[r] : submit_flush(r, kind) \/ submit_write(r, kind)
Complete(r) == \E error \in BOOLEAN : flush_data_end_io(r, error) \/ blk_end_request(r, error)
Driver      == blk_fetch_request \/ request_fn_return \/ \E r \in Request : elevator_dispatch(r)

Next == \/ \E r \in Request : Submit(r) \/ Complete(r)
        \/ Driver \/ jiffies \/ \E error \in BOOLEAN : flush_end_io(error)

Spec == Init /\ [][Next]_vars

----------------------------------------------------------------------------
Requests == [on : BOOLEAN, kind : Kinds \cup {Idle.kind}, sequenced : BOOLEAN,
             seq : SUBSET FSEQ_ACTIONS, error : BOOLEAN,
             cache : {"none", "cached", "stable"}, must : SUBSET Request]

Queues == [rq : [Request -> Requests],
           flush_queue : [0..1 -> Seq(Request)],
           flush_data_in_flight : SUBSET Request,
           flush_pending_idx : 0..1,
           flush_running_idx : 0..1,
           late : BOOLEAN,
           queue_head : Seq(Request \cup {flush_rq})]

TypeOK ==
  /\ flush_flags \in Capabilities
  /\ flush_not_queueable \in BOOLEAN
  /\ q \in Queues
  /\ elevator \subseteq Request
  /\ device \subseteq Request \cup {flush_rq}
  /\ covered \subseteq Request
  /\ run \in BOOLEAN /\ flush_queue_delayed \in BOOLEAN

Places(x) == Cardinality({i \in DOMAIN q.queue_head : q.queue_head[i] = x})
             + (IF x \in device THEN 1 ELSE 0)
Waits(r) == Cardinality({x \in (0..1) \X (1..Cardinality(Request)) :
                            x[2] \in DOMAIN q.flush_queue[x[1]] /\ q.flush_queue[x[1]][x[2]] = r})

(***************************************************************************)
(* No request is lost between the lists or on two of them, and none of the *)
(* BUG_ON()s in the file can fail, whatever happens while the lists are    *)
(* walked: the one flush request is in use exactly while the two indices   *)
(* differ, a request waits for a flush or has its data written, and is on  *)
(* the list its next step says.                                            *)
(***************************************************************************)
SequencedAccounted ==
  /\ TypeOK
  /\ Places(flush_rq) = (IF in_progress(q) THEN 1 ELSE 0)
  /\ ~in_progress(q) => q.flush_queue[1 - q.flush_pending_idx] = <<>>
  /\ \A r \in Request :
       IF q.rq[r].on /\ q.rq[r].sequenced
         THEN \/ /\ blk_flush_cur_seq(q.rq[r]) \in {PREFLUSH, POSTFLUSH}
                 /\ Waits(r) = 1 /\ Places(r) = 0 /\ r \notin q.flush_data_in_flight
              \/ /\ blk_flush_cur_seq(q.rq[r]) = DATA
                 /\ Waits(r) = 0 /\ Places(r) = 1 /\ r \in q.flush_data_in_flight
         ELSE /\ Waits(r) = 0 /\ r \notin q.flush_data_in_flight
              /\ Places(r) + (IF r \in elevator THEN 1 ELSE 0) = (IF q.rq[r].on THEN 1 ELSE 0)

(***************************************************************************)
(* What the flags mean (the comment at the top of the file).  A request    *)
(* with REQ_FLUSH is given to the device, or ends, without error only when *)
(* all data that was written and ended before its submission is safe; one  *)
(* with REQ_FUA ends only when its own data is.                            *)
(***************************************************************************)
Durable ==
  [][\A r \in Request : q.rq[r].on =>
       LET ends == ~q'.rq[r].on /\ ~q'.rq[r].error
           safe(o) == q'.rq[o].cache # "cached"
       IN  /\ ends \/ r \in device' \ device => \A o \in q.rq[r].must : safe(o)
           /\ ends /\ "FUA" \in q.rq[r].kind.flags => safe(r)]_vars

(***************************************************************************)
(* Nothing is left to wait for nobody: whoever adds to the queue from a    *)
(* completion runs it, the end of the flush runs a queue that was held     *)
(* back for it, and requests wait for the next flush only while the        *)
(* present one, or some data, is in flight and will issue it.              *)
(***************************************************************************)
NeverStalls ==
  /\ q.queue_head # <<>> => run
  /\ elevator # {} => run \/ (flush_queue_delayed /\ in_progress(q))
  /\ q.flush_queue[q.flush_pending_idx] # <<>> => in_progress(q) \/ q.flush_data_in_flight # {}

=============================================================================
