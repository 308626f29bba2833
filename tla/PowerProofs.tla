----------------------------- MODULE PowerProofs ----------------------------
(***************************************************************************)
(* Proofs about power management.                                          *)
(*                                                                         *)
(* Wakeup sources, for every number of devices, sources and admins and     *)
(* every width of the counters: the word counts the open periods exactly,  *)
(* memory that has been freed is left alone, and the system does not go to *)
(* sleep over an event that came after the power manager had read          *)
(* wakeup_count.                                                           *)
(*                                                                         *)
(* Runtime power management, for every finite set of devices, whatever     *)
(* their parents, and any tasks: a device that was got is active, both     *)
(* counts are exact, a disabled device is quiet, and every change, request *)
(* and wait has somebody who will end it.                                  *)
(***************************************************************************)
EXTENDS Wakeup, RuntimePM, LibProofs

----------------------------------------------------------------------------
(* Wakeup sources. *)

ActiveSources == {s \in Source : ws[s].active}

(* The two counts of a source differ exactly while its period is open, and *)
(* a timer is pending only then.                                           *)
Open(w) == IF w.active THEN 1 ELSE 0
Sound(w) ==
  /\ w \in Sources
  /\ w.active_count = Count(w.relax_count + Open(w))
  /\ w.timer => w.active

PeriodsInv ==
  /\ \A s \in Source : Sound(ws[s])
  /\ inpr(combined_event_count) = Cardinality(ActiveSources)

(* A source belongs to nobody when it is free, else to one device or to    *)
(* one admin.                                                              *)
OwnerInv ==
  /\ \A a \in Admin : admin[a].pc # "idle" =>
       /\ admin[a].dev \in WakeDevice /\ admin[a].src \in Source
       /\ ws[admin[a].src].mem = "live"
       /\ \A b \in Admin \ {a} : admin[b].src # admin[a].src
       /\ \A d \in WakeDevice : wakeup[d] # admin[a].src
  /\ \A a \in Admin : admin[a].pc = "idle" => admin[a].src = NoSource

(* Since the manager has read the count, over periods have come to an end, *)
(* no more of them and the open ones than events, and none only if there   *)
(* was no event.                                                           *)
CountInv ==
  /\ mgr.pc \in {"save", "suspend"} =>
       \E over \in Nat :
         /\ cnt(combined_event_count) = (mgr.count + over) % 2^Bits
         /\ over + Cardinality(ActiveSources) <= seen
         /\ seen > 0 => over + Cardinality(ActiveSources) > 0
  /\ mgr.pc = "suspend" => events_check_enabled /\ saved_count = mgr.count

(* The inductive invariant. *)
WInv == TypeOK /\ PeriodsInv /\ FreedSourceQuiet /\ OwnerInv /\ CountInv /\ SleepSafe

----------------------------------------------------------------------------
(* The two widths. *)
LEMMA Widths ==
  /\ 2^Bits \in Nat \ {0} /\ 2^(2 * Bits) = 2^Bits * 2^Bits
  /\ 2^CountBits \in Nat \ {0}
<1>1. 2^Bits \in Nat \ {0} /\ 2^CountBits \in Nat \ {0}
  BY WidthAssumption, PowerPositive
<1>2. 2^(Bits + Bits) = 2^Bits * 2^Bits /\ 2 * Bits = Bits + Bits
  BY WidthAssumption, PowerAdd
<1> QED BY <1>1, <1>2

(* What the halves of the word are, and what the two atomic additions do   *)
(* to them.                                                                *)
LEMMA WordHalves ==
  ASSUME NEW comb \in 0..(2^(2 * Bits) - 1)
  PROVE  cnt(comb) \in 0..MAX_IN_PROGRESS /\ inpr(comb) \in 0..MAX_IN_PROGRESS
BY Widths, SplitWord DEF cnt, inpr, MAX_IN_PROGRESS

LEMMA WordOpen ==
  ASSUME NEW comb \in 0..(2^(2 * Bits) - 1), inpr(comb) < MAX_IN_PROGRESS
  PROVE  /\ Word(comb + 1) \in 0..(2^(2 * Bits) - 1)
         /\ cnt(Word(comb + 1)) = cnt(comb) /\ inpr(Word(comb + 1)) = inpr(comb) + 1
<1> DEFINE P == 2^Bits
           q == comb \div P
           i == comb % P
<1>1. P \in Nat \ {0} /\ 2^(2 * Bits) = P * P /\ P * P \in Nat \ {0}
  BY Widths
<1>2. i < P - 1 /\ \A n : cnt(n) = n \div P /\ inpr(n) = n % P
  BY DEF cnt, inpr, MAX_IN_PROGRESS
<1>3. \A n : Word(n) = n % (P * P)
  BY <1>1 DEF Word
<1> HIDE DEF P
<1>4. q \in 0..(P - 1) /\ i \in 0..(P - 1) /\ comb = (P * q) + i
  BY <1>1, SplitWord
<1> HIDE DEF q, i
<1>5. i + 1 \in 0..(P - 1) /\ comb + 1 = (P * q) + (i + 1)
  BY <1>1, <1>2, <1>4
<1>6. /\ (P * q) + (i + 1) \in 0..((P * P) - 1)
      /\ ((P * q) + (i + 1)) \div P = q /\ ((P * q) + (i + 1)) % P = i + 1
  BY <1>1, <1>4, <1>5, Halves
<1>7. (comb + 1) % (P * P) = comb + 1
  BY <1>1, <1>5, <1>6, ModSmall
<1> QED BY <1>1, <1>2, <1>3, <1>5, <1>6, <1>7 DEF q, i

LEMMA WordClose ==
  ASSUME NEW comb \in 0..(2^(2 * Bits) - 1), inpr(comb) > 0
  PROVE  /\ Word(comb + MAX_IN_PROGRESS) \in 0..(2^(2 * Bits) - 1)
         /\ cnt(Word(comb + MAX_IN_PROGRESS)) = (cnt(comb) + 1) % 2^Bits
         /\ inpr(Word(comb + MAX_IN_PROGRESS)) = inpr(comb) - 1
<1> DEFINE P == 2^Bits
           q == comb \div P
           i == comb % P
           w == comb + (P - 1)
<1>1. P \in Nat \ {0} /\ 2^(2 * Bits) = P * P /\ P * P \in Nat \ {0}
  BY Widths
<1>2. i > 0 /\ MAX_IN_PROGRESS = P - 1 /\ \A n : cnt(n) = n \div P /\ inpr(n) = n % P
  BY DEF cnt, inpr, MAX_IN_PROGRESS
<1>3. \A n : Word(n) = n % (P * P)
  BY <1>1 DEF Word
<1> HIDE DEF P
<1>4. q \in 0..(P - 1) /\ i \in 0..(P - 1) /\ comb = (P * q) + i
  BY <1>1, SplitWord
<1> HIDE DEF q, i
<1>5. i - 1 \in 0..(P - 1) /\ w = (P * (q + 1)) + (i - 1) /\ w \in Int
  <2>1. P * (q + 1) = (P * q) + P /\ P * q \in Int
    BY <1>1, <1>4
  <2> QED BY <1>1, <1>2, <1>4, <2>1
<1> SUFFICES /\ w % (P * P) \in 0..((P * P) - 1)
             /\ (w % (P * P)) \div P = (q + 1) % P /\ (w % (P * P)) % P = i - 1
  BY <1>1, <1>2, <1>3 DEF q, i, P
<1> HIDE DEF w
<1>6. CASE q + 1 \in 0..(P - 1)
  <2>1. /\ (P * (q + 1)) + (i - 1) \in 0..((P * P) - 1)
        /\ ((P * (q + 1)) + (i - 1)) \div P = q + 1 /\ ((P * (q + 1)) + (i - 1)) % P = i - 1
    BY <1>1, <1>5, <1>6, Halves
  <2>2. w % (P * P) = w
    BY <1>1, <1>5, <2>1, ModSmall
  <2>3. (q + 1) % P = q + 1
    BY <1>1, <1>6, ModSmall
  <2> QED BY <1>5, <2>1, <2>2, <2>3
<1>7. CASE q + 1 = P
  <2>1. 0 \in 0..(P - 1) /\ P * 0 = 0 /\ 0 + (i - 1) = i - 1
    BY <1>1, <1>5
  <2>2. /\ (P * 0) + (i - 1) \in 0..((P * P) - 1)
        /\ ((P * 0) + (i - 1)) \div P = 0 /\ ((P * 0) + (i - 1)) % P = i - 1
    BY <1>1, <1>5, <2>1, Halves
  <2>3. i - 1 \in 0..((P * P) - 1) /\ (i - 1) \div P = 0 /\ (i - 1) % P = i - 1
    BY <2>1, <2>2
  <2>4. w = ((P * P) * 1) + (i - 1)
    BY <1>1, <1>4, <1>5, <1>7
  <2>5. w % (P * P) = i - 1
    <3> DEFINE Q == P * P
    <3>1. Q \in Nat \ {0} /\ i - 1 \in 0..(Q - 1) /\ w = (Q * 1) + (i - 1) /\ 1 \in Int
      BY <1>1, <2>3, <2>4
    <3> HIDE DEF Q
    <3>2. w % Q = i - 1
      BY <1>5, <3>1, ModUnique
    <3> QED BY <3>2 DEF Q
  <2>6. (q + 1) % P = 0
    <3>1. q + 1 = (P * 1) + 0 /\ q + 1 \in Int
      BY <1>1, <1>4, <1>7
    <3> QED BY <1>1, <2>1, <3>1, ModUnique
  <2> QED BY <2>3, <2>5, <2>6
<1> QED BY <1>1, <1>4, <1>6, <1>7

----------------------------------------------------------------------------
(* What a call makes of a source w and the word comb: periods that come to *)
(* an end are counted, and over + open grows by one at most when the call  *)
(* is an event (e = 1), and not at all when it is none.                    *)
Moves(w, comb, r, e) ==
  /\ Sound(r.ws) /\ r.ws.mem = w.mem
  /\ r.comb \in 0..(2^(2 * Bits) - 1)
  /\ inpr(r.comb) = (inpr(comb) + Open(r.ws)) - Open(w)
  /\ \E d \in 0..1 :
       /\ cnt(r.comb) = (cnt(comb) + d) % 2^Bits
       /\ Open(w) <= d + Open(r.ws) /\ d + Open(r.ws) <= Open(w) + e
       /\ e = 1 => d + Open(r.ws) > 0

(* The counts of a source, modulo their width. *)
LEMMA CountFacts ==
  /\ \A n \in Int : Count(n) \in 0..(2^CountBits - 1)
  /\ \A n \in 0..(2^CountBits - 1) : Count(n) = n
  /\ \A m, n \in Int : Count(Count(m) + n) = Count(m + n)
<1> DEFINE M == 2^CountBits
<1>1. M \in Nat \ {0}
  BY Widths
<1>2. \A n : Count(n) = n % M
  BY DEF Count
<1> HIDE DEF M
<1>3. \A n \in Int : n % M \in 0..(M - 1)
  BY <1>1, ModDivision
<1>4. \A n \in 0..(M - 1) : n % M = n
  BY <1>1, ModSmall
<1>5. \A m, n \in Int : ((m % M) + n) % M = (m + n) % M
  BY <1>1, ModAdd
<1> QED BY <1>2, <1>3, <1>4, <1>5 DEF M

LEMMA Activate ==
  ASSUME NEW w, Sound(w), ~w.active,
         NEW comb \in 0..(2^(2 * Bits) - 1), inpr(comb) < MAX_IN_PROGRESS
  PROVE  LET r == wakeup_source_activate(w, comb) IN
           /\ Sound(r.ws) /\ r.ws.active /\ r.ws.mem = w.mem
           /\ r.comb \in 0..(2^(2 * Bits) - 1)
           /\ cnt(r.comb) = cnt(comb) /\ inpr(r.comb) = inpr(comb) + 1
<1> DEFINE r == wakeup_source_activate(w, comb)
<1>1. /\ r.ws = [w EXCEPT !.active = TRUE, !.active_count = Count(@ + 1)]
      /\ r.comb = Word(comb + 1)
  BY DEF wakeup_source_activate, Result
<1> HIDE DEF r
<1>2. w \in Sources /\ w.relax_count \in Int /\ w.active_count = Count(w.relax_count)
  BY Widths DEF Sound, Sources, Open
<1>3. Count(w.active_count + 1) = Count(w.relax_count + 1) /\ w.active_count + 1 \in Int
  <2>1. Count(Count(w.relax_count) + 1) = Count(w.relax_count + 1)
    <3>1. \A m, n \in Int : Count(Count(m) + n) = Count(m + n)
      BY CountFacts
    <3>2. w.relax_count \in Int /\ 1 \in Int
      BY <1>2
    <3> QED BY <3>1, <3>2, Zenon
  <2>2. w.active_count \in Int
    BY <1>2, Widths DEF Sources
  <2> QED BY <1>2, <2>1, <2>2
<1>4. Count(w.active_count + 1) \in 0..(2^CountBits - 1)
  BY <1>3, CountFacts
<1>5. r.ws \in Sources /\ r.ws.active /\ r.ws.mem = w.mem
  BY <1>1, <1>2, <1>4 DEF Sources
<1>6. r.ws.active_count = Count(r.ws.relax_count + 1)
  BY <1>1, <1>2, <1>3 DEF Sources
<1>7. Sound(r.ws)
  BY <1>5, <1>6 DEF Sound, Open
<1>8. /\ r.comb \in 0..(2^(2 * Bits) - 1)
      /\ cnt(r.comb) = cnt(comb) /\ inpr(r.comb) = inpr(comb) + 1
  BY <1>1, WordOpen
<1> QED BY <1>5, <1>7, <1>8 DEF r

LEMMA Deactivate ==
  ASSUME NEW w, Sound(w), w.active,
         NEW comb \in 0..(2^(2 * Bits) - 1), inpr(comb) > 0
  PROVE  LET r == wakeup_source_deactivate(w, comb) IN
           /\ Sound(r.ws) /\ ~r.ws.active /\ r.ws.mem = w.mem
           /\ r.comb \in 0..(2^(2 * Bits) - 1)
           /\ cnt(r.comb) = (cnt(comb) + 1) % 2^Bits /\ inpr(r.comb) = inpr(comb) - 1
<1> DEFINE r == wakeup_source_deactivate(w, comb)
<1>1. w \in Sources /\ w.relax_count \in Int /\ w.active_count = Count(w.relax_count + 1)
  BY Widths DEF Sound, Sources, Open
<1>2. /\ r.ws = [w EXCEPT !.active = FALSE, !.relax_count = Count(@ + 1), !.timer = FALSE]
      /\ r.comb = Word(comb + MAX_IN_PROGRESS)
  BY <1>1 DEF wakeup_source_deactivate, Result
<1> HIDE DEF r
<1>3. Count(w.relax_count + 1) \in 0..(2^CountBits - 1)
  <2>1. w.relax_count + 1 \in Int
    BY <1>1
  <2> QED BY <2>1, CountFacts
<1>4. Count(Count(w.relax_count + 1)) = Count(w.relax_count + 1)
  BY <1>3, CountFacts
<1>5. r.ws \in Sources /\ ~r.ws.active /\ ~r.ws.timer /\ r.ws.mem = w.mem
  BY <1>1, <1>2, <1>3 DEF Sources
<1>6. r.ws.active_count = w.active_count /\ r.ws.relax_count = Count(w.relax_count + 1)
  BY <1>1, <1>2 DEF Sources
<1>7. r.ws.relax_count + 0 = r.ws.relax_count
  BY <1>3, <1>6, Widths
<1>8. Sound(r.ws)
  BY <1>1, <1>4, <1>5, <1>6, <1>7 DEF Sound, Open
<1>9. /\ r.comb \in 0..(2^(2 * Bits) - 1)
      /\ cnt(r.comb) = (cnt(comb) + 1) % 2^Bits /\ inpr(r.comb) = inpr(comb) - 1
  BY <1>2, WordClose
<1> QED BY <1>5, <1>8, <1>9 DEF r

(* A call that changes nothing of the periods. *)
LEMMA NoMove ==
  ASSUME NEW w, NEW v, Sound(v), v.mem = w.mem, v.active = w.active, w.active \in BOOLEAN,
         NEW comb \in 0..(2^(2 * Bits) - 1)
  PROVE  /\ Moves(w, comb, Result(v, comb), 0)
         /\ v.active => Moves(w, comb, Result(v, comb), 1)
<1>1. Open(v) = Open(w) /\ Open(w) \in 0..1 /\ (v.active => Open(w) = 1)
  BY DEF Open
<1>2. cnt(comb) \in 0..(2^Bits - 1) /\ inpr(comb) \in Int
  BY Widths, WordHalves DEF MAX_IN_PROGRESS
<1>3. (cnt(comb) + 0) % 2^Bits = cnt(comb)
  BY <1>2, Widths, ModSmall
<1> QED BY <1>1, <1>2, <1>3 DEF Moves, Result

(* The calls of the drivers and of the timer. *)
LEMMA StayAwakeMoves ==
  ASSUME NEW w, Sound(w), NEW comb \in 0..(2^(2 * Bits) - 1),
         ~w.active => inpr(comb) < MAX_IN_PROGRESS
  PROVE  LET r == __pm_stay_awake(w, comb)
         IN  Moves(w, comb, r, 1) /\ r.ws.active /\ cnt(r.comb) = cnt(comb)
<1> DEFINE r == __pm_stay_awake(w, comb)
<1>1. w.active \in BOOLEAN
  BY DEF Sound, Sources
<1>2. CASE w.active
  BY <1>1, <1>2, NoMove DEF __pm_stay_awake, Result
<1>3. CASE ~w.active
  <2>1. r = wakeup_source_activate(w, comb)
    BY <1>3 DEF __pm_stay_awake
  <2> HIDE DEF r
  <2>2. /\ Sound(r.ws) /\ r.ws.active /\ r.ws.mem = w.mem
        /\ r.comb \in 0..(2^(2 * Bits) - 1)
        /\ cnt(r.comb) = cnt(comb) /\ inpr(r.comb) = inpr(comb) + 1
    BY <1>3, <2>1, Activate
  <2>3. Open(r.ws) = 1 /\ Open(w) = 0
    BY <1>3, <2>2 DEF Open
  <2>4. cnt(comb) \in 0..(2^Bits - 1) /\ inpr(comb) \in Int
    BY Widths, WordHalves DEF MAX_IN_PROGRESS
  <2>5. (cnt(comb) + 0) % 2^Bits = cnt(comb)
    BY <2>4, Widths, ModSmall
  <2> QED BY <2>2, <2>3, <2>4, <2>5 DEF Moves, r
<1> QED BY <1>1, <1>2, <1>3

LEMMA DeactivateMoves ==
  ASSUME NEW w, Sound(w), w.active, NEW comb \in 0..(2^(2 * Bits) - 1), inpr(comb) > 0
  PROVE  Moves(w, comb, wakeup_source_deactivate(w, comb), 0)
<1> DEFINE r == wakeup_source_deactivate(w, comb)
<1>1. /\ Sound(r.ws) /\ ~r.ws.active /\ r.ws.mem = w.mem
      /\ r.comb \in 0..(2^(2 * Bits) - 1)
      /\ cnt(r.comb) = (cnt(comb) + 1) % 2^Bits /\ inpr(r.comb) = inpr(comb) - 1
  BY Deactivate
<1> HIDE DEF r
<1>2. Open(r.ws) = 0 /\ Open(w) = 1
  BY <1>1 DEF Open
<1>3. inpr(comb) \in Int
  BY Widths, WordHalves DEF MAX_IN_PROGRESS
<1> QED BY <1>1, <1>2, <1>3 DEF Moves, r

LEMMA RelaxMoves ==
  ASSUME NEW w, Sound(w), NEW comb \in 0..(2^(2 * Bits) - 1), w.active => inpr(comb) > 0
  PROVE  Moves(w, comb, __pm_relax(w, comb), 0)
<1>1. w.active \in BOOLEAN
  BY DEF Sound, Sources
<1>2. CASE w.active
  BY <1>2, DeactivateMoves DEF __pm_relax
<1>3. CASE ~w.active
  BY <1>1, <1>3, NoMove DEF __pm_relax
<1> QED BY <1>1, <1>2, <1>3

LEMMA EventMoves ==
  ASSUME NEW w, Sound(w), NEW comb \in 0..(2^(2 * Bits) - 1), NEW msec,
         ~w.active => inpr(comb) < MAX_IN_PROGRESS, w.active => inpr(comb) > 0
  PROVE  Moves(w, comb, __pm_wakeup_event(w, comb, msec), 1)
<1> DEFINE on == __pm_stay_awake(w, comb)
           r == __pm_wakeup_event(w, comb, msec)
<1>1. Moves(w, comb, on, 1) /\ on.ws.active /\ cnt(on.comb) = cnt(comb)
  BY StayAwakeMoves
<1>2. r = IF msec = 0 THEN wakeup_source_deactivate(on.ws, on.comb)
                      ELSE Result([on.ws EXCEPT !.timer = TRUE], on.comb)
  BY DEF __pm_wakeup_event
<1> HIDE DEF on, r
<1>3. inpr(comb) \in Int /\ inpr(comb) >= 0 /\ Open(w) \in 0..1 /\ (Open(w) = 1 <=> w.active)
  BY Widths, WordHalves DEF MAX_IN_PROGRESS, Open
<1>4. /\ Sound(on.ws) /\ on.ws.mem = w.mem /\ on.comb \in 0..(2^(2 * Bits) - 1)
      /\ Open(on.ws) = 1 /\ inpr(on.comb) = (inpr(comb) + 1) - Open(w)
  BY <1>1 DEF Moves, Open
<1>5. CASE msec = 0
  <2>1. inpr(on.comb) > 0
    BY <1>3, <1>4
  <2>2. /\ Sound(r.ws) /\ ~r.ws.active /\ r.ws.mem = on.ws.mem
        /\ r.comb \in 0..(2^(2 * Bits) - 1)
        /\ cnt(r.comb) = (cnt(on.comb) + 1) % 2^Bits /\ inpr(r.comb) = inpr(on.comb) - 1
    BY <1>1, <1>2, <1>4, <1>5, <2>1, Deactivate
  <2>3. Open(r.ws) = 0
    BY <2>2 DEF Open
  <2>4. inpr(r.comb) = (inpr(comb) + Open(r.ws)) - Open(w)
    BY <1>3, <1>4, <2>2, <2>3
  <2>5. 1 \in 0..1 /\ Open(w) <= 1 + 0 /\ 1 + 0 <= Open(w) + 1
    BY <1>3
  <2> QED BY <1>1, <1>4, <2>2, <2>3, <2>4, <2>5 DEF Moves, r
<1>6. CASE msec # 0
  <2>1. r.ws = [on.ws EXCEPT !.timer = TRUE] /\ r.comb = on.comb
    BY <1>2, <1>6 DEF Result
  <2>2. Sound(r.ws) /\ r.ws.mem = on.ws.mem /\ Open(r.ws) = Open(on.ws)
    BY <1>1, <1>4, <2>1 DEF Sound, Sources, Open
  <2> QED BY <1>1, <1>4, <2>1, <2>2 DEF Moves, r
<1> QED BY <1>5, <1>6

----------------------------------------------------------------------------
(* The open periods after a call for the source s. *)
LEMMA ActiveAfter ==
  ASSUME TypeOK, NEW s \in Source, NEW v, ws' = [ws EXCEPT ![s] = v],
         v.active \in BOOLEAN
  PROVE  /\ IsFiniteSet(ActiveSources) /\ Cardinality(ActiveSources) \in Nat
         /\ Cardinality(ActiveSources') = (Cardinality(ActiveSources) + Open(v)) - Open(ws[s])
         /\ ws[s].active => Cardinality(ActiveSources) > 0
         /\ ~ws[s].active => Cardinality(ActiveSources) < Cardinality(Source)
         /\ Cardinality(ActiveSources) <= Cardinality(Source) /\ Cardinality(Source) \in Nat
<1>1. ActiveSources \in SUBSET Source /\ IsFiniteSet(Source)
  BY SourceAssumption DEF ActiveSources
<1>2. /\ IsFiniteSet(ActiveSources) /\ Cardinality(ActiveSources) \in Nat /\ Cardinality(Source) \in Nat
      /\ Cardinality(ActiveSources) <= Cardinality(Source)
  BY <1>1, FS_Subset, FS_CardinalityType
<1>3. ws[s].active \in BOOLEAN /\ (s \in ActiveSources <=> ws[s].active)
  BY DEF TypeOK, Sources, ActiveSources
<1>4. \A t \in Source : ws'[t] = IF t = s THEN v ELSE ws[t]
  BY DEF TypeOK
<1>5. ASSUME ws[s].active
      PROVE  /\ Cardinality(ActiveSources) > 0
             /\ Cardinality(ActiveSources \ {s}) = Cardinality(ActiveSources) - 1
  BY <1>2, <1>3, <1>5, SmallerSet
<1>6. ASSUME ~ws[s].active
      PROVE  /\ Cardinality(ActiveSources \cup {s}) = Cardinality(ActiveSources) + 1
             /\ Cardinality(ActiveSources) < Cardinality(Source)
  <2>1. s \notin ActiveSources /\ ActiveSources \cup {s} \in SUBSET Source
    BY <1>1, <1>3, <1>6
  <2>2. Cardinality(ActiveSources \cup {s}) = Cardinality(ActiveSources) + 1
    BY <1>2, <2>1, FS_AddElement
  <2>3. Cardinality(ActiveSources \cup {s}) <= Cardinality(Source)
    BY <1>1, <2>1, FS_Subset
  <2> QED BY <1>2, <2>2, <2>3
<1>7. ActiveSources' = IF v.active THEN ActiveSources \cup {s} ELSE ActiveSources \ {s}
  BY <1>4 DEF ActiveSources
<1>8. /\ Open(v) = (IF v.active THEN 1 ELSE 0)
      /\ Open(ws[s]) = (IF ws[s].active THEN 1 ELSE 0)
  BY DEF Open
<1>9. CASE ws[s].active
  <2>1. ActiveSources \cup {s} = ActiveSources
    BY <1>3, <1>9
  <2>2. /\ Open(ws[s]) = 1 /\ Cardinality(ActiveSources) > 0
        /\ Cardinality(ActiveSources \ {s}) = Cardinality(ActiveSources) - 1
    BY <1>5, <1>8, <1>9
  <2>3. Cardinality(ActiveSources') = (Cardinality(ActiveSources) + Open(v)) - 1
    <3>1. CASE v.active
      <4>1. ActiveSources' = ActiveSources /\ Open(v) = 1
        BY <1>7, <1>8, <2>1, <3>1
      <4> QED BY <1>2, <4>1
    <3>2. CASE ~v.active
      <4>1. ActiveSources' = ActiveSources \ {s} /\ Open(v) = 0
        BY <1>7, <1>8, <3>2
      <4> QED BY <1>2, <2>2, <4>1
    <3> QED BY <3>1, <3>2
  <2> QED BY <1>2, <1>9, <2>2, <2>3
<1>10. CASE ~ws[s].active
  <2>1. ActiveSources \ {s} = ActiveSources
    BY <1>3, <1>10
  <2>2. /\ Open(ws[s]) = 0 /\ Cardinality(ActiveSources) < Cardinality(Source)
        /\ Cardinality(ActiveSources \cup {s}) = Cardinality(ActiveSources) + 1
    BY <1>6, <1>8, <1>10
  <2>3. Cardinality(ActiveSources') = (Cardinality(ActiveSources) + Open(v)) - 0
    <3>1. CASE v.active
      <4>1. ActiveSources' = ActiveSources \cup {s} /\ Open(v) = 1
        BY <1>7, <1>8, <3>1
      <4> QED BY <1>2, <2>2, <4>1
    <3>2. CASE ~v.active
      <4>1. ActiveSources' = ActiveSources /\ Open(v) = 0
        BY <1>7, <1>8, <2>1, <3>2
      <4> QED BY <1>2, <4>1
    <3> QED BY <3>1, <3>2
  <2> QED BY <1>2, <1>10, <2>2, <2>3
<1> QED BY <1>3, <1>9, <1>10

(* A call for a source that is not free keeps the invariant, if it moves   *)
(* the periods as described and an event is counted.                       *)
LEMMA CallStep ==
  ASSUME WInv, mgr.pc # "asleep", NEW s \in Source, ws[s].mem = "live", NEW r, NEW e \in 0..1,
         Moves(ws[s], combined_event_count, r, e), Apply(s, r),
         e = 1 => Event, e = 0 => UNCHANGED seen,
         UNCHANGED <<wakeup, saved_count, events_check_enabled, admin, mgr>>
  PROVE  WInv'
<1> DEFINE w == ws[s]
           comb == combined_event_count
           n == Cardinality(ActiveSources)
<1>1. /\ ws' = [ws EXCEPT ![s] = r.ws] /\ combined_event_count' = r.comb
      /\ Sound(r.ws) /\ r.ws.mem = w.mem /\ r.comb \in 0..(2^(2 * Bits) - 1)
      /\ inpr(r.comb) = (inpr(comb) + Open(r.ws)) - Open(w)
  BY DEF Apply, Moves
<1>2. PICK d \in 0..1 :
        /\ cnt(r.comb) = (cnt(comb) + d) % 2^Bits
        /\ Open(w) <= d + Open(r.ws) /\ d + Open(r.ws) <= Open(w) + e
        /\ e = 1 => d + Open(r.ws) > 0
  BY DEF Moves
<1>3. TypeOK /\ PeriodsInv /\ FreedSourceQuiet /\ OwnerInv /\ CountInv
  BY DEF WInv
<1>4. r.ws \in Sources /\ r.ws.active \in BOOLEAN
  BY <1>1 DEF Sound, Sources
<1>5. Open(w) \in 0..1 /\ Open(r.ws) \in 0..1
  BY DEF Open
<1>6. /\ n \in Nat
      /\ Cardinality(ActiveSources') = (n + Open(r.ws)) - Open(w)
  BY <1>1, <1>3, <1>4, ActiveAfter
<1>7. seen' \in 0..MaxEvents
  BY <1>3, WidthAssumption DEF Event, TypeOK
<1>8. TypeOK'
  BY <1>1, <1>3, <1>4, <1>7 DEF TypeOK
<1>9. \A t \in Source : ws'[t] = IF t = s THEN r.ws ELSE ws[t]
  BY <1>1, <1>3 DEF TypeOK
<1>10. PeriodsInv'
  <2>1. \A t \in Source : Sound(ws'[t])
    BY <1>1, <1>3, <1>9 DEF PeriodsInv
  <2>2. inpr(combined_event_count') = Cardinality(ActiveSources')
    BY <1>1, <1>3, <1>6 DEF PeriodsInv
  <2> QED BY <2>1, <2>2 DEF PeriodsInv, Sound, Open
<1>11. \A t \in Source : ws'[t].mem = ws[t].mem
  BY <1>1, <1>9
<1>12. FreedSourceQuiet'
  BY <1>1, <1>3, <1>8, <1>9, <1>11 DEF FreedSourceQuiet, TypeOK
<1>13. OwnerInv'
  BY <1>3, <1>11 DEF OwnerInv, TypeOK
<1>14. CountInv'
  <2>1. ASSUME mgr'.pc \in {"save", "suspend"}
        PROVE  \E over \in Nat :
                 /\ cnt(combined_event_count') = (mgr'.count + over) % 2^Bits
                 /\ over + Cardinality(ActiveSources') <= seen'
                 /\ seen' > 0 => over + Cardinality(ActiveSources') > 0
    <3>1. PICK over \in Nat :
            /\ cnt(comb) = (mgr.count + over) % 2^Bits
            /\ over + n <= seen
            /\ seen > 0 => over + n > 0
      BY <1>3, <2>1 DEF CountInv
    <3>2. seen \in Nat /\ seen' = seen + e /\ mgr.count \in Int
      BY <1>3, <2>1, WidthAssumption, Widths DEF TypeOK, Event, MAX_IN_PROGRESS
    <3>3. over + d \in Nat /\ mgr.count + over \in Int /\ mgr.count + (over + d) = (mgr.count + over) + d
      BY <1>2, <3>1, <3>2
    <3>4. (((mgr.count + over) % 2^Bits) + d) % 2^Bits = ((mgr.count + over) + d) % 2^Bits
      <4> DEFINE P == 2^Bits
                 x == mgr.count + over
      <4>1. P \in Nat \ {0} /\ x \in Int /\ d \in Int
        BY <1>2, <3>3, Widths
      <4> HIDE DEF P, x
      <4>2. ((x % P) + d) % P = (x + d) % P
        BY <4>1, ModAdd
      <4> QED BY <4>2 DEF P, x
    <3>5. cnt(combined_event_count') = (mgr'.count + (over + d)) % 2^Bits
      BY <1>1, <1>2, <3>1, <3>3, <3>4
    <3> HIDE DEF n, w
    <3>6. (over + d) + Cardinality(ActiveSources') <= seen'
      BY <1>2, <1>5, <1>6, <3>1, <3>2
    <3>7. seen' > 0 => (over + d) + Cardinality(ActiveSources') > 0
      <4>1. CASE e = 0
        BY <1>2, <1>5, <1>6, <3>1, <3>2, <4>1
      <4>2. CASE e = 1
        <5>1. n >= Open(w)
          <6>1. w.active => n > 0
            BY <1>1, <1>3, <1>4, ActiveAfter DEF w, n
          <6> QED BY <1>6, <6>1 DEF Open
        <5> QED BY <1>2, <1>5, <1>6, <3>1, <3>2, <4>2, <5>1
      <4> QED BY <4>1, <4>2
    <3> QED BY <3>3, <3>5, <3>6, <3>7
  <2>2. mgr'.pc = "suspend" => events_check_enabled' /\ saved_count' = mgr'.count
    BY <1>3 DEF CountInv
  <2> QED BY <2>1, <2>2 DEF CountInv
<1>15. SleepSafe'
  BY DEF SleepSafe
<1> QED BY <1>8, <1>10, <1>12, <1>13, <1>14, <1>15 DEF WInv

(* The room that is left in the lower half of the word. *)
LEMMA Room ==
  ASSUME TypeOK, PeriodsInv, NEW s \in Source
  PROVE  /\ Sound(ws[s]) /\ combined_event_count \in 0..(2^(2 * Bits) - 1)
         /\ ws[s].active => inpr(combined_event_count) > 0
         /\ ~ws[s].active => inpr(combined_event_count) < MAX_IN_PROGRESS
<1> DEFINE n == Cardinality(ActiveSources)
<1>1. ActiveSources \in SUBSET Source /\ IsFiniteSet(Source)
  BY SourceAssumption DEF ActiveSources
<1>2. IsFiniteSet(ActiveSources) /\ n \in Nat /\ Cardinality(Source) \in Nat
  BY <1>1, FS_Subset, FS_CardinalityType
<1>3. ws[s].active \in BOOLEAN /\ (s \in ActiveSources <=> ws[s].active)
  BY DEF TypeOK, Sources, ActiveSources
<1>4. Sound(ws[s]) /\ inpr(combined_event_count) = n
  BY DEF PeriodsInv
<1>5. ASSUME ws[s].active PROVE n > 0
  BY <1>2, <1>3, <1>5, SmallerSet
<1>6. ASSUME ~ws[s].active PROVE n < MAX_IN_PROGRESS
  <2>1. s \notin ActiveSources /\ ActiveSources \cup {s} \in SUBSET Source
    BY <1>1, <1>3, <1>6
  <2>2. Cardinality(ActiveSources \cup {s}) = n + 1
    BY <1>2, <2>1, FS_AddElement
  <2>3. Cardinality(ActiveSources \cup {s}) <= Cardinality(Source)
    BY <1>1, <2>1, FS_Subset
  <2> QED BY <1>2, <2>2, <2>3, CountersFit, Widths DEF MAX_IN_PROGRESS
<1> QED BY <1>4, <1>5, <1>6 DEF TypeOK

(* The calls for devices and the timers. *)
LEMMA DriverStep ==
  ASSUME WInv, mgr.pc # "asleep", NEW d \in WakeDevice, Driver(d)
  PROVE  WInv'
<1> DEFINE s == wakeup[d]
           w == ws[s]
           comb == combined_event_count
<1>1. s \in Source /\ w.mem = "live"
  BY DEF WInv, TypeOK, FreedSourceQuiet, Driver, pm_stay_awake, pm_relax, pm_wakeup_event
<1>2. /\ Sound(w) /\ comb \in 0..(2^(2 * Bits) - 1)
      /\ w.active => inpr(comb) > 0
      /\ ~w.active => inpr(comb) < MAX_IN_PROGRESS
  BY <1>1, Room DEF WInv
<1>3. CASE pm_stay_awake(d)
  <2> DEFINE r == __pm_stay_awake(w, comb)
  <2>1. Moves(w, comb, r, 1)
    BY <1>2, StayAwakeMoves
  <2>2. Apply(s, r) /\ Event /\ UNCHANGED <<wakeup, saved_count, events_check_enabled, admin, mgr>>
    BY <1>3 DEF pm_stay_awake
  <2> HIDE DEF r, s
  <2> QED BY <1>1, <2>1, <2>2, CallStep
<1>4. CASE pm_relax(d)
  <2> DEFINE r == __pm_relax(w, comb)
  <2>1. Moves(w, comb, r, 0)
    BY <1>2, RelaxMoves
  <2>2. Apply(s, r) /\ UNCHANGED <<seen, wakeup, saved_count, events_check_enabled, admin, mgr>>
    BY <1>4 DEF pm_relax
  <2> HIDE DEF r, s
  <2> QED BY <1>1, <2>1, <2>2, CallStep
<1>5. ASSUME NEW msec \in {0, 1}, pm_wakeup_event(d, msec) PROVE WInv'
  <2> DEFINE r == __pm_wakeup_event(w, comb, msec)
  <2>1. Moves(w, comb, r, 1)
    BY <1>2, EventMoves
  <2>2. Apply(s, r) /\ Event /\ UNCHANGED <<wakeup, saved_count, events_check_enabled, admin, mgr>>
    BY <1>5 DEF pm_wakeup_event
  <2> HIDE DEF r, s
  <2> QED BY <1>1, <2>1, <2>2, CallStep
<1> QED BY <1>3, <1>4, <1>5 DEF Driver

LEMMA TimerStep ==
  ASSUME WInv, mgr.pc # "asleep", NEW s \in Source, Timer(s)
  PROVE  WInv'
<1> DEFINE w == ws[s]
           comb == combined_event_count
<1>1. w.mem = "live" /\ w \in Sources /\ TypeOK
  BY DEF WInv, TypeOK, Sources, FreedSourceQuiet, Timer, timer_starts, pm_wakeup_timer_fn
<1>2. /\ Sound(w) /\ comb \in 0..(2^(2 * Bits) - 1)
      /\ w.active => inpr(comb) > 0
  BY Room DEF WInv
<1>3. CASE timer_starts(s)
  <2> DEFINE v == [w EXCEPT !.timer = FALSE, !.firing = TRUE]
             r == Result(v, comb)
  <2>1. Sound(v) /\ v.mem = w.mem /\ v.active = w.active /\ w.active \in BOOLEAN
    BY <1>1, <1>2 DEF Sound, Sources, Open
  <2>2. ws' = [ws EXCEPT ![s] = v]
    BY <1>1, <1>3 DEF timer_starts, TypeOK
  <2> HIDE DEF v
  <2>3. Moves(w, comb, r, 0)
    BY <1>2, <2>1, NoMove
  <2>4. Apply(s, r) /\ UNCHANGED <<seen, wakeup, saved_count, events_check_enabled, admin, mgr>>
    BY <1>3, <2>2 DEF timer_starts, Apply, Result
  <2> HIDE DEF r
  <2> QED BY <1>1, <2>3, <2>4, CallStep
<1>4. CASE pm_wakeup_timer_fn(s)
  <2> DEFINE q == __pm_relax(w, comb)
             r == Result([q.ws EXCEPT !.firing = FALSE], q.comb)
  <2>1. Moves(w, comb, q, 0)
    BY <1>2, RelaxMoves
  <2>2. Apply(s, r) /\ UNCHANGED <<seen, wakeup, saved_count, events_check_enabled, admin, mgr>>
    BY <1>4 DEF pm_wakeup_timer_fn, Apply, Result
  <2> HIDE DEF q
  <2>3. r.ws = [q.ws EXCEPT !.firing = FALSE] /\ r.comb = q.comb
    BY DEF Result
  <2> HIDE DEF r
  <2>4. Sound(q.ws)
    BY <2>1 DEF Moves
  <2>5. Sound(r.ws) /\ r.ws.mem = q.ws.mem /\ Open(r.ws) = Open(q.ws)
    BY <2>3, <2>4 DEF Sound, Sources, Open
  <2>6. Moves(w, comb, r, 0)
    BY <2>1, <2>3, <2>5 DEF Moves
  <2> QED BY <1>1, <2>2, <2>6, CallStep
<1> QED BY <1>3, <1>4 DEF Timer

(* The admins take sources that are free, and free those that have no open *)
(* period, so that they leave the periods alone.                           *)
LEMMA AdminKeeps ==
  ASSUME WInv, ActiveSources' = ActiveSources, UNCHANGED <<combined_event_count, saved_count, events_check_enabled, mgr, seen>>,
         \A s \in Source : Sound(ws'[s])
  PROVE  PeriodsInv' /\ CountInv' /\ SleepSafe'
<1>1. PeriodsInv'
  BY DEF WInv, PeriodsInv, Sound, Open, Sources, Count
<1>2. CountInv'
  <2>1. CountInv
    BY DEF WInv
  <2> QED BY <2>1 DEF CountInv
<1>3. SleepSafe'
  <2>1. SleepSafe /\ \A s \in Source : ws'[s].active => s \in ActiveSources
    BY DEF WInv, ActiveSources
  <2> QED BY <2>1 DEF SleepSafe, ActiveSources
<1> QED BY <1>1, <1>2, <1>3

LEMMA FreshSource ==
  /\ kzalloc \in Sources /\ kzalloc.mem = "free" /\ kzalloc.active = FALSE /\ kzalloc.timer = FALSE
  /\ kzalloc.firing = FALSE /\ kzalloc.active_count = 0 /\ kzalloc.relax_count = 0
BY Widths DEF kzalloc, Sources

LEMMA AdminStep ==
  ASSUME WInv, NEW a \in Admin, Configure(a) \/ wakeup_source_destroy(a)
  PROVE  WInv'
<1>0. TypeOK /\ PeriodsInv /\ FreedSourceQuiet /\ OwnerInv
  BY DEF WInv
<1>1. ASSUME NEW d \in WakeDevice, NEW s \in Source, wakeup_source_register(a, d, s) PROVE WInv'
  <2> DEFINE v == [kzalloc EXCEPT !.mem = "live"]
  <2>1. /\ ws' = [ws EXCEPT ![s] = v] /\ ws[s].mem = "free" /\ admin[a].pc = "idle"
        /\ admin' = [admin EXCEPT ![a] = [pc |-> "attach", dev |-> d, src |-> s]]
        /\ UNCHANGED <<combined_event_count, seen, wakeup, saved_count, events_check_enabled, mgr>>
    BY <1>1 DEF wakeup_source_register
  <2>2. /\ v \in Sources /\ v.mem = "live" /\ v.active = FALSE /\ v.timer = FALSE
        /\ v.active_count = 0 /\ v.relax_count = 0
    BY FreshSource DEF Sources
  <2>3. Sound(v)
    <3>1. Count(0 + 0) = 0
      BY CountFacts, Widths
    <3> QED BY <2>2, <3>1 DEF Sound, Open
  <2> HIDE DEF v
  <2>4. \A t \in Source : ws'[t] = IF t = s THEN v ELSE ws[t]
    BY <1>0, <2>1 DEF TypeOK
  <2>5. ~ws[s].active
    BY <1>0, <2>1 DEF FreedSourceQuiet
  <2>6. ActiveSources' = ActiveSources
    BY <2>2, <2>4, <2>5 DEF ActiveSources
  <2>7. \A t \in Source : Sound(ws'[t])
    BY <1>0, <2>3, <2>4 DEF PeriodsInv
  <2>8. TypeOK'
    BY <1>0, <2>1, <2>2 DEF TypeOK
  <2>9. (\A e \in WakeDevice : wakeup[e] # s) /\ \A b \in Admin : admin[b].src # s
    BY <1>0, <2>1, NameAssumption DEF FreedSourceQuiet, OwnerInv, TypeOK
  <2>10. FreedSourceQuiet'
    BY <1>0, <2>1, <2>2, <2>4, <2>9 DEF FreedSourceQuiet, TypeOK
  <2>11. OwnerInv'
    BY <1>0, <2>1, <2>2, <2>4, <2>9 DEF OwnerInv, TypeOK
  <2> QED BY <2>1, <2>6, <2>7, <2>8, <2>10, <2>11, AdminKeeps DEF WInv
<1>2. ASSUME wakeup_source_destroy(a) PROVE WInv'
  <2> DEFINE s == admin[a].src
             v == [ws[s] EXCEPT !.mem = "free"]
  <2>1. /\ admin[a].pc = "destroy" /\ ~ws[s].active /\ ~ws[s].firing
        /\ ws' = [ws EXCEPT ![s].mem = "free"] /\ admin' = [admin EXCEPT ![a] = Done]
        /\ UNCHANGED <<combined_event_count, seen, wakeup, saved_count, events_check_enabled, mgr>>
    BY <1>2 DEF wakeup_source_destroy
  <2>2. s \in Source /\ \A d \in WakeDevice : wakeup[d] # s
    BY <1>0, <2>1 DEF OwnerInv
  <2>3. Sound(ws[s]) /\ ~ws[s].timer
    BY <1>0, <2>1, <2>2 DEF PeriodsInv, Sound
  <2>4. /\ v \in Sources /\ Sound(v) /\ v.mem = "free" /\ v.active = ws[s].active
        /\ ~v.active /\ ~v.timer /\ ~v.firing
    BY <2>1, <2>3 DEF Sound, Sources, Open
  <2>5. ws' = [ws EXCEPT ![s] = v]
    BY <1>0, <2>1, <2>2 DEF TypeOK
  <2> HIDE DEF v
  <2>6. \A t \in Source : ws'[t] = IF t = s THEN v ELSE ws[t]
    BY <1>0, <2>5 DEF TypeOK
  <2>7. ActiveSources' = ActiveSources
    BY <2>4, <2>6 DEF ActiveSources
  <2>8. \A t \in Source : Sound(ws'[t])
    BY <1>0, <2>4, <2>6 DEF PeriodsInv
  <2>9. TypeOK'
    BY <1>0, <2>1, <2>2, <2>4, <2>5 DEF TypeOK, Done
  <2>10. FreedSourceQuiet'
    BY <1>0, <2>1, <2>2, <2>4, <2>6, NameAssumption DEF FreedSourceQuiet, TypeOK, Done
  <2>11. OwnerInv'
    BY <1>0, <2>1, <2>2, <2>6, NameAssumption DEF OwnerInv, TypeOK, Done
  <2> QED BY <2>1, <2>7, <2>8, <2>9, <2>10, <2>11, AdminKeeps DEF WInv
<1>3. ASSUME device_wakeup_attach(a) PROVE WInv'
  <2>1. UNCHANGED <<ws, combined_event_count, seen, saved_count, events_check_enabled, mgr>> /\ admin[a].pc = "attach"
    BY <1>3 DEF device_wakeup_attach, svars
  <2>2. TypeOK'
    BY <1>0, <1>3, <2>1 DEF device_wakeup_attach, TypeOK, OwnerInv, Done
  <2>3. FreedSourceQuiet'
    BY <1>0, <1>3, <2>1, NameAssumption DEF device_wakeup_attach, FreedSourceQuiet, OwnerInv, TypeOK, Done
  <2>4. OwnerInv'
    BY <1>0, <1>3, <2>1, NameAssumption DEF device_wakeup_attach, OwnerInv, TypeOK, Done
  <2>5. ActiveSources' = ActiveSources /\ \A s \in Source : Sound(ws'[s])
    BY <1>0, <2>1 DEF ActiveSources, PeriodsInv
  <2> QED BY <2>1, <2>2, <2>3, <2>4, <2>5, AdminKeeps DEF WInv
<1>4. ASSUME NEW d \in WakeDevice, device_wakeup_disable(a, d) PROVE WInv'
  <2>1. UNCHANGED <<ws, combined_event_count, seen, saved_count, events_check_enabled, mgr>>
    BY <1>4 DEF device_wakeup_disable, svars
  <2>2. TypeOK'
    BY <1>0, <1>4, <2>1 DEF device_wakeup_disable, TypeOK
  <2>3. FreedSourceQuiet'
    BY <1>0, <1>4, <2>1, NameAssumption DEF device_wakeup_disable, FreedSourceQuiet, TypeOK
  <2>4. OwnerInv'
    BY <1>0, <1>4, <2>1, NameAssumption DEF device_wakeup_disable, FreedSourceQuiet, OwnerInv, TypeOK
  <2>5. ActiveSources' = ActiveSources /\ \A s \in Source : Sound(ws'[s])
    BY <1>0, <2>1 DEF ActiveSources, PeriodsInv
  <2> QED BY <2>1, <2>2, <2>3, <2>4, <2>5, AdminKeeps DEF WInv
<1> QED BY <1>1, <1>2, <1>3, <1>4 DEF Configure

(* The manager: with no more than MaxEvents periods over since it has read *)
(* the count, the upper half is the same again only if there was none.     *)
LEMMA ManagerStep ==
  ASSUME WInv, PowerManager \/ suspend_over
  PROVE  WInv'
<1>0. TypeOK /\ PeriodsInv /\ FreedSourceQuiet /\ OwnerInv /\ CountInv
  BY DEF WInv
<1>1. UNCHANGED <<ws, combined_event_count, wakeup, admin>>
  BY DEF PowerManager, pm_get_wakeup_count, pm_save_wakeup_count, suspend_aborted, suspend_fails,
         suspend_enter, suspend_over, svars
<1>2. PeriodsInv' /\ FreedSourceQuiet' /\ OwnerInv' /\ ActiveSources' = ActiveSources
  BY <1>0, <1>1 DEF PeriodsInv, ActiveSources, FreedSourceQuiet, OwnerInv, Sound, Open, Sources, Count
<1>3. cnt(combined_event_count) \in 0..MAX_IN_PROGRESS /\ 0 \in 0..MAX_IN_PROGRESS /\ 0 \in 0..MaxEvents
  BY <1>0, WordHalves, Widths, WidthAssumption DEF TypeOK, MAX_IN_PROGRESS
<1>4. TypeOK'
  <2>1. SUFFICES /\ mgr' \in [pc : {"idle", "save", "suspend", "asleep"}, count : 0..MAX_IN_PROGRESS]
                 /\ seen' \in 0..MaxEvents /\ saved_count' \in 0..MAX_IN_PROGRESS
                 /\ events_check_enabled' \in BOOLEAN
    BY <1>0, <1>1 DEF TypeOK
  <2>2. /\ mgr \in [pc : {"idle", "save", "suspend", "asleep"}, count : 0..MAX_IN_PROGRESS]
        /\ seen \in 0..MaxEvents /\ saved_count \in 0..MAX_IN_PROGRESS
        /\ events_check_enabled \in BOOLEAN
    BY <1>0 DEF TypeOK
  <2>3. CASE pm_get_wakeup_count
    BY <1>3, <2>2, <2>3 DEF pm_get_wakeup_count
  <2>7. [pc |-> "idle", count |-> 0] \in [pc : {"idle", "save", "suspend", "asleep"}, count : 0..MAX_IN_PROGRESS]
    BY <1>3
  <2>8. mgr.count \in 0..MAX_IN_PROGRESS
        /\ [mgr EXCEPT !.pc = "suspend"] \in [pc : {"idle", "save", "suspend", "asleep"}, count : 0..MAX_IN_PROGRESS]
    BY <2>2
  <2>4. CASE pm_save_wakeup_count
    BY <1>3, <2>2, <2>4, <2>7, <2>8, Zenon DEF pm_save_wakeup_count, manager_idle
  <2>5. CASE suspend_aborted \/ suspend_fails \/ suspend_over
    BY <1>3, <2>2, <2>5, <2>7, Zenon DEF suspend_aborted, suspend_fails, suspend_over, manager_idle
  <2>6. CASE suspend_enter
    BY <2>2, <2>6 DEF suspend_enter, svars
  <2> QED BY <2>3, <2>4, <2>5, <2>6 DEF PowerManager
<1>5. IsFiniteSet(ActiveSources) /\ Cardinality(ActiveSources) \in Nat
  BY SourceAssumption, FS_Subset, FS_CardinalityType DEF ActiveSources
<1>6. CASE pm_get_wakeup_count
  <2>1. /\ mgr' = [pc |-> "save", count |-> cnt(combined_event_count)]
        /\ seen' = 0 /\ inpr(combined_event_count) = 0
    BY <1>6 DEF pm_get_wakeup_count
  <2>2. Cardinality(ActiveSources') = 0
    BY <1>0, <1>2, <2>1 DEF PeriodsInv
  <2>3. (cnt(combined_event_count) + 0) % 2^Bits = cnt(combined_event_count)
    BY <1>3, Widths, ModSmall DEF MAX_IN_PROGRESS
  <2>4. CountInv'
    BY <1>1, <2>1, <2>2, <2>3 DEF CountInv
  <2> QED BY <1>2, <1>4, <2>1, <2>4 DEF WInv, SleepSafe
<1>7. CASE pm_save_wakeup_count
  <2>1. CountInv'
    BY <1>0, <1>1, <1>2, <1>7 DEF pm_save_wakeup_count, manager_idle, CountInv, TypeOK
  <2>2. SleepSafe'
    BY <1>0, <1>7 DEF pm_save_wakeup_count, manager_idle, SleepSafe, TypeOK
  <2> QED BY <1>2, <1>4, <2>1, <2>2 DEF WInv
<1>8. CASE suspend_aborted \/ suspend_fails \/ suspend_over
  BY <1>2, <1>4, <1>8 DEF suspend_aborted, suspend_fails, suspend_over, manager_idle, WInv, CountInv, SleepSafe
<1>9. CASE suspend_enter
  <2>1. /\ mgr.pc = "suspend" /\ mgr' = [mgr EXCEPT !.pc = "asleep"] /\ seen' = seen
        /\ ~pm_wakeup_pending
    BY <1>9 DEF suspend_enter, svars
  <2>2. events_check_enabled /\ saved_count = mgr.count
    BY <1>0, <2>1 DEF CountInv
  <2>3. cnt(combined_event_count) = mgr.count /\ ~(inpr(combined_event_count) > 0)
    BY <2>1, <2>2 DEF pm_wakeup_pending
  <2>4. Cardinality(ActiveSources) = 0 /\ ActiveSources = {}
    BY <1>0, <1>5, <2>3, FS_EmptySet DEF PeriodsInv
  <2>5. PICK over \in Nat :
          /\ cnt(combined_event_count) = (mgr.count + over) % 2^Bits
          /\ over + Cardinality(ActiveSources) <= seen
          /\ seen > 0 => over + Cardinality(ActiveSources) > 0
    BY <1>0, <2>1 DEF CountInv
  <2>6. over = 0
    <3> DEFINE P == 2^Bits
               m == mgr.count
    <3>1. /\ P \in Nat \ {0} /\ m \in 0..(P - 1) /\ over < P /\ m = (m + over) % P
      BY <1>0, <2>3, <2>4, <2>5, Widths, CountersFit, WidthAssumption DEF TypeOK, MAX_IN_PROGRESS
    <3> HIDE DEF P, m
    <3>2. CASE m + over < P
      <4>1. m + over \in 0..(P - 1)
        BY <3>1, <3>2
      <4>2. (m + over) % P = m + over
        BY <3>1, <4>1, ModSmall
      <4> QED BY <3>1, <4>2
    <3>3. CASE m + over >= P
      <4>1. (m + over) - P \in 0..(P - 1) /\ m + over = (P * 1) + ((m + over) - P) /\ m + over \in Int
        BY <3>1, <3>3
      <4>2. (m + over) % P = (m + over) - P
        BY <3>1, <4>1, ModUnique
      <4> QED BY <3>1, <4>2
    <3> QED BY <3>1, <3>2, <3>3
  <2>7. seen = 0
    BY <1>0, <2>4, <2>5, <2>6, WidthAssumption DEF TypeOK
  <2>8. SleepSafe'
    BY <1>1, <2>1, <2>4, <2>7 DEF SleepSafe, ActiveSources
  <2>9. mgr'.pc = "asleep"
    BY <1>0, <2>1 DEF TypeOK
  <2> QED BY <1>2, <1>4, <2>8, <2>9 DEF WInv, CountInv
<1> QED BY <1>6, <1>7, <1>8, <1>9 DEF PowerManager

LEMMA WInvInit == Init => WInv
<1> SUFFICES ASSUME Init PROVE WInv
  OBVIOUS
<1>1. /\ kzalloc \in Sources /\ kzalloc.mem = "free" /\ kzalloc.active = FALSE /\ kzalloc.timer = FALSE
      /\ kzalloc.firing = FALSE /\ kzalloc.active_count = 0 /\ kzalloc.relax_count = 0
  BY FreshSource
<1>2. \A s \in Source : ws[s] = kzalloc
  BY DEF Init
<1>3. Sound(kzalloc)
  <2>1. Count(0 + 0) = 0
    BY CountFacts, Widths
  <2> QED BY <1>1, <2>1 DEF Sound, Open
<1>4. /\ 0 \in 0..(2^(2 * Bits) - 1) /\ 0 \in 0..MAX_IN_PROGRESS /\ 0 \in 0..MaxEvents
  BY Widths, WidthAssumption DEF MAX_IN_PROGRESS
<1>5. TypeOK
  BY <1>1, <1>4 DEF Init, TypeOK
<1>6. PeriodsInv
  <2>1. ActiveSources = {}
    BY <1>1, <1>2 DEF ActiveSources
  <2>2. inpr(0) = 0
    BY Widths, ModSmall DEF inpr
  <2> QED BY <1>2, <1>3, <2>1, <2>2, FS_EmptySet DEF Init, PeriodsInv
<1>7. FreedSourceQuiet /\ OwnerInv
  BY <1>1, <1>2 DEF Init, FreedSourceQuiet, OwnerInv
<1>8. CountInv /\ SleepSafe
  BY DEF Init, CountInv, SleepSafe
<1> QED BY <1>5, <1>6, <1>7, <1>8 DEF WInv

LEMMA WInvStep == WInv /\ [Next]_vars => WInv'
<1> SUFFICES ASSUME WInv, [Next]_vars PROVE WInv'
  OBVIOUS
<1>1. CASE UNCHANGED vars
  <2>1. UNCHANGED <<ws, combined_event_count, seen, wakeup, saved_count, events_check_enabled, admin, mgr>>
    BY <1>1 DEF vars, svars
  <2>2. TypeOK' /\ FreedSourceQuiet' /\ OwnerInv'
    BY <2>1 DEF WInv, TypeOK, FreedSourceQuiet, OwnerInv
  <2>3. ActiveSources' = ActiveSources /\ \A s \in Source : Sound(ws'[s])
    BY <2>1 DEF ActiveSources, WInv, PeriodsInv
  <2> QED BY <2>1, <2>2, <2>3, AdminKeeps DEF WInv
<1>2. CASE Next
  BY <1>2, DriverStep, TimerStep, AdminStep, ManagerStep DEF Next
<1> QED BY <1>1, <1>2

----------------------------------------------------------------------------
(* The inductive invariant holds of the program. *)
THEOREM WakeupInvariant == Spec => []WInv
BY WInvInit, WInvStep, PTL DEF Spec

(* The lower half of the word is the number of open periods, whatever      *)
(* drivers, timers and admins do, and never spills into the upper half.    *)
THEOREM WakeupInProgressExact == Spec => []InProgressExact
<1>1. WInv => InProgressExact
  BY DEF WInv, PeriodsInv, Sound, Open, ActiveSources, InProgressExact
<1> QED BY <1>1, WakeupInvariant, PTL

(* A source that has been freed is not used any more. *)
THEOREM WakeupFreedSourceQuiet == Spec => []FreedSourceQuiet
<1>1. WInv => FreedSourceQuiet
  BY DEF WInv
<1> QED BY <1>1, WakeupInvariant, PTL

(* The system does not go to sleep over a wakeup event. *)
THEOREM WakeupSleepSafe == Spec => []SleepSafe
<1>1. WInv => SleepSafe
  BY DEF WInv
<1> QED BY <1>1, WakeupInvariant, PTL

----------------------------------------------------------------------------
(***************************************************************************)
(* Runtime power management.  Operators on states are shown to keep the    *)
(* invariant of a state, RInv(s, X, Y); in the middle of a step it may be  *)
(* broken for a device whose barrier has not begun (X) or whose waiters    *)
(* have not been woken (Y).                                                *)
(***************************************************************************)
(* What a frame may look like, and on top of which frame. *)
FrameOK(f) ==
  /\ f.fn = "resume" =>
       /\ f.ret \notin {"put", "idle"}
       /\ f.pc \in {"repeat", "sleep", "woken", "callback", "returned", "parent", "out", "put", "put_ok"}
       /\ f.parent => Parent[f.dev] # NoParent /\ "ASYNC" \notin f.flags
       /\ f.pc \in {"parent", "out", "put", "put_ok"} => f.parent
       /\ f.pc = "callback" => f.parent \/ Parent[f.dev] = NoParent
       /\ f.ret = "get" => f.flags = {}
       /\ "ASYNC" \in f.flags => f.ret = "done"
  /\ f.fn = "suspend" =>
       /\ f.ret \in {"done", "idle"}
       /\ f.pc \in {"repeat", "sleep", "woken", "callback", "returned", "deferred", "notify"}
       /\ f.pc = "notify" => Parent[f.dev] # NoParent
  /\ f.fn = "idle" => f.ret = "done" /\ f.pc \in {"repeat", "callback", "returned"}
  /\ f.fn = "barrier" =>
       f.ret \in {"put", "done"} /\ f.pc \in {"repeat", "cancel", "cancelled", "sleep", "woken"} /\ f.dev \in Used
  /\ f.fn = "work" => f.ret = "done" /\ f.pc = "repeat"
  /\ f.fn # "resume" => ~f.parent

(* The call that has to be below a frame, and where it waits for it. *)
Above(f, g) ==
  \/ f.ret = "idle" /\ g.fn = "idle" /\ g.dev = f.dev /\ g.pc = "callback"
  \/ f.ret = "suspend" /\ g.fn = "suspend" /\ g.dev = f.dev /\ g.pc = "deferred"
  \/ f.ret = "parent" /\ g.fn = "resume" /\ Parent[g.dev] = f.dev /\ g.pc = "parent"
  \/ f.ret = "barrier" /\ g.fn = "barrier" /\ g.dev = f.dev /\ g.pc = "repeat" /\ g.ret = "put"
  \/ f.ret = "disable" /\ g.fn = "barrier" /\ g.dev = f.dev /\ g.pc = "repeat" /\ g.ret = "done"

(* There is an i-th call on the stack of a. *)
Live(st, a, i) == i \in 1..Len(st[a])

(* Stacks consist of calls that can be made one out of the other. *)
Shape(st) ==
  \A a \in Actor, i \in Nat : Live(st, a, i) =>
    /\ FrameOK(st[a][i])
    /\ i = 1 => st[a][i].ret \in {"done", "get", "put"}
    /\ i > 1 => Above(st[a][i], st[a][i - 1])
    /\ st[a][i].ret = "get" => a \in Task

(* Who has a reference to the device: tasks, and calls; and its children   *)
(* that count as active.                                                   *)
RefSet(rf, d) == {t \in Task : rf[t][d] # "no"}
HoldSet(st, d) == {x \in Actor \X Nat : Live(st, x[1], x[2]) /\ Holds(st[x[1]][x[2]], d)}
Awake(dv, d) == {c \in Device : Parent[c] = d /\ dv[c].status \in {"ACTIVE", "SUSPENDING"}}

(* The counts, exactly. *)
UsageInv(s) ==
  \A d \in Device :
    /\ IsFiniteSet(RefSet(s.ref, d)) /\ IsFiniteSet(HoldSet(s.stack, d))
    /\ s.dev[d].usage = Cardinality(RefSet(s.ref, d)) + Cardinality(HoldSet(s.stack, d))

ChildInv(s) == \A d \in Device : s.dev[d].child_count = Cardinality(Awake(s.dev, d))

(* From the resume of its parent until its own callback is over, a call    *)
(* that has a reference to a parent that cannot be disabled finds it       *)
(* active.                                                                 *)
ParentKept(dv, f) ==
  f.parent /\ Parent[f.dev] \in Device \ Used /\ f.pc \in {"repeat", "sleep", "woken", "callback"}
    => dv[Parent[f.dev]].status = "ACTIVE"

ParentInv(s) ==
  /\ \A d \in Device : d \notin Used => s.dev[d].disable_depth = 0
  /\ \A c \in Device : Parent[c] \in Device \ Used /\ s.dev[c].status # "SUSPENDED"
       => s.dev[Parent[c]].status = "ACTIVE"
  /\ \A a \in Actor, i \in Nat : Live(s.stack, a, i) => ParentKept(s.dev, s.stack[a][i])

(* A get that is about to succeed has an active device. *)
Promised(s, a, f) ==
  f.ret = "get" => /\ s.ref[a][f.dev] # "no"
                   /\ f.pc = "put_ok" => s.dev[f.dev].status = "ACTIVE"
HeldInv(s) ==
  /\ \A t \in Task, d \in Device : s.ref[t][d] = "ok" => s.dev[d].status = "ACTIVE"
  /\ \A a \in Actor, i \in Nat : Live(s.stack, a, i) => Promised(s, a, s.stack[a][i])

(* What a call is doing to the device: flushing, cancelling the work item, *)
(* running it, running a callback.                                         *)
Flushes(f, d) == f.fn = "barrier" /\ f.dev = d /\ f.pc # "repeat"
Cancels(f, d) == f.fn = "barrier" /\ f.dev = d /\ f.pc \in {"cancel", "cancelled"}
Works(f, d) == f.fn = "work" /\ f.dev = d
Runs(f, fn, d) == f.fn = fn /\ f.dev = d /\ f.pc = "callback"

Flushing(st, d) == \E a \in Actor, i \in Nat : Live(st, a, i) /\ Flushes(st[a][i], d)
Cancelling(st, d) == \E a \in Actor, i \in Nat : Live(st, a, i) /\ Cancels(st[a][i], d)
Working(st, d) == \E a \in Actor, i \in Nat : Live(st, a, i) /\ Works(st[a][i], d)
RunBy(st, fn, d, a, i) == Live(st, a, i) /\ Runs(st[a][i], fn, d)

(* The callback is run if and only if the status says so, and by one call. *)
RunInv(st, fn, d, on) ==
  /\ on <=> \E a \in Actor, i \in Nat : RunBy(st, fn, d, a, i)
  /\ \A a, b \in Actor, i, j \in Nat : RunBy(st, fn, d, a, i) /\ RunBy(st, fn, d, b, j) => a = b /\ i = j

(* A disabled device has no timer, and what is left of requests and        *)
(* callbacks is waited for by a barrier; save for the devices in X, whose  *)
(* barrier is about to begin.                                              *)
DisabledInv(s, X) ==
  \A d \in Device \ X : s.dev[d].disable_depth > 0 =>
    /\ s.dev[d].timer = "off"
    /\ s.dev[d].pending => Cancelling(s.stack, d)
    /\ ~Quiet(s.dev[d]) => Flushing(s.stack, d)

ChangeInv(s) ==
  \A d \in Device :
    /\ RunInv(s.stack, "suspend", d, s.dev[d].status = "SUSPENDING")
    /\ RunInv(s.stack, "resume", d, s.dev[d].status = "RESUMING")

(* A pending request has a work item, a worker that is about to look at    *)
(* it, or is being cancelled.                                              *)
PendingInv(s) ==
  \A d \in Device : s.dev[d].pending => s.work[d] \/ Working(s.stack, d) \/ Cancelling(s.stack, d)

(* A call that sleeps waits for something that is still going on; save for *)
(* the devices in Y, whose wake-up is about to come.                       *)
AwaitsEnd(p, f) == \/ f.fn = "suspend" /\ p.status = "SUSPENDING"
                   \/ f.fn = "resume" /\ p.status \in {"SUSPENDING", "RESUMING"}
                   \/ f.fn = "barrier" /\ ~Quiet(p)
Waits(s, f) == f.pc = "sleep" => AwaitsEnd(s.dev[f.dev], f) \/ s.lapsed[f.dev]
SleepInv(s, Y) ==
  \A a \in Actor, i \in Nat : Live(s.stack, a, i) => s.stack[a][i].dev \in Y \/ Waits(s, s.stack[a][i])

(* The inductive invariant, with what is excepted in the middle of a step. *)
RInv(s, X, Y) ==
  /\ s \in States /\ Shape(s.stack) /\ UsageInv(s) /\ ChildInv(s) /\ ParentInv(s) /\ HeldInv(s)
  /\ DisabledInv(s, X) /\ ChangeInv(s) /\ PendingInv(s) /\ SleepInv(s, Y)

(* The stacks are the same but for the n-th call of a. *)
Agree(S, R, a, n) ==
  \A b \in Actor, i \in Nat : b # a \/ i # n =>
    /\ Live(S, b, i) <=> Live(R, b, i)
    /\ Live(S, b, i) => R[b][i] = S[b][i]

(* Only the stack is changed. *)
StackOnly(s, r) == r.dev = s.dev /\ r.work = s.work /\ r.ref = s.ref /\ r.lapsed = s.lapsed

(* The types of the five variables of a state. *)
LEMMA Fields ==
  ASSUME NEW s \in States
  PROVE  /\ s.dev \in [Device -> Power] /\ s.work \in [Device -> BOOLEAN]
         /\ s.stack \in [Actor -> Seq(CallFrame)]
         /\ s.ref \in [Task -> [Device -> {"no", "ref", "ok"}]] /\ s.lapsed \in [Device -> BOOLEAN]
BY DEF States

(* A state with other stacks. *)
LEMMA SetStack ==
  ASSUME NEW s \in States, NEW st \in [Actor -> Seq(CallFrame)]
  PROVE  LET r == [s EXCEPT !.stack = st]
         IN  r \in States /\ StackOnly(s, r) /\ r.stack = st
BY DEF States, StackOnly

(* Which calls are live on a stack. *)
LEMMA Stacks ==
  ASSUME NEW st \in [Actor -> Seq(CallFrame)], NEW a \in Actor
  PROVE  /\ Len(st[a]) \in Nat /\ st[a] \in Seq(CallFrame)
         /\ \A i \in Nat : Live(st, a, i) <=> 1 <= i /\ i <= Len(st[a])
         /\ \A i \in Nat : Live(st, a, i) => st[a][i] \in CallFrame
         /\ st[a] # <<>> => Len(st[a]) \in Nat \ {0} /\ Live(st, a, Len(st[a]))
         /\ st[a] = <<>> => \A i \in Nat : ~Live(st, a, i)
<1>1. st[a] \in Seq(CallFrame) /\ Len(st[a]) \in Nat
  BY LenProperties
<1>2. st[a] = <<>> <=> Len(st[a]) = 0
  BY <1>1, EmptySeq
<1>3. \A i \in 1..Len(st[a]) : st[a][i] \in CallFrame
  BY <1>1, ElementOfSeq
<1> QED BY <1>1, <1>2, <1>3 DEF Live

(* The innermost call is the last one. *)
LEMMA TopFrame ==
  ASSUME NEW s \in States, NEW a \in Actor, s.stack[a] # <<>>
  PROVE  /\ Top(s, a) \in CallFrame /\ Len(s.stack[a]) \in Nat \ {0}
         /\ Live(s.stack, a, Len(s.stack[a])) /\ s.stack[a][Len(s.stack[a])] = Top(s, a)
BY Fields, Stacks DEF Top

(* The innermost call is changed, and nothing else. *)
LEMMA RetopFields ==
  ASSUME NEW s \in States, NEW a \in Actor, s.stack[a] # <<>>, NEW f \in CallFrame
  PROVE  LET r == Retop(s, a, f)
             n == Len(s.stack[a])
         IN  /\ r \in States /\ StackOnly(s, r) /\ Agree(s.stack, r.stack, a, n)
             /\ Len(r.stack[a]) = n /\ r.stack[a] # <<>> /\ Top(r, a) = f
<1> DEFINE r == Retop(s, a, f)
           n == Len(s.stack[a])
           q == [s.stack[a] EXCEPT ![n] = f]
<1>1. s.stack \in [Actor -> Seq(CallFrame)] /\ n \in Nat \ {0} /\ n \in 1..Len(s.stack[a])
  BY Fields, TopFrame
<1>2. /\ q \in Seq(CallFrame) /\ Len(q) = n
      /\ \A j \in 1..n : q[j] = IF j = n THEN f ELSE s.stack[a][j]
  BY <1>1, ExceptSeq
<1> HIDE DEF q
<1>3. r = [s EXCEPT !.stack = [s.stack EXCEPT ![a] = q]]
  BY DEF Retop, q
<1>4. r \in States /\ StackOnly(s, r) /\ r.stack = [s.stack EXCEPT ![a] = q]
  <2>1. [s.stack EXCEPT ![a] = q] \in [Actor -> Seq(CallFrame)]
    BY <1>1, <1>2
  <2> QED BY <1>3, <2>1, SetStack
<1>5. r.stack[a] = q /\ \A b \in Actor : b # a => r.stack[b] = s.stack[b]
  BY <1>1, <1>4
<1>6. Agree(s.stack, r.stack, a, n)
  BY <1>1, <1>2, <1>5 DEF Agree, Live
<1>7. Len(r.stack[a]) = n /\ Top(r, a) = f
  BY <1>1, <1>2, <1>5 DEF Top
<1>8. r.stack[a] # <<>>
  BY <1>1, <1>7, EmptySeq
<1> QED BY <1>4, <1>6, <1>7, <1>8

(* A call is begun, and nothing else is changed. *)
LEMMA PushFields ==
  ASSUME NEW s \in States, NEW a \in Actor, NEW f \in CallFrame
  PROVE  LET r == Push(s, a, f)
             n == Len(s.stack[a]) + 1
         IN  /\ r \in States /\ StackOnly(s, r) /\ Agree(s.stack, r.stack, a, n)
             /\ Len(r.stack[a]) = n /\ r.stack[a] # <<>> /\ Top(r, a) = f
<1> DEFINE r == Push(s, a, f)
           n == Len(s.stack[a]) + 1
           q == Append(s.stack[a], f)
<1>1. s.stack \in [Actor -> Seq(CallFrame)] /\ n \in Nat \ {0} /\ Len(s.stack[a]) \in Nat
  BY Fields, Stacks
<1>2. /\ q \in Seq(CallFrame) /\ Len(q) = n /\ q[n] = f
      /\ \A j \in 1..Len(s.stack[a]) : q[j] = s.stack[a][j]
  BY <1>1, AppendProperties
<1> HIDE DEF q
<1>3. r = [s EXCEPT !.stack = [s.stack EXCEPT ![a] = q]]
  BY DEF Push, q
<1>4. r \in States /\ StackOnly(s, r) /\ r.stack = [s.stack EXCEPT ![a] = q]
  <2>1. [s.stack EXCEPT ![a] = q] \in [Actor -> Seq(CallFrame)]
    BY <1>1, <1>2
  <2> QED BY <1>3, <2>1, SetStack
<1>5. r.stack[a] = q /\ \A b \in Actor : b # a => r.stack[b] = s.stack[b]
  BY <1>1, <1>4
<1>6. Agree(s.stack, r.stack, a, n)
  BY <1>1, <1>2, <1>5 DEF Agree, Live
<1>7. Len(r.stack[a]) = n /\ Top(r, a) = f
  BY <1>1, <1>2, <1>5 DEF Top
<1>8. r.stack[a] # <<>>
  BY <1>1, <1>7, EmptySeq
<1> QED BY <1>4, <1>6, <1>7, <1>8

(* A call returns, and nothing else is changed. *)
LEMMA PopFields ==
  ASSUME NEW s \in States, NEW a \in Actor, s.stack[a] # <<>>
  PROVE  LET r == Pop(s, a)
             n == Len(s.stack[a])
         IN  /\ r \in States /\ StackOnly(s, r) /\ Agree(s.stack, r.stack, a, n)
             /\ Len(r.stack[a]) = n - 1
<1> DEFINE r == Pop(s, a)
           n == Len(s.stack[a])
           q == SubSeq(s.stack[a], 1, n - 1)
<1>1. s.stack \in [Actor -> Seq(CallFrame)] /\ n \in Nat \ {0}
      /\ \A i \in 1..n : s.stack[a][i] \in CallFrame
  BY Fields, TopFrame, Stacks DEF Live
<1>2. /\ q \in Seq(CallFrame) /\ Len(q) = n - 1
      /\ \A j \in 1..(n - 1) : q[j] = s.stack[a][j]
  <2>1. 1 \in Int /\ n - 1 \in Int /\ \A i \in 1..(n - 1) : s.stack[a][i] \in CallFrame
    BY <1>1
  <2>2. /\ q \in Seq(CallFrame) /\ Len(q) = IF 1 <= n - 1 THEN n - 1 - 1 + 1 ELSE 0
        /\ \A i \in 1..(n - 1 - 1 + 1) : q[i] = s.stack[a][1 + i - 1]
    BY <2>1, SubSeqProperties
  <2> QED BY <1>1, <2>2
<1> HIDE DEF q
<1>3. r = [s EXCEPT !.stack = [s.stack EXCEPT ![a] = q]]
  BY DEF Pop, q
<1>4. r \in States /\ StackOnly(s, r) /\ r.stack = [s.stack EXCEPT ![a] = q]
  <2>1. [s.stack EXCEPT ![a] = q] \in [Actor -> Seq(CallFrame)]
    BY <1>1, <1>2
  <2> QED BY <1>3, <2>1, SetStack
<1>5. r.stack[a] = q /\ \A b \in Actor : b # a => r.stack[b] = s.stack[b]
  BY <1>1, <1>4
<1>6. Agree(s.stack, r.stack, a, n)
  BY <1>1, <1>2, <1>5 DEF Agree, Live
<1> QED BY <1>2, <1>4, <1>5, <1>6

(* What the invariants of the devices depend on is left alone. *)
SameStatus(s, r) ==
  \A d \in Device : /\ r.dev[d].status = s.dev[d].status /\ r.dev[d].child_count = s.dev[d].child_count
                    /\ r.dev[d].disable_depth = s.dev[d].disable_depth /\ r.dev[d].idle = s.dev[d].idle

(* The n-th call of a is begun, changed or ended: what every part of the   *)
(* invariant needs of it.  The shape,                                      *)
LEMMA StepShape ==
  ASSUME NEW s \in States, NEW r \in States, NEW a \in Actor, NEW n \in Nat,
         Agree(s.stack, r.stack, a, n), Shape(s.stack), Len(r.stack[a]) <= n,
         Live(r.stack, a, n) => LET f == r.stack[a][n] IN
           /\ FrameOK(f) /\ (n = 1 => f.ret \in {"done", "get", "put"})
           /\ (n > 1 => Above(f, s.stack[a][n - 1]))
           /\ f.ret = "get" => a \in Task
  PROVE  Shape(r.stack)
<1> SUFFICES ASSUME NEW b \in Actor, NEW i \in Nat, Live(r.stack, b, i)
             PROVE  /\ FrameOK(r.stack[b][i])
                    /\ i = 1 => r.stack[b][i].ret \in {"done", "get", "put"}
                    /\ i > 1 => Above(r.stack[b][i], r.stack[b][i - 1])
                    /\ r.stack[b][i].ret = "get" => b \in Task
  BY DEF Shape
<1>1. Len(r.stack[b]) \in Nat /\ Len(r.stack[a]) \in Nat
  BY Fields, Stacks
<1>2. i > 1 => Live(r.stack, b, i - 1) /\ i - 1 \in Nat
  BY <1>1 DEF Live
<1>3. i > 1 => Live(s.stack, b, i - 1) /\ r.stack[b][i - 1] = s.stack[b][i - 1]
  <2>1. i > 1 => b # a \/ i - 1 # n
    BY <1>1 DEF Live
  <2> QED BY <1>2, <2>1 DEF Agree
<1>4. CASE b = a /\ i = n
  BY <1>3, <1>4
<1>5. CASE b # a \/ i # n
  <2>1. Live(s.stack, b, i) /\ r.stack[b][i] = s.stack[b][i]
    BY <1>5 DEF Agree
  <2> QED BY <1>3, <2>1 DEF Shape
<1> QED BY <1>4, <1>5

(* parents, *)
LEMMA StepParent ==
  ASSUME NEW s \in States, NEW r \in States, NEW a \in Actor, NEW n \in Nat,
         Agree(s.stack, r.stack, a, n), SameStatus(s, r), ParentInv(s),
         Live(r.stack, a, n) => ParentKept(s.dev, r.stack[a][n])
  PROVE  ParentInv(r)
<1>1. /\ \A d \in Device : d \notin Used => r.dev[d].disable_depth = 0
      /\ \A c \in Device : Parent[c] \in Device \ Used /\ r.dev[c].status # "SUSPENDED"
           => r.dev[Parent[c]].status = "ACTIVE"
  BY DEF ParentInv, SameStatus
<1>2. ASSUME NEW b \in Actor, NEW i \in Nat, Live(r.stack, b, i)
      PROVE  ParentKept(r.dev, r.stack[b][i])
  <2>1. ParentKept(s.dev, r.stack[b][i])
    <3>1. CASE b = a /\ i = n
      BY <1>2, <3>1
    <3>2. CASE b # a \/ i # n
      BY <1>2, <3>2 DEF Agree, ParentInv
    <3> QED BY <3>1, <3>2
  <2> QED BY <2>1 DEF ParentKept, SameStatus
<1> QED BY <1>1, <1>2 DEF ParentInv

(* promises, *)
LEMMA StepHeld ==
  ASSUME NEW s \in States, NEW r \in States, NEW a \in Actor, NEW n \in Nat,
         Agree(s.stack, r.stack, a, n), SameStatus(s, r), HeldInv(s), Shape(s.stack),
         \A t \in Task, d \in Device : r.ref[t][d] = "ok" => s.ref[t][d] = "ok" \/ s.dev[d].status = "ACTIVE",
         \A t \in Task, d \in Device : s.ref[t][d] # "no" /\ r.ref[t][d] = "no" => \A i \in Nat : ~Live(r.stack, t, i),
         Live(r.stack, a, n) => Promised(r, a, r.stack[a][n])
  PROVE  HeldInv(r)
<1>1. \A t \in Task, d \in Device : r.ref[t][d] = "ok" => r.dev[d].status = "ACTIVE"
  BY DEF HeldInv, SameStatus
<1>2. ASSUME NEW b \in Actor, NEW i \in Nat, Live(r.stack, b, i), b # a \/ i # n
      PROVE  Promised(r, b, r.stack[b][i])
  <2>1. Live(s.stack, b, i) /\ r.stack[b][i] = s.stack[b][i]
    BY <1>2 DEF Agree
  <2>2. r.stack[b][i].ret = "get" => b \in Task
    BY <2>1 DEF Shape
  <2>3. Promised(s, b, r.stack[b][i])
    BY <2>1 DEF HeldInv
  <2>4. r.stack[b][i] \in CallFrame /\ r.stack[b][i].dev \in Device
    BY <1>2, Fields, Stacks DEF CallFrame
  <2> QED BY <1>2, <2>2, <2>3, <2>4 DEF Promised, SameStatus
<1> QED BY <1>1, <1>2 DEF HeldInv

(* callbacks, *)
LEMMA StepChange ==
  ASSUME NEW s \in States, NEW r \in States, NEW a \in Actor, NEW n \in Nat,
         Agree(s.stack, r.stack, a, n), SameStatus(s, r), ChangeInv(s),
         \A fn \in {"suspend", "resume"}, d \in Device : RunBy(r.stack, fn, d, a, n) <=> RunBy(s.stack, fn, d, a, n)
  PROVE  ChangeInv(r)
<1>1. ASSUME NEW fn \in {"suspend", "resume"}, NEW d \in Device, NEW b \in Actor, NEW i \in Nat
      PROVE  RunBy(r.stack, fn, d, b, i) <=> RunBy(s.stack, fn, d, b, i)
  BY DEF Agree, RunBy
<1> QED BY <1>1 DEF ChangeInv, RunInv, SameStatus

(* sleepers, *)
LEMMA StepSleep ==
  ASSUME NEW s \in States, NEW r \in States, NEW a \in Actor, NEW n \in Nat, NEW Y,
         Agree(s.stack, r.stack, a, n), SameStatus(s, r), SleepInv(s, Y),
         \A d \in Device : s.lapsed[d] => r.lapsed[d],
         Live(r.stack, a, n) => r.stack[a][n].dev \in Y \/ Waits(r, r.stack[a][n])
  PROVE  SleepInv(r, Y)
<1> SUFFICES ASSUME NEW b \in Actor, NEW i \in Nat, Live(r.stack, b, i), b # a \/ i # n
             PROVE  r.stack[b][i].dev \in Y \/ Waits(r, r.stack[b][i])
  BY DEF SleepInv
<1>1. Live(s.stack, b, i) /\ r.stack[b][i] = s.stack[b][i]
  BY DEF Agree
<1>2. r.stack[b][i].dev \in Y \/ Waits(s, r.stack[b][i])
  BY <1>1 DEF SleepInv
<1>3. r.stack[b][i] \in CallFrame /\ r.stack[b][i].dev \in Device
  BY Fields, Stacks DEF CallFrame
<1> QED BY <1>2, <1>3 DEF Waits, AwaitsEnd, Quiet, SameStatus

(* disabled devices, *)
LEMMA StepDisabled ==
  ASSUME NEW s \in States, NEW r \in States, NEW a \in Actor, NEW n \in Nat, NEW X,
         Agree(s.stack, r.stack, a, n), SameStatus(s, r), DisabledInv(s, X),
         \A d \in Device \ X : s.dev[d].disable_depth > 0 =>
           /\ r.dev[d].timer = "off"
           /\ r.dev[d].pending => /\ s.dev[d].pending
                                  /\ Live(s.stack, a, n) /\ Cancels(s.stack[a][n], d)
                                       => Live(r.stack, a, n) /\ Cancels(r.stack[a][n], d)
           /\ ~Quiet(s.dev[d]) /\ Live(s.stack, a, n) /\ Flushes(s.stack[a][n], d)
                => Live(r.stack, a, n) /\ Flushes(r.stack[a][n], d)
  PROVE  DisabledInv(r, X)
<1> SUFFICES ASSUME NEW d \in Device \ X, r.dev[d].disable_depth > 0
             PROVE  /\ r.dev[d].timer = "off"
                    /\ r.dev[d].pending => Cancelling(r.stack, d)
                    /\ ~Quiet(r.dev[d]) => Flushing(r.stack, d)
  BY DEF DisabledInv
<1>1. s.dev[d].disable_depth > 0 /\ (Quiet(r.dev[d]) <=> Quiet(s.dev[d]))
  BY DEF SameStatus, Quiet
<1>2. ASSUME r.dev[d].pending PROVE Cancelling(r.stack, d)
  <2>1. PICK b \in Actor, i \in Nat : Live(s.stack, b, i) /\ Cancels(s.stack[b][i], d)
    BY <1>1, <1>2 DEF DisabledInv, Cancelling
  <2>2. Live(r.stack, b, i) /\ Cancels(r.stack[b][i], d)
    BY <1>1, <1>2, <2>1 DEF Agree
  <2> QED BY <2>2 DEF Cancelling
<1>3. ASSUME ~Quiet(r.dev[d]) PROVE Flushing(r.stack, d)
  <2>1. PICK b \in Actor, i \in Nat : Live(s.stack, b, i) /\ Flushes(s.stack[b][i], d)
    BY <1>1, <1>3 DEF DisabledInv, Flushing
  <2>2. Live(r.stack, b, i) /\ Flushes(r.stack[b][i], d)
    BY <1>1, <1>3, <2>1 DEF Agree
  <2> QED BY <2>2 DEF Flushing
<1> QED BY <1>1, <1>2, <1>3

(* requests, *)
LEMMA StepPending ==
  ASSUME NEW s \in States, NEW r \in States, NEW a \in Actor, NEW n \in Nat,
         Agree(s.stack, r.stack, a, n), PendingInv(s),
         \A d \in Device : r.dev[d].pending =>
           /\ s.dev[d].pending
           /\ s.work[d] => r.work[d] \/ Working(r.stack, d) \/ Cancelling(r.stack, d)
           /\ Live(s.stack, a, n) /\ Works(s.stack[a][n], d) => Live(r.stack, a, n) /\ Works(r.stack[a][n], d)
           /\ Live(s.stack, a, n) /\ Cancels(s.stack[a][n], d) => Live(r.stack, a, n) /\ Cancels(r.stack[a][n], d)
  PROVE  PendingInv(r)
<1> SUFFICES ASSUME NEW d \in Device, r.dev[d].pending
             PROVE  r.work[d] \/ Working(r.stack, d) \/ Cancelling(r.stack, d)
  BY DEF PendingInv
<1>1. CASE s.work[d]
  BY <1>1
<1>2. CASE Working(s.stack, d)
  <2>1. PICK b \in Actor, i \in Nat : Live(s.stack, b, i) /\ Works(s.stack[b][i], d)
    BY <1>2 DEF Working
  <2>2. Live(r.stack, b, i) /\ Works(r.stack[b][i], d)
    BY <2>1 DEF Agree
  <2> QED BY <2>2 DEF Working
<1>3. CASE Cancelling(s.stack, d)
  <2>1. PICK b \in Actor, i \in Nat : Live(s.stack, b, i) /\ Cancels(s.stack[b][i], d)
    BY <1>3 DEF Cancelling
  <2>2. Live(r.stack, b, i) /\ Cancels(r.stack[b][i], d)
    BY <2>1 DEF Agree
  <2> QED BY <2>2 DEF Cancelling
<1> QED BY <1>1, <1>2, <1>3 DEF PendingInv

(* and the count of children. *)
LEMMA StepChild ==
  ASSUME NEW s \in States, NEW r \in States, SameStatus(s, r), ChildInv(s)
  PROVE  ChildInv(r)
<1>1. \A d \in Device : Awake(r.dev, d) = Awake(s.dev, d)
  BY DEF Awake, SameStatus
<1> QED BY <1>1 DEF ChildInv, SameStatus

(* References. *)
LEMMA HoldAgree ==
  ASSUME NEW S, NEW R, NEW a \in Actor, NEW n \in Nat, NEW d, Agree(S, R, a, n)
  PROVE  \A x \in Actor \X Nat : x # <<a, n>> => (x \in HoldSet(S, d) <=> x \in HoldSet(R, d))
<1> SUFFICES ASSUME NEW b \in Actor, NEW i \in Nat, b # a \/ i # n
             PROVE  <<b, i>> \in HoldSet(S, d) <=> <<b, i>> \in HoldSet(R, d)
  OBVIOUS
<1> QED BY DEF HoldSet, Agree

(* Has the n-th call of a a reference to the device? *)
HeldAt(st, a, n, d) == Live(st, a, n) /\ Holds(st[a][n], d)

(* A step of one call takes at most one reference, or gives one back. *)
LEMMA HoldSets ==
  ASSUME NEW S, NEW R, NEW a \in Actor, NEW n \in Nat, NEW d, Agree(S, R, a, n)
  PROVE  /\ (HeldAt(S, a, n, d) <=> HeldAt(R, a, n, d)) => HoldSet(R, d) = HoldSet(S, d)
         /\ ~HeldAt(S, a, n, d) /\ HeldAt(R, a, n, d) =>
              <<a, n>> \notin HoldSet(S, d) /\ HoldSet(R, d) = HoldSet(S, d) \cup {<<a, n>>}
         /\ HeldAt(S, a, n, d) /\ ~HeldAt(R, a, n, d) =>
              <<a, n>> \in HoldSet(S, d) /\ HoldSet(R, d) = HoldSet(S, d) \ {<<a, n>>}
<1>1. <<a, n>> \in Actor \X Nat
  OBVIOUS
<1>2. /\ <<a, n>> \in HoldSet(S, d) <=> HeldAt(S, a, n, d)
      /\ <<a, n>> \in HoldSet(R, d) <=> HeldAt(R, a, n, d)
  BY DEF HoldSet, HeldAt
<1>3. HoldSet(S, d) \subseteq Actor \X Nat /\ HoldSet(R, d) \subseteq Actor \X Nat
  BY DEF HoldSet
<1>4. \A x \in Actor \X Nat : x # <<a, n>> => (x \in HoldSet(S, d) <=> x \in HoldSet(R, d))
  BY HoldAgree
<1> HIDE DEF HoldSet
<1> QED BY <1>1, <1>2, <1>3, <1>4

UsageOf(s, d) ==
  /\ IsFiniteSet(RefSet(s.ref, d)) /\ IsFiniteSet(HoldSet(s.stack, d))
  /\ s.dev[d].usage = Cardinality(RefSet(s.ref, d)) + Cardinality(HoldSet(s.stack, d))

(* The usage count, device by device. *)
LEMMA UsageParts == ASSUME NEW s PROVE UsageInv(s) <=> \A d \in Device : UsageOf(s, d)
BY DEF UsageInv, UsageOf

(* A reference of a call comes or goes with the count. *)
LEMMA StepUsage ==
  ASSUME NEW s \in States, NEW r \in States, NEW a \in Actor, NEW n \in Nat, NEW d \in Device,
         Agree(s.stack, r.stack, a, n), UsageOf(s, d), r.ref = s.ref,
         \/ (HeldAt(s.stack, a, n, d) <=> HeldAt(r.stack, a, n, d)) /\ r.dev[d].usage = s.dev[d].usage
         \/ ~HeldAt(s.stack, a, n, d) /\ HeldAt(r.stack, a, n, d) /\ r.dev[d].usage = s.dev[d].usage + 1
         \/ HeldAt(s.stack, a, n, d) /\ ~HeldAt(r.stack, a, n, d) /\ r.dev[d].usage = s.dev[d].usage - 1
  PROVE  UsageOf(r, d)
<1> DEFINE S == HoldSet(s.stack, d)
           R == HoldSet(r.stack, d)
<1>1. /\ IsFiniteSet(S) /\ Cardinality(S) \in Nat
      /\ IsFiniteSet(RefSet(s.ref, d)) /\ Cardinality(RefSet(s.ref, d)) \in Nat
  BY FS_CardinalityType DEF UsageOf
<1>2. CASE (HeldAt(s.stack, a, n, d) <=> HeldAt(r.stack, a, n, d)) /\ r.dev[d].usage = s.dev[d].usage
  BY <1>2, HoldSets DEF UsageOf
<1>3. CASE ~HeldAt(s.stack, a, n, d) /\ HeldAt(r.stack, a, n, d) /\ r.dev[d].usage = s.dev[d].usage + 1
  <2>1. <<a, n>> \notin S /\ R = S \cup {<<a, n>>}
    BY <1>3, HoldSets
  <2>2. PICK x : x = <<a, n>>
    OBVIOUS
  <2> HIDE DEF S, R
  <2>3. IsFiniteSet(R) /\ Cardinality(R) = Cardinality(S) + 1
    BY <1>1, <2>1, <2>2, FS_AddElement
  <2> QED BY <1>1, <1>3, <2>3 DEF UsageOf, S, R
<1>4. CASE HeldAt(s.stack, a, n, d) /\ ~HeldAt(r.stack, a, n, d) /\ r.dev[d].usage = s.dev[d].usage - 1
  <2>1. <<a, n>> \in S /\ R = S \ {<<a, n>>}
    BY <1>4, HoldSets
  <2>2. PICK x : x = <<a, n>>
    OBVIOUS
  <2> HIDE DEF S, R
  <2>3. IsFiniteSet(R) /\ Cardinality(R) = Cardinality(S) - 1
    BY <1>1, <2>1, <2>2, FS_RemoveElement
  <2> QED BY <1>1, <1>4, <2>3 DEF UsageOf, S, R
<1> QED BY <1>2, <1>3, <1>4

(* The references of a task. *)
LEMMA RefUsage ==
  ASSUME NEW s \in States, NEW r \in States, NEW t \in Task, NEW d \in Device,
         UsageOf(s, d), r.stack = s.stack,
         \A u \in Task : u # t => r.ref[u][d] = s.ref[u][d],
         \/ (s.ref[t][d] = "no" <=> r.ref[t][d] = "no") /\ r.dev[d].usage = s.dev[d].usage
         \/ s.ref[t][d] = "no" /\ r.ref[t][d] # "no" /\ r.dev[d].usage = s.dev[d].usage + 1
         \/ s.ref[t][d] # "no" /\ r.ref[t][d] = "no" /\ r.dev[d].usage = s.dev[d].usage - 1
  PROVE  UsageOf(r, d)
<1> DEFINE S == RefSet(s.ref, d)
           R == RefSet(r.ref, d)
<1>1. /\ IsFiniteSet(S) /\ Cardinality(S) \in Nat
      /\ IsFiniteSet(HoldSet(s.stack, d)) /\ Cardinality(HoldSet(s.stack, d)) \in Nat
  BY FS_CardinalityType DEF UsageOf
<1>2. CASE (s.ref[t][d] = "no" <=> r.ref[t][d] = "no") /\ r.dev[d].usage = s.dev[d].usage
  <2>1. R = S
    BY <1>2 DEF RefSet
  <2> QED BY <1>2, <2>1 DEF UsageOf
<1>3. CASE s.ref[t][d] = "no" /\ r.ref[t][d] # "no" /\ r.dev[d].usage = s.dev[d].usage + 1
  <2>1. t \notin S /\ R = S \cup {t}
    BY <1>3 DEF RefSet
  <2>2. IsFiniteSet(R) /\ Cardinality(R) = Cardinality(S) + 1
    BY <1>1, <2>1, FS_AddElement
  <2> QED BY <1>1, <1>3, <2>2 DEF UsageOf
<1>4. CASE s.ref[t][d] # "no" /\ r.ref[t][d] = "no" /\ r.dev[d].usage = s.dev[d].usage - 1
  <2>1. t \in S /\ R = S \ {t}
    BY <1>4 DEF RefSet
  <2>2. IsFiniteSet(R) /\ Cardinality(R) = Cardinality(S) - 1
    BY <1>1, <2>1, FS_RemoveElement
  <2> QED BY <1>1, <1>4, <2>2 DEF UsageOf
<1> QED BY <1>2, <1>3, <1>4

(* A device that a task or a call has a reference to is in use. *)
LEMMA InUse ==
  ASSUME NEW s \in States, UsageInv(s), NEW d \in Device
  PROVE  /\ \A t \in Task : s.ref[t][d] # "no" => s.dev[d].usage > 0
         /\ \A a \in Actor, i \in Nat : HeldAt(s.stack, a, i, d) => s.dev[d].usage > 0
<1>1. UsageOf(s, d) /\ s.dev[d].usage \in Nat
  BY UsageParts, Fields DEF Power
<1>2. /\ Cardinality(RefSet(s.ref, d)) \in Nat /\ Cardinality(HoldSet(s.stack, d)) \in Nat
      /\ RefSet(s.ref, d) # {} => Cardinality(RefSet(s.ref, d)) # 0
      /\ HoldSet(s.stack, d) # {} => Cardinality(HoldSet(s.stack, d)) # 0
  BY <1>1, FS_CardinalityType, FS_EmptySet DEF UsageOf
<1>3. \A t \in Task : s.ref[t][d] # "no" => RefSet(s.ref, d) # {}
  BY DEF RefSet
<1>4. \A a \in Actor, i \in Nat : HeldAt(s.stack, a, i, d) => <<a, i>> \in HoldSet(s.stack, d)
  BY DEF HoldSet, HeldAt
<1>5. \A a \in Actor, i \in Nat : HeldAt(s.stack, a, i, d) => HoldSet(s.stack, d) # {}
  BY <1>4
<1> QED BY <1>1, <1>2, <1>3, <1>5 DEF UsageOf

(* The parts of the invariant. *)
LEMMA Kind ==
  ASSUME NEW s, NEW X, NEW Y, RInv(s, X, Y)
  PROVE  /\ s \in States /\ Shape(s.stack) /\ UsageInv(s) /\ ChildInv(s) /\ ParentInv(s) /\ HeldInv(s)
         /\ DisabledInv(s, X) /\ ChangeInv(s) /\ PendingInv(s) /\ SleepInv(s, Y)
BY DEF RInv

(* Fields that no other part of the invariant depends on. *)
LEMMA MinorInv ==
  ASSUME NEW s \in States, NEW r \in States, NEW X, NEW Y, NEW a \in Actor, RInv(s, X, Y),
         r.stack = s.stack, r.ref = s.ref, r.work = s.work, SameStatus(s, r),
         \A d \in Device : s.lapsed[d] => r.lapsed[d],
         \A d \in Device : r.dev[d].usage = s.dev[d].usage,
         \A d \in Device : r.dev[d].pending => s.dev[d].pending,
         \A d \in Device \ X : s.dev[d].disable_depth > 0 => r.dev[d].timer = "off"
  PROVE  RInv(r, X, Y)
<1>1. 0 \in Nat /\ Agree(s.stack, r.stack, a, 0) /\ ~Live(s.stack, a, 0) /\ ~Live(r.stack, a, 0)
  BY DEF Agree, Live
<1>2. Shape(r.stack) /\ UsageInv(r)
  BY Kind DEF UsageInv
<1>3. ChildInv(r)
  BY Kind, StepChild
<1>4. ParentInv(r)
  BY <1>1, Kind, StepParent
<1>5. HeldInv(r)
  BY <1>1, Kind, StepHeld
<1>6. DisabledInv(r, X)
  BY <1>1, Kind, StepDisabled
<1>7. ChangeInv(r)
  BY Kind DEF ChangeInv, SameStatus
<1>8. PendingInv(r)
  BY <1>1, Kind, StepPending
<1>9. SleepInv(r, Y)
  BY <1>1, Kind, StepSleep
<1> QED BY <1>2, <1>3, <1>4, <1>5, <1>6, <1>7, <1>8, <1>9 DEF RInv

(* Everything but stacks and usage counts is left alone. *)
Rest(s, r) ==
  /\ SameStatus(s, r) /\ r.work = s.work /\ r.ref = s.ref /\ r.lapsed = s.lapsed
  /\ \A d \in Device : r.dev[d].timer = s.dev[d].timer /\ r.dev[d].pending = s.dev[d].pending

(* A stack changes at its top: what is asked of the new and of the old frame. *)
Old(s, r, X, a, n) ==
  LET g == s.stack[a][n]
      f == r.stack[a][n]
  IN  /\ s.dev[g.dev].pending /\ Works(g, g.dev) => Live(r.stack, a, n) /\ Works(f, g.dev)
      /\ s.dev[g.dev].pending /\ Cancels(g, g.dev) => Live(r.stack, a, n) /\ Cancels(f, g.dev)
      /\ ~Quiet(s.dev[g.dev]) /\ s.dev[g.dev].disable_depth > 0 /\ g.dev \notin X /\ Flushes(g, g.dev)
           => Live(r.stack, a, n) /\ Flushes(f, g.dev)

(* What a call that is new or changed has to meet. *)
New(s, a, Y, f) ==
  ParentKept(s.dev, f) /\ Promised(s, a, f) /\ (f.dev \in Y \/ Waits(s, f))

(* A call that runs a callback. *)
Transits(f) == f.fn \in {"suspend", "resume"} /\ f.pc = "callback"

(* The parts put together: one call is begun, changed or ended. *)
LEMMA Changing ==
  ASSUME NEW s, NEW X, NEW Y, RInv(s, X, Y), NEW r \in States, Rest(s, r), NEW a \in Actor, NEW n \in Nat,
         Agree(s.stack, r.stack, a, n), Shape(r.stack), UsageInv(r),
         Live(r.stack, a, n) => New(s, a, Y, r.stack[a][n]),
         Live(s.stack, a, n) => Old(s, r, X, a, n),
         \A fn \in {"suspend", "resume"}, d \in Device : RunBy(r.stack, fn, d, a, n) <=> RunBy(s.stack, fn, d, a, n)
  PROVE  RInv(r, X, Y)
<1>0. /\ s \in States /\ Shape(s.stack) /\ UsageInv(s) /\ ChildInv(s) /\ ParentInv(s) /\ HeldInv(s)
      /\ DisabledInv(s, X) /\ ChangeInv(s) /\ PendingInv(s) /\ SleepInv(s, Y) /\ SameStatus(s, r)
      /\ r.work = s.work /\ r.ref = s.ref /\ r.lapsed = s.lapsed
      /\ \A d \in Device : r.dev[d].timer = s.dev[d].timer /\ r.dev[d].pending = s.dev[d].pending
  BY Kind DEF Rest
<1>3. ChildInv(r)
  BY <1>0, StepChild
<1>4. ParentInv(r)
  <2>1. Live(r.stack, a, n) => ParentKept(s.dev, r.stack[a][n])
    BY DEF New
  <2> QED BY <1>0, <2>1, StepParent
<1>5. HeldInv(r)
  <2>1. Live(r.stack, a, n) => Promised(s, a, r.stack[a][n])
    BY DEF New
  <2>2. Live(r.stack, a, n) => r.stack[a][n].dev \in Device
    BY Fields, Stacks DEF CallFrame
  <2>3. Live(r.stack, a, n) => Promised(r, a, r.stack[a][n])
    BY <1>0, <2>1, <2>2 DEF Promised, SameStatus
  <2>4. /\ \A t \in Task, d \in Device : r.ref[t][d] = "ok" => s.ref[t][d] = "ok" \/ s.dev[d].status = "ACTIVE"
        /\ \A t \in Task, d \in Device : s.ref[t][d] # "no" /\ r.ref[t][d] = "no" => \A i \in Nat : ~Live(r.stack, t, i)
    BY <1>0
  <2> QED BY <1>0, <2>3, <2>4, StepHeld
<1>6. DisabledInv(r, X)
  <2> SUFFICES ASSUME NEW d \in Device \ X, s.dev[d].disable_depth > 0
               PROVE  /\ r.dev[d].timer = "off"
                      /\ r.dev[d].pending => /\ s.dev[d].pending
                                             /\ Live(s.stack, a, n) /\ Cancels(s.stack[a][n], d)
                                                  => Live(r.stack, a, n) /\ Cancels(r.stack[a][n], d)
                      /\ ~Quiet(s.dev[d]) /\ Live(s.stack, a, n) /\ Flushes(s.stack[a][n], d)
                           => Live(r.stack, a, n) /\ Flushes(r.stack[a][n], d)
    BY <1>0, StepDisabled
  <2>1. r.dev[d].timer = "off" /\ (r.dev[d].pending => s.dev[d].pending)
    BY <1>0 DEF DisabledInv
  <2>2. ASSUME Live(s.stack, a, n)
        PROVE  /\ s.dev[d].pending /\ Cancels(s.stack[a][n], d) => Live(r.stack, a, n) /\ Cancels(r.stack[a][n], d)
               /\ ~Quiet(s.dev[d]) /\ Flushes(s.stack[a][n], d) => Live(r.stack, a, n) /\ Flushes(r.stack[a][n], d)
    BY <2>2 DEF Old, Cancels, Flushes
  <2> QED BY <2>1, <2>2
<1>7. ChangeInv(r)
  BY <1>0, StepChange
<1>8. PendingInv(r)
  <2> SUFFICES ASSUME NEW d \in Device, r.dev[d].pending
               PROVE  /\ Live(s.stack, a, n) /\ Works(s.stack[a][n], d) => Live(r.stack, a, n) /\ Works(r.stack[a][n], d)
                      /\ Live(s.stack, a, n) /\ Cancels(s.stack[a][n], d) => Live(r.stack, a, n) /\ Cancels(r.stack[a][n], d)
    BY <1>0, StepPending
  <2>1. s.dev[d].pending
    BY <1>0
  <2> QED BY <2>1 DEF Old, Cancels, Works
<1>9. SleepInv(r, Y)
  <2>1. Live(r.stack, a, n) => r.stack[a][n].dev \in Y \/ Waits(s, r.stack[a][n])
    BY DEF New
  <2>2. Live(r.stack, a, n) => r.stack[a][n].dev \in Device
    BY Fields, Stacks DEF CallFrame
  <2>3. Live(r.stack, a, n) => r.stack[a][n].dev \in Y \/ Waits(r, r.stack[a][n])
    BY <1>0, <2>1, <2>2 DEF Waits, AwaitsEnd, Quiet, SameStatus
  <2> QED BY <1>0, <2>3, StepSleep
<1> QED BY <1>0, <1>3, <1>4, <1>5, <1>6, <1>7, <1>8, <1>9 DEF RInv

(* The frame on top goes on. *)
SameCall(g, f) == f.fn = g.fn /\ f.dev = g.dev /\ f.ret = g.ret

(* The innermost call goes on to another place. *)
LEMMA TopKeeps ==
  ASSUME NEW s, NEW X, NEW Y, RInv(s, X, Y), NEW r \in States, Rest(s, r), UsageInv(r),
         NEW a \in Actor, s.stack[a] # <<>>, NEW f \in CallFrame, r.stack = Retop(s, a, f).stack,
         SameCall(Top(s, a), f), FrameOK(f), New(s, a, Y, f),
         Transits(f) <=> Transits(Top(s, a)),
         f.fn = "barrier" => f.pc # "repeat" /\ (Cancels(Top(s, a), f.dev) => Cancels(f, f.dev) \/ ~s.dev[f.dev].pending)
  PROVE  RInv(r, X, Y)
<1> DEFINE n == Len(s.stack[a])
           g == Top(s, a)
<1>1. /\ s \in States /\ Shape(s.stack) /\ n \in Nat \ {0} /\ Live(s.stack, a, n) /\ s.stack[a][n] = g
      /\ g \in CallFrame
  BY Kind, TopFrame
<1>2. /\ Agree(s.stack, r.stack, a, n) /\ Len(r.stack[a]) = n /\ r.stack[a][n] = f /\ Live(r.stack, a, n)
  BY <1>1, RetopFields DEF Top, Live
<1> HIDE DEF n, g
<1>3. /\ n = 1 => g.ret \in {"done", "get", "put"}
      /\ n > 1 => Above(g, s.stack[a][n - 1])
      /\ g.ret = "get" => a \in Task
  BY <1>1 DEF Shape
<1>4. Shape(r.stack)
  <2>1. /\ n = 1 => f.ret \in {"done", "get", "put"}
        /\ n > 1 => Above(f, s.stack[a][n - 1])
        /\ f.ret = "get" => a \in Task
    BY <1>3 DEF SameCall, Above, g
  <2> QED BY <1>1, <1>2, <2>1, StepShape
<1>5. \A fn \in {"suspend", "resume"}, d \in Device : RunBy(r.stack, fn, d, a, n) <=> RunBy(s.stack, fn, d, a, n)
  BY <1>1, <1>2 DEF RunBy, Runs, SameCall, Transits, g
<1>6. Old(s, r, X, a, n)
  BY <1>1, <1>2 DEF Old, Works, Cancels, Flushes, SameCall, g
<1> QED BY <1>1, <1>2, <1>4, <1>5, <1>6, Changing

(* The frame on top is through. *)
LEMMA PopKeeps ==
  ASSUME NEW s, NEW X, NEW Y, RInv(s, X, Y), NEW r \in States, Rest(s, r), UsageInv(r),
         NEW a \in Actor, s.stack[a] # <<>>, r.stack = Pop(s, a).stack, NEW g, g = Top(s, a), ~Transits(g),
         g.fn = "work" => ~s.dev[g.dev].pending,
         g.fn = "barrier" /\ g.pc # "repeat" =>
           /\ g.pc \in {"cancel", "cancelled"} => ~s.dev[g.dev].pending
           /\ g.dev \in X \/ Quiet(s.dev[g.dev])
  PROVE  RInv(r, X, Y)
<1> DEFINE n == Len(s.stack[a])
<1>1. /\ s \in States /\ Shape(s.stack) /\ n \in Nat \ {0} /\ Live(s.stack, a, n) /\ s.stack[a][n] = g
      /\ g \in CallFrame
  BY Kind, TopFrame
<1>2. /\ Agree(s.stack, r.stack, a, n) /\ Len(r.stack[a]) = n - 1 /\ ~Live(r.stack, a, n)
  BY <1>1, PopFields DEF Live
<1> HIDE DEF n
<1>4. Shape(r.stack)
  <2>1. Len(r.stack[a]) <= n
    BY <1>1, <1>2
  <2> QED BY <1>1, <1>2, <2>1, StepShape
<1>5. \A fn \in {"suspend", "resume"}, d \in Device : RunBy(r.stack, fn, d, a, n) <=> RunBy(s.stack, fn, d, a, n)
  BY <1>1, <1>2 DEF RunBy, Runs, Transits
<1>6. Old(s, r, X, a, n)
  BY <1>1, <1>2 DEF Old, Works, Cancels, Flushes
<1> QED BY <1>1, <1>2, <1>4, <1>5, <1>6, Changing

(* A new call begins. *)
LEMMA PushKeeps ==
  ASSUME NEW s, NEW X, NEW Y, RInv(s, X, Y), NEW r \in States, Rest(s, r), UsageInv(r),
         NEW a \in Actor, NEW f \in CallFrame, r.stack = Push(s, a, f).stack,
         FrameOK(f), f.pc = "repeat", ~f.parent,
         s.stack[a] = <<>> => f.ret \in {"done", "get", "put"},
         s.stack[a] # <<>> => Above(f, Top(s, a)),
         f.ret = "get" => a \in Task /\ s.ref[a][f.dev] # "no"
  PROVE  RInv(r, X, Y)
<1> DEFINE n == Len(s.stack[a]) + 1
<1>1. /\ s \in States /\ Shape(s.stack) /\ Len(s.stack[a]) \in Nat /\ ~Live(s.stack, a, n) /\ n \in Nat
  BY Kind, Fields, Stacks DEF Live
<1>2. /\ Agree(s.stack, r.stack, a, n) /\ Len(r.stack[a]) = n /\ r.stack[a][n] = f /\ Live(r.stack, a, n)
  BY <1>1, PushFields DEF Top, Live
<1>3. /\ n = 1 => f.ret \in {"done", "get", "put"}
      /\ n > 1 => Above(f, s.stack[a][n - 1])
  <2>1. Len(s.stack[a]) = 0 <=> s.stack[a] = <<>>
    BY <1>1, Fields, Stacks, EmptySeq
  <2> QED BY <1>1, <2>1 DEF Top
<1> HIDE DEF n
<1>4. Shape(r.stack)
  BY <1>1, <1>2, <1>3, StepShape
<1>5. \A fn \in {"suspend", "resume"}, d \in Device : RunBy(r.stack, fn, d, a, n) <=> RunBy(s.stack, fn, d, a, n)
  BY <1>1, <1>2 DEF RunBy, Runs
<1>6. New(s, a, Y, f)
  BY DEF New, ParentKept, Promised, Waits
<1> QED BY <1>1, <1>2, <1>4, <1>5, <1>6, Changing

(* Usage counts are kept when no reference comes or goes. *)
LEMMA UsageKept ==
  ASSUME NEW s \in States, NEW r \in States, NEW a \in Actor, NEW n \in Nat, UsageInv(s),
         Agree(s.stack, r.stack, a, n), r.ref = s.ref,
         \A d \in Device : r.dev[d].usage = s.dev[d].usage,
         \A d \in Device : HeldAt(s.stack, a, n, d) <=> HeldAt(r.stack, a, n, d)
  PROVE  UsageInv(r)
<1> SUFFICES ASSUME NEW d \in Device PROVE UsageOf(r, d)
  BY UsageParts
<1>1. UsageOf(s, d) /\ r.dev[d].usage = s.dev[d].usage /\ (HeldAt(s.stack, a, n, d) <=> HeldAt(r.stack, a, n, d))
  BY UsageParts
<1> QED BY <1>1, StepUsage

(* A change of stacks leaves the rest alone. *)
LEMMA StackRest ==
  ASSUME NEW s, NEW r, StackOnly(s, r) PROVE Rest(s, r)
BY DEF StackOnly, Rest, SameStatus

(* A call at another place. *)
LEMMA Moved ==
  ASSUME NEW g \in CallFrame, NEW pc \in Places
  PROVE  LET f == [g EXCEPT !.pc = pc]
         IN  /\ f \in CallFrame /\ f.fn = g.fn /\ f.dev = g.dev /\ f.flags = g.flags /\ f.ret = g.ret
             /\ f.parent = g.parent /\ f.pc = pc
BY DEF CallFrame

(* The innermost call is now at pc. *)
AtDone(s, r, a, pc) ==
  LET f == Top(r, a)
      g == Top(s, a)
  IN  /\ r \in States /\ StackOnly(s, r) /\ r.stack[a] # <<>> /\ Len(r.stack[a]) = Len(s.stack[a])
      /\ Agree(s.stack, r.stack, a, Len(s.stack[a]))
      /\ f \in CallFrame /\ f.fn = g.fn /\ f.dev = g.dev /\ f.flags = g.flags /\ f.ret = g.ret
      /\ f.parent = g.parent /\ f.pc = pc

(* At() moves the innermost call. *)
LEMMA AtFields ==
  ASSUME NEW s \in States, NEW a \in Actor, s.stack[a] # <<>>, NEW pc \in Places
  PROVE  AtDone(s, At(s, a, pc), a, pc)
<1>0. PICK r : r = At(s, a, pc)
  OBVIOUS
<1>1. Top(s, a) \in CallFrame
  BY TopFrame
<1>2. [Top(s, a) EXCEPT !.pc = pc] \in CallFrame
  BY <1>1, Moved
<1>3. /\ r \in States /\ StackOnly(s, r) /\ r.stack[a] # <<>> /\ Len(r.stack[a]) = Len(s.stack[a])
      /\ Agree(s.stack, r.stack, a, Len(s.stack[a]))
      /\ Top(r, a) = [Top(s, a) EXCEPT !.pc = pc]
  BY <1>0, <1>2, RetopFields DEF At
<1>4. LET f == Top(r, a)
          g == Top(s, a)
      IN  /\ f \in CallFrame /\ f.fn = g.fn /\ f.dev = g.dev /\ f.flags = g.flags /\ f.ret = g.ret
          /\ f.parent = g.parent /\ f.pc = pc
  BY <1>1, <1>3, Moved
<1>5. AtDone(s, r, a, pc)
  BY <1>3, <1>4 DEF AtDone
<1> QED BY <1>0, <1>5

(* The call on top goes on to another place. *)
LEMMA AtInv ==
  ASSUME NEW s, NEW X, NEW Y, RInv(s, X, Y), NEW a \in Actor, s.stack[a] # <<>>, NEW pc \in Places,
         NEW g, g = Top(s, a), NEW f, f = [g EXCEPT !.pc = pc],
         FrameOK(f), ParentKept(s.dev, f), Promised(s, a, f), g.dev \in Y \/ Waits(s, f),
         g.fn \in {"suspend", "resume"} => pc # "callback" /\ g.pc # "callback",
         g.fn = "barrier" => pc # "repeat" /\ (g.pc \in {"cancel", "cancelled"} /\ s.dev[g.dev].pending
                                                 => pc \in {"cancel", "cancelled"})
  PROVE  RInv(At(s, a, pc), X, Y)
<1> DEFINE r == At(s, a, pc)
           n == Len(s.stack[a])
<1>1. s \in States /\ UsageInv(s)
  BY Kind
<1>2. g \in CallFrame /\ n \in Nat \ {0} /\ Live(s.stack, a, n) /\ s.stack[a][n] = g
  BY <1>1, TopFrame
<1>3. /\ f \in CallFrame /\ f.fn = g.fn /\ f.dev = g.dev /\ f.flags = g.flags /\ f.ret = g.ret
      /\ f.parent = g.parent /\ f.pc = pc
  BY <1>2, Moved
<1>4. /\ r \in States /\ StackOnly(s, r) /\ r.stack[a] # <<>> /\ Len(r.stack[a]) = n
      /\ Agree(s.stack, r.stack, a, n) /\ Top(r, a) = f
  BY <1>1, <1>3, RetopFields DEF At
<1>5. Live(r.stack, a, n) /\ r.stack[a][n] = f
  BY <1>2, <1>4 DEF Live, Top
<1> HIDE DEF n
<1>6. UsageInv(r)
  <2>1. \A d \in Device : HeldAt(s.stack, a, n, d) <=> HeldAt(r.stack, a, n, d)
    BY <1>2, <1>3, <1>5 DEF HeldAt, Holds
  <2>2. \A d \in Device : r.dev[d].usage = s.dev[d].usage
    BY <1>4 DEF StackOnly
  <2> QED BY <1>1, <1>2, <1>4, <2>1, <2>2, UsageKept DEF StackOnly
<1>7. New(s, a, Y, f) /\ SameCall(Top(s, a), f) /\ (Transits(f) <=> Transits(Top(s, a)))
  BY <1>3 DEF New, SameCall, Transits
<1>8. r.stack = Retop(s, a, f).stack
  BY DEF At
<1>9. f.fn = "barrier" => f.pc # "repeat" /\ (Cancels(Top(s, a), f.dev) => Cancels(f, f.dev) \/ ~s.dev[f.dev].pending)
  BY <1>3 DEF Cancels
<1>10. Rest(s, r)
  BY <1>4, StackRest
<1> HIDE DEF r
<1> QED BY <1>1, <1>3, <1>4, <1>6, <1>7, <1>8, <1>9, <1>10, TopKeeps DEF r

(* A call that holds nothing returns. *)
LEMMA PopInv ==
  ASSUME NEW s, NEW X, NEW Y, RInv(s, X, Y), NEW a \in Actor, s.stack[a] # <<>>, NEW g, g = Top(s, a),
         ~Transits(g), g.fn = "work" => ~s.dev[g.dev].pending,
         g.fn = "barrier" => /\ g.ret # "put"
                             /\ g.pc \in {"cancel", "cancelled"} => ~s.dev[g.dev].pending
                             /\ g.pc # "repeat" => g.dev \in X \/ Quiet(s.dev[g.dev]),
         g.fn = "resume" => ~g.parent /\ g.ret # "disable"
  PROVE  RInv(Pop(s, a), X, Y)
<1> DEFINE r == Pop(s, a)
           n == Len(s.stack[a])
<1>1. s \in States /\ UsageInv(s)
  BY Kind
<1>2. n \in Nat \ {0} /\ Live(s.stack, a, n) /\ s.stack[a][n] = g
  BY <1>1, TopFrame
<1>3. /\ r \in States /\ StackOnly(s, r) /\ Len(r.stack[a]) = n - 1 /\ Agree(s.stack, r.stack, a, n)
  BY <1>1, PopFields
<1>4. ~Live(r.stack, a, n)
  BY <1>2, <1>3 DEF Live
<1> HIDE DEF n
<1>5. UsageInv(r)
  <2>1. \A d \in Device : HeldAt(s.stack, a, n, d) <=> HeldAt(r.stack, a, n, d)
    BY <1>2, <1>4 DEF HeldAt, Holds
  <2>2. \A d \in Device : r.dev[d].usage = s.dev[d].usage
    BY <1>3 DEF StackOnly
  <2> QED BY <1>1, <1>2, <1>3, <2>1, <2>2, UsageKept DEF StackOnly
<1>6. Rest(s, r)
  BY <1>3, StackRest
<1> QED BY <1>1, <1>3, <1>5, <1>6, PopKeeps

(* A call that holds nothing is begun. *)
LEMMA PushInv ==
  ASSUME NEW s, NEW X, NEW Y, RInv(s, X, Y), NEW a \in Actor, NEW f \in CallFrame,
         FrameOK(f), f.pc = "repeat", ~f.parent,
         s.stack[a] = <<>> => f.ret \in {"done", "get", "put"},
         s.stack[a] # <<>> => Above(f, Top(s, a)),
         f.ret = "get" => a \in Task /\ s.ref[a][f.dev] # "no",
         f.fn = "barrier" => f.ret # "put", f.fn = "resume" => f.ret # "disable"
  PROVE  RInv(Push(s, a, f), X, Y)
<1> DEFINE r == Push(s, a, f)
           n == Len(s.stack[a]) + 1
<1>1. /\ s \in States /\ UsageInv(s) /\ Len(s.stack[a]) \in Nat /\ ~Live(s.stack, a, n) /\ n \in Nat
  BY Kind, Fields, Stacks DEF Live
<1>2. /\ r \in States /\ StackOnly(s, r) /\ Len(r.stack[a]) = n /\ Agree(s.stack, r.stack, a, n)
      /\ r.stack[a][n] = f
  BY <1>1, PushFields DEF Top
<1> HIDE DEF n
<1>5. UsageInv(r)
  <2>1. \A d \in Device : HeldAt(s.stack, a, n, d) <=> HeldAt(r.stack, a, n, d)
    BY <1>1, <1>2 DEF HeldAt, Holds
  <2>2. \A d \in Device : r.dev[d].usage = s.dev[d].usage
    BY <1>2 DEF StackOnly
  <2> QED BY <1>1, <1>2, <2>1, <2>2, UsageKept DEF StackOnly
<1>6. Rest(s, r)
  BY <1>2, StackRest
<1> QED BY <1>1, <1>2, <1>5, <1>6, PushKeeps

(* Only dev->power of d is changed. *)
DevOnly(s, r, d) ==
  /\ r \in States /\ r.stack = s.stack /\ r.work = s.work /\ r.ref = s.ref /\ r.lapsed = s.lapsed
  /\ \A e \in Device : e # d => r.dev[e] = s.dev[e]

(* With() changes one device. *)
LEMMA DevSet ==
  ASSUME NEW s \in States, NEW d \in Device, NEW p \in Power
  PROVE  DevOnly(s, With(s, d, p), d) /\ With(s, d, p).dev[d] = p
<1> DEFINE r == With(s, d, p)
           D == [s.dev EXCEPT ![d] = p]
<1>1. D \in [Device -> Power] /\ D[d] = p /\ \A e \in Device : e # d => D[e] = s.dev[e]
  BY Fields
<1> HIDE DEF D
<1>2. r = [s EXCEPT !.dev = D]
  BY DEF D, With
<1>3. r \in States /\ r.dev = D /\ r.stack = s.stack /\ r.work = s.work /\ r.ref = s.ref /\ r.lapsed = s.lapsed
  BY <1>1, <1>2 DEF States
<1> QED BY <1>1, <1>3 DEF DevOnly

(* The fields of a device that others depend on; a minor change leaves     *)
(* them alone.                                                             *)
Major(p, q) == q.status = p.status /\ q.child_count = p.child_count /\ q.disable_depth = p.disable_depth
               /\ q.idle = p.idle /\ q.usage = p.usage

Minor(s, r, d) == DevOnly(s, r, d) /\ Major(s.dev[d], r.dev[d])

(* A minor change keeps the invariant, if it makes no request and sets no  *)
(* timer on a disabled device.                                             *)
LEMMA MinorDev ==
  ASSUME NEW s, NEW r, NEW X, NEW Y, RInv(s, X, Y), NEW d \in Device, Minor(s, r, d),
         r.dev[d].pending => s.dev[d].pending,
         d \notin X /\ s.dev[d].disable_depth > 0 => r.dev[d].timer \in {"off", s.dev[d].timer}
  PROVE  RInv(r, X, Y)
<1>1. s \in States /\ r \in States /\ worker(d) \in Actor /\ DisabledInv(s, X)
  BY Kind DEF Minor, DevOnly, Actor
<1>2. r.stack = s.stack /\ r.ref = s.ref /\ r.work = s.work /\ \A e \in Device : s.lapsed[e] => r.lapsed[e]
  BY DEF Minor, DevOnly
<1>3. SameStatus(s, r) /\ \A e \in Device : r.dev[e].usage = s.dev[e].usage
  BY DEF Minor, DevOnly, Major, SameStatus
<1>4. \A e \in Device : r.dev[e].pending => s.dev[e].pending
  BY DEF Minor, DevOnly
<1>5. \A e \in Device \ X : s.dev[e].disable_depth > 0 => r.dev[e].timer = "off"
  BY <1>1 DEF Minor, DevOnly, DisabledInv
<1> QED BY <1>1, <1>2, <1>3, <1>4, <1>5, MinorInv

(* When With() is a minor change. *)
LEMMA MinorSet ==
  ASSUME NEW s \in States, NEW d \in Device, NEW p \in Power, Major(s.dev[d], p)
  PROVE  Minor(s, With(s, d, p), d) /\ With(s, d, p).dev[d] = p
BY DevSet DEF Minor

(* The updates of single fields. *)
LEMMA Requests ==
  ASSUME NEW s \in States, NEW d \in Device
  PROVE  /\ Minor(s, request_none(s, d), d)
         /\ request_none(s, d).dev[d].pending = s.dev[d].pending
         /\ request_none(s, d).dev[d].timer = s.dev[d].timer
<1>1. PICK p : p = [s.dev[d] EXCEPT !.request = "NONE"]
  OBVIOUS
<1>0. s.dev[d] \in Power
  BY Fields
<1>2. p \in Power /\ Major(s.dev[d], p) /\ p.pending = s.dev[d].pending /\ p.timer = s.dev[d].timer
  BY <1>0, <1>1 DEF Power, Major
<1>3. request_none(s, d) = With(s, d, p)
  BY <1>1 DEF request_none
<1> QED BY <1>2, <1>3, MinorSet

(* pm_runtime_deactivate_timer() is a minor change, *)
LEMMA Timers ==
  ASSUME NEW s \in States, NEW d \in Device
  PROVE  /\ Minor(s, pm_runtime_deactivate_timer(s, d), d)
         /\ pm_runtime_deactivate_timer(s, d).dev[d].pending = s.dev[d].pending
         /\ pm_runtime_deactivate_timer(s, d).dev[d].timer = "off"
<1>1. PICK p : p = [s.dev[d] EXCEPT !.timer = "off"]
  OBVIOUS
<1>0. s.dev[d] \in Power
  BY Fields
<1>2. p \in Power /\ Major(s.dev[d], p) /\ p.pending = s.dev[d].pending /\ p.timer = "off"
  BY <1>0, <1>1 DEF Power, Major
<1>3. pm_runtime_deactivate_timer(s, d) = With(s, d, p)
  BY <1>1 DEF pm_runtime_deactivate_timer
<1> QED BY <1>2, <1>3, MinorSet

(* and so is pm_runtime_cancel_pending(). *)
LEMMA Cancelled ==
  ASSUME NEW s \in States, NEW d \in Device
  PROVE  /\ Minor(s, pm_runtime_cancel_pending(s, d), d)
         /\ pm_runtime_cancel_pending(s, d).dev[d].pending = s.dev[d].pending
         /\ pm_runtime_cancel_pending(s, d).dev[d].timer = "off"
<1>1. PICK p : p = [s.dev[d] EXCEPT !.timer = "off", !.request = "NONE"]
  OBVIOUS
<1>0. s.dev[d] \in Power
  BY Fields
<1>2. p \in Power /\ Major(s.dev[d], p) /\ p.pending = s.dev[d].pending /\ p.timer = "off"
  BY <1>0, <1>1 DEF Power, Major
<1>3. pm_runtime_cancel_pending(s, d) = With(s, d, p)
  BY <1>1 DEF pm_runtime_cancel_pending
<1> QED BY <1>2, <1>3, MinorSet

(* A request is queued: its item is on the queue, or somebody who has      *)
(* grabbed the item will clear it.                                         *)
Queued(s, r, d) ==
  /\ r \in States /\ r.stack = s.stack /\ r.ref = s.ref /\ r.lapsed = s.lapsed
  /\ \A e \in Device : e # d => r.dev[e] = s.dev[e] /\ r.work[e] = s.work[e]
  /\ Major(s.dev[d], r.dev[d]) /\ r.dev[d].pending /\ r.dev[d].timer = s.dev[d].timer
  /\ r.work[d] <=> s.work[d] \/ (~s.dev[d].pending /\ ~Grabbed(s, d))

(* What queue_request() does. *)
LEMMA QueueFields ==
  ASSUME NEW s \in States, NEW d \in Device,
         NEW rq \in {"NONE", "IDLE", "SUSPEND", "AUTOSUSPEND", "RESUME"}
  PROVE  Queued(s, queue_request(s, d, rq), d)
<1> DEFINE r == queue_request(s, d, rq)
           W == [s.work EXCEPT ![d] = @ \/ (~s.dev[d].pending /\ ~Grabbed(s, d))]
<1>1. PICK p : p = [s.dev[d] EXCEPT !.request = rq, !.pending = TRUE]
  OBVIOUS
<1>0. s.dev[d] \in Power
  BY Fields
<1>2. p \in Power /\ Major(s.dev[d], p) /\ p.pending /\ p.timer = s.dev[d].timer
  BY <1>0, <1>1 DEF Power, Major
<1>3. PICK q : q = With(s, d, p)
  OBVIOUS
<1>4. /\ q \in States /\ q.stack = s.stack /\ q.work = s.work /\ q.ref = s.ref /\ q.lapsed = s.lapsed
      /\ q.dev[d] = p /\ \A e \in Device : e # d => q.dev[e] = s.dev[e]
  BY <1>2, <1>3, MinorSet DEF Minor, DevOnly
<1>5. /\ W \in [Device -> BOOLEAN] /\ W[d] = (s.work[d] \/ (~s.dev[d].pending /\ ~Grabbed(s, d)))
      /\ \A e \in Device : e # d => W[e] = s.work[e]
  BY Fields
<1>6. r = [q EXCEPT !.work = W]
  BY <1>1, <1>3, <1>4 DEF queue_request
<1> HIDE DEF r, W
<1>7. r \in States /\ r.stack = q.stack /\ r.work = W /\ r.ref = q.ref /\ r.lapsed = q.lapsed /\ r.dev = q.dev
  BY <1>4, <1>5, <1>6 DEF States
<1>8. r.work[d] <=> s.work[d] \/ (~s.dev[d].pending /\ ~Grabbed(s, d))
  BY <1>5, <1>7
<1>9. \A e \in Device : e # d => r.dev[e] = s.dev[e] /\ r.work[e] = s.work[e]
  BY <1>4, <1>5, <1>7
<1> QED BY <1>2, <1>4, <1>7, <1>8, <1>9 DEF r, Queued

(* Who keeps the work item to itself is cancelling it. *)
LEMMA GrabbedIsCancelling ==
  ASSUME NEW s \in States, Shape(s.stack), NEW d \in Device, Grabbed(s, d)
  PROVE  Cancelling(s.stack, d)
<1>1. PICK a \in Actor : \E i \in DOMAIN s.stack[a] : s.stack[a][i].dev = d /\ s.stack[a][i].pc = "cancelled"
  BY DEF Grabbed
<1>2. PICK i \in DOMAIN s.stack[a] : s.stack[a][i].dev = d /\ s.stack[a][i].pc = "cancelled"
  BY <1>1
<1>3. i \in Nat /\ Live(s.stack, a, i)
  BY Fields, Stacks, LenProperties DEF Live
<1>4. FrameOK(s.stack[a][i]) /\ s.stack[a][i] \in CallFrame
  BY <1>3, Fields, Stacks DEF Shape
<1>5. s.stack[a][i].fn = "barrier"
  BY <1>2, <1>4 DEF FrameOK, CallFrame
<1> QED BY <1>2, <1>3, <1>5 DEF Cancelling, Cancels

(* A request is queued only while the device is enabled, and then somebody *)
(* will see to it.                                                         *)
LEMMA QueueInv ==
  ASSUME NEW s, NEW X, NEW Y, RInv(s, X, Y), NEW d \in Device, s.dev[d].disable_depth = 0,
         NEW rq \in {"NONE", "IDLE", "SUSPEND", "AUTOSUSPEND", "RESUME"}
  PROVE  RInv(queue_request(s, d, rq), X, Y)
<1>0. PICK r : r = queue_request(s, d, rq)
  OBVIOUS
<1>1. /\ s \in States /\ Shape(s.stack) /\ UsageInv(s) /\ ChildInv(s) /\ ParentInv(s) /\ HeldInv(s)
      /\ DisabledInv(s, X) /\ ChangeInv(s) /\ PendingInv(s) /\ SleepInv(s, Y) /\ worker(d) \in Actor
  BY Kind DEF Actor
<1>2. /\ r \in States /\ r.stack = s.stack /\ r.ref = s.ref /\ r.lapsed = s.lapsed
      /\ \A e \in Device : e # d => r.dev[e] = s.dev[e] /\ r.work[e] = s.work[e]
      /\ Major(s.dev[d], r.dev[d]) /\ r.dev[d].pending /\ r.dev[d].timer = s.dev[d].timer
      /\ r.work[d] <=> s.work[d] \/ (~s.dev[d].pending /\ ~Grabbed(s, d))
  <2>1. Queued(s, r, d)
    BY <1>0, <1>1, QueueFields
  <2> QED BY <2>1 DEF Queued
<1>3. 0 \in Nat /\ Agree(s.stack, r.stack, worker(d), 0) /\ ~Live(s.stack, worker(d), 0) /\ ~Live(r.stack, worker(d), 0)
  BY <1>2 DEF Agree, Live
<1>4. SameStatus(s, r) /\ \A e \in Device : r.dev[e].usage = s.dev[e].usage
  BY <1>2 DEF Major, SameStatus
<1>5. UsageInv(r) /\ ChangeInv(r)
  BY <1>1, <1>2, <1>4 DEF UsageInv, ChangeInv, SameStatus
<1>6. ChildInv(r)
  BY <1>1, <1>2, <1>4, StepChild
<1>7. ParentInv(r)
  BY <1>1, <1>2, <1>3, <1>4, StepParent
<1>8. HeldInv(r)
  BY <1>1, <1>2, <1>3, <1>4, StepHeld
<1>9. DisabledInv(r, X)
  <2> SUFFICES ASSUME NEW e \in Device \ X, r.dev[e].disable_depth > 0
               PROVE  /\ r.dev[e].timer = "off"
                      /\ r.dev[e].pending => Cancelling(r.stack, e)
                      /\ ~Quiet(r.dev[e]) => Flushing(r.stack, e)
    BY DEF DisabledInv
  <2>1. e # d
    BY <1>4 DEF SameStatus
  <2> QED BY <1>1, <1>2, <2>1 DEF DisabledInv
<1>10. PendingInv(r)
  <2> SUFFICES ASSUME NEW e \in Device, r.dev[e].pending
               PROVE  r.work[e] \/ Working(r.stack, e) \/ Cancelling(r.stack, e)
    BY DEF PendingInv
  <2>1. CASE e # d
    BY <1>1, <1>2, <2>1 DEF PendingInv
  <2>2. CASE e = d
    BY <1>1, <1>2, <2>2, GrabbedIsCancelling DEF PendingInv
  <2> QED BY <2>1, <2>2
<1>11. SleepInv(r, Y)
  BY <1>1, <1>2, <1>3, <1>4, StepSleep
<1> QED BY <1>0, <1>1, <1>2, <1>5, <1>6, <1>7, <1>8, <1>9, <1>10, <1>11 DEF RInv

(* What rpm_idle_async() leaves alone. *)
IdleAsync(s, r, d) ==
  /\ r \in States /\ r.stack = s.stack /\ r.ref = s.ref /\ r.lapsed = s.lapsed
  /\ \A e \in Device : e # d => r.dev[e] = s.dev[e]
  /\ Major(s.dev[d], r.dev[d]) /\ r.dev[d].timer = s.dev[d].timer

(* An asynchronous rpm_idle() keeps the invariant. *)
LEMMA IdleInv ==
  ASSUME NEW s, NEW X, NEW Y, RInv(s, X, Y), NEW d \in Device
  PROVE  RInv(rpm_idle_async(s, d), X, Y) /\ IdleAsync(s, rpm_idle_async(s, d), d)
<1>1. s \in States /\ s.dev[d].disable_depth \in Nat
  BY Kind, Fields DEF Power
<1>2. CASE rpm_idle_allowed(s.dev[d])
  <2>1. s.dev[d].disable_depth = 0
    BY <1>1, <1>2 DEF rpm_idle_allowed, rpm_check_suspend_allowed
  <2>2. rpm_idle_async(s, d) = queue_request(s, d, "IDLE")
    BY <1>2 DEF rpm_idle_async
  <2>3. PICK r : r = queue_request(s, d, "IDLE")
    OBVIOUS
  <2>4. IdleAsync(s, r, d)
    <3>1. Queued(s, r, d)
      BY <1>1, <2>3, QueueFields
    <3> QED BY <3>1 DEF IdleAsync, Queued
  <2> QED BY <2>1, <2>2, <2>3, <2>4, QueueInv
<1>3. CASE ~rpm_idle_allowed(s.dev[d])
  BY <1>1, <1>3 DEF rpm_idle_async, IdleAsync, Major
<1> QED BY <1>2, <1>3

(* The sleepers of a device are woken. *)
SameBut(g, f, d) ==
  /\ SameCall(g, f) /\ f.flags = g.flags /\ f.parent = g.parent
  /\ \/ f.pc = g.pc
     \/ g.pc = "sleep" /\ f.pc = "woken" /\ g.dev = d

(* What wake_up_all() does. *)
Woken(s, r, d) ==
  /\ r \in States /\ r.dev = s.dev /\ r.work = s.work /\ r.ref = s.ref
  /\ \A e \in Device : e # d => r.lapsed[e] = s.lapsed[e]
  /\ \A a \in Actor : Len(r.stack[a]) = Len(s.stack[a])
  /\ \A a \in Actor, i \in Nat : Live(r.stack, a, i) <=> Live(s.stack, a, i)
  /\ \A a \in Actor, i \in Nat : Live(s.stack, a, i) => SameBut(s.stack[a][i], r.stack[a][i], d)
  /\ \A a \in Actor : s.stack[a] # <<>> => ~(Top(r, a).dev = d /\ Top(r, a).pc = "sleep")
  /\ \A a \in Actor : s.stack[a] # <<>> /\ Top(s, a).pc # "sleep" => r.stack[a] = s.stack[a]

(* wake_up_all() does it. *)
LEMMA WakeFields ==
  ASSUME NEW s \in States, NEW d \in Device
  PROVE  Woken(s, wake_up_all(s, d), d)
<1> DEFINE r == wake_up_all(s, d)
           sleeps(a) == s.stack[a] # <<>> /\ Top(s, a).dev = d /\ Top(s, a).pc = "sleep"
           L == [s.lapsed EXCEPT ![d] = FALSE]
           S == [a \in Actor |-> IF sleeps(a) THEN At(s, a, "woken").stack[a] ELSE s.stack[a]]
<1>1. \A e \in Device : e # d => L[e] = s.lapsed[e]
  BY Fields
<1>2. L \in [Device -> BOOLEAN]
  BY Fields
<1>3. ASSUME NEW a \in Actor
      PROVE  S[a] \in Seq(CallFrame)
  <2>1. s.stack[a] \in Seq(CallFrame)
    BY Fields
  <2>2. sleeps(a) => At(s, a, "woken").stack[a] \in Seq(CallFrame)
    <3>1. "woken" \in Places
      BY DEF Places
    <3>2. sleeps(a) => At(s, a, "woken") \in States
      BY <3>1, AtFields DEF AtDone
    <3> QED BY <3>2, Fields
  <2> QED BY <2>1, <2>2
<1>4. S \in [Actor -> Seq(CallFrame)]
  BY <1>3
<1>5. \A a \in Actor : S[a] = IF sleeps(a) THEN At(s, a, "woken").stack[a] ELSE s.stack[a]
  OBVIOUS
<1>6. r = [s EXCEPT !.lapsed = L, !.stack = S]
  BY DEF wake_up_all
<1> HIDE DEF r, L, S
<1>7. r \in States /\ r.dev = s.dev /\ r.work = s.work /\ r.ref = s.ref /\ r.lapsed = L /\ r.stack = S
  BY <1>2, <1>4, <1>6 DEF States
<1>8. ASSUME NEW a \in Actor, sleeps(a)
      PROVE  /\ Len(r.stack[a]) = Len(s.stack[a])
             /\ \A i \in Nat : Live(r.stack, a, i) <=> Live(s.stack, a, i)
             /\ \A i \in Nat : Live(s.stack, a, i) => SameBut(s.stack[a][i], r.stack[a][i], d)
             /\ ~(Top(r, a).dev = d /\ Top(r, a).pc = "sleep")
  <2>1. PICK q : q = At(s, a, "woken")
    OBVIOUS
  <2>2. /\ q \in States /\ q.stack[a] # <<>> /\ Len(q.stack[a]) = Len(s.stack[a])
        /\ Agree(s.stack, q.stack, a, Len(s.stack[a])) /\ SameBut(Top(s, a), Top(q, a), d) /\ Top(q, a).pc = "woken"
    <3>1. AtDone(s, q, a, "woken")
      BY <1>8, <2>1, AtFields DEF Places
    <3> QED BY <1>8, <3>1 DEF AtDone, SameBut, SameCall
  <2>3. r.stack[a] = q.stack[a]
    BY <1>5, <1>7, <1>8, <2>1
  <2>4. Len(s.stack[a]) \in Nat \ {0} /\ Live(s.stack, a, Len(s.stack[a]))
    BY <1>8, TopFrame
  <2>5. \A i \in Nat : Live(s.stack, a, i) /\ i # Len(s.stack[a]) => q.stack[a][i] = s.stack[a][i]
    BY <2>2 DEF Agree
  <2>6. \A i \in Nat : Live(s.stack, a, i) => SameBut(s.stack[a][i], q.stack[a][i], d)
    BY <2>2, <2>5 DEF SameBut, SameCall, Top
  <2>7. Top(r, a) = Top(q, a) /\ Len(r.stack[a]) = Len(s.stack[a])
    BY <2>2, <2>3 DEF Top
  <2>8. \A i \in Nat : Live(r.stack, a, i) <=> Live(s.stack, a, i)
    BY <2>7 DEF Live
  <2> QED BY <2>2, <2>3, <2>6, <2>7, <2>8
<1>9. ASSUME NEW a \in Actor, ~sleeps(a)
      PROVE  /\ r.stack[a] = s.stack[a] /\ Len(r.stack[a]) = Len(s.stack[a])
             /\ \A i \in Nat : Live(r.stack, a, i) <=> Live(s.stack, a, i)
             /\ \A i \in Nat : Live(s.stack, a, i) => SameBut(s.stack[a][i], r.stack[a][i], d)
             /\ s.stack[a] # <<>> => ~(Top(r, a).dev = d /\ Top(r, a).pc = "sleep")
  BY <1>5, <1>7, <1>9 DEF Live, SameBut, SameCall, Top
<1>10. \A e \in Device : e # d => r.lapsed[e] = s.lapsed[e]
  BY <1>1, <1>7
<1>11. /\ \A a \in Actor : Len(r.stack[a]) = Len(s.stack[a])
       /\ \A a \in Actor, i \in Nat : Live(r.stack, a, i) <=> Live(s.stack, a, i)
       /\ \A a \in Actor, i \in Nat : Live(s.stack, a, i) => SameBut(s.stack[a][i], r.stack[a][i], d)
  BY <1>8, <1>9
<1>12. /\ \A a \in Actor : s.stack[a] # <<>> => ~(Top(r, a).dev = d /\ Top(r, a).pc = "sleep")
       /\ \A a \in Actor : s.stack[a] # <<>> /\ Top(s, a).pc # "sleep" => r.stack[a] = s.stack[a]
  BY <1>8, <1>9
<1> QED BY <1>7, <1>10, <1>11, <1>12 DEF Woken, r

(* A call that is woken keeps its references and duties. *)
LEMMA WokenFrame ==
  ASSUME NEW g, NEW f, NEW d, SameBut(g, f, d)
  PROVE  /\ \A e : Holds(g, e) <=> Holds(f, e)
         /\ \A e : Works(g, e) => Works(f, e)
         /\ \A e : Cancels(g, e) => Cancels(f, e)
         /\ \A e : Flushes(g, e) => Flushes(f, e)
         /\ \A dv : ParentKept(dv, g) => ParentKept(dv, f)
<1>1. f.fn = g.fn /\ f.dev = g.dev /\ f.ret = g.ret /\ f.parent = g.parent
      /\ (f.pc = g.pc \/ (g.pc = "sleep" /\ f.pc = "woken"))
  BY DEF SameBut, SameCall
<1>2. \A e : Holds(g, e) <=> Holds(f, e)
  BY <1>1 DEF Holds
<1>3. \A e : (Works(g, e) => Works(f, e)) /\ (Cancels(g, e) => Cancels(f, e)) /\ (Flushes(g, e) => Flushes(f, e))
  BY <1>1 DEF Works, Cancels, Flushes
<1>4. \A dv : ParentKept(dv, g) => ParentKept(dv, f)
  BY <1>1 DEF ParentKept
<1> QED BY <1>2, <1>3, <1>4

(* After wake_up_all() nobody sleeps for this device without a reason. *)
LEMMA WakeInv ==
  ASSUME NEW s, NEW X, NEW Y, RInv(s, X, Y), NEW d \in Device
  PROVE  RInv(wake_up_all(s, d), X, Y \ {d})
<1>0. PICK r : r = wake_up_all(s, d)
  OBVIOUS
<1>1. /\ s \in States /\ Shape(s.stack) /\ UsageInv(s) /\ ChildInv(s) /\ ParentInv(s) /\ HeldInv(s)
      /\ DisabledInv(s, X) /\ ChangeInv(s) /\ PendingInv(s) /\ SleepInv(s, Y)
  BY Kind
<1>2. Woken(s, r, d)
  BY <1>0, <1>1, WakeFields
<1>3. /\ r \in States /\ r.dev = s.dev /\ r.work = s.work /\ r.ref = s.ref
      /\ \A e \in Device : e # d => r.lapsed[e] = s.lapsed[e]
      /\ \A a \in Actor : Len(r.stack[a]) = Len(s.stack[a])
      /\ \A a \in Actor, i \in Nat : Live(r.stack, a, i) <=> Live(s.stack, a, i)
      /\ \A a \in Actor, i \in Nat : Live(s.stack, a, i) => SameBut(s.stack[a][i], r.stack[a][i], d)
      /\ \A a \in Actor : s.stack[a] # <<>> => ~(Top(r, a).dev = d /\ Top(r, a).pc = "sleep")
  BY <1>2 DEF Woken
<1>4. Shape(r.stack)
  <2> SUFFICES ASSUME NEW a \in Actor, NEW i \in Nat, Live(r.stack, a, i)
               PROVE  /\ FrameOK(r.stack[a][i])
                      /\ i = 1 => r.stack[a][i].ret \in {"done", "get", "put"}
                      /\ i > 1 => Above(r.stack[a][i], r.stack[a][i - 1])
                      /\ r.stack[a][i].ret = "get" => a \in Task
    BY DEF Shape
  <2>1. /\ Live(s.stack, a, i) /\ SameBut(s.stack[a][i], r.stack[a][i], d) /\ s.stack[a][i] \in CallFrame
        /\ Len(s.stack[a]) \in Nat
    BY <1>1, <1>3, Fields, Stacks
  <2>2. /\ FrameOK(s.stack[a][i])
        /\ i = 1 => s.stack[a][i].ret \in {"done", "get", "put"}
        /\ i > 1 => Above(s.stack[a][i], s.stack[a][i - 1])
        /\ s.stack[a][i].ret = "get" => a \in Task
    BY <1>1, <2>1 DEF Shape
  <2>3. FrameOK(r.stack[a][i])
    BY <2>1, <2>2 DEF FrameOK, SameBut, SameCall, CallFrame
  <2>4. i > 1 => Above(r.stack[a][i], r.stack[a][i - 1])
    <3>1. i > 1 => i - 1 \in Nat /\ Live(s.stack, a, i - 1)
      BY <2>1 DEF Live
    <3>2. i > 1 => SameBut(s.stack[a][i - 1], r.stack[a][i - 1], d)
      BY <1>3, <3>1
    <3> QED BY <2>1, <2>2, <3>2 DEF Above, SameBut, SameCall
  <2> QED BY <2>1, <2>2, <2>3, <2>4 DEF SameBut, SameCall
<1>5. UsageInv(r)
  <2>1. ASSUME NEW e \in Device, NEW a \in Actor, NEW i \in Nat
        PROVE  <<a, i>> \in HoldSet(r.stack, e) <=> <<a, i>> \in HoldSet(s.stack, e)
    <3>1. Live(s.stack, a, i) => (Holds(s.stack[a][i], e) <=> Holds(r.stack[a][i], e))
      BY <1>3, WokenFrame
    <3> QED BY <1>3, <3>1 DEF HoldSet
  <2>2. \A e \in Device : HoldSet(r.stack, e) \subseteq Actor \X Nat /\ HoldSet(s.stack, e) \subseteq Actor \X Nat
    BY DEF HoldSet
  <2>3. \A e \in Device : HoldSet(r.stack, e) = HoldSet(s.stack, e)
    <3> TAKE e \in Device
    <3>1. PICK A, B : A = HoldSet(r.stack, e) /\ B = HoldSet(s.stack, e)
      OBVIOUS
    <3>2. \A a \in Actor, i \in Nat : <<a, i>> \in A <=> <<a, i>> \in B
      BY <2>1, <3>1
    <3>3. A \subseteq Actor \X Nat /\ B \subseteq Actor \X Nat
      BY <2>2, <3>1
    <3>4. A = B
      BY <3>2, <3>3
    <3> QED BY <3>1, <3>4
  <2> QED BY <1>1, <1>3, <2>3 DEF UsageInv
<1>6. ChildInv(r)
  BY <1>1, <1>3 DEF ChildInv
<1>7. ParentInv(r)
  <2>1. \A a \in Actor, i \in Nat : Live(r.stack, a, i) => ParentKept(r.dev, r.stack[a][i])
    BY <1>1, <1>3, WokenFrame DEF ParentInv
  <2> QED BY <1>1, <1>3, <2>1 DEF ParentInv
<1>8. HeldInv(r)
  <2>1. \A a \in Actor, i \in Nat : Live(r.stack, a, i) => Promised(r, a, r.stack[a][i])
    BY <1>1, <1>3 DEF HeldInv, Promised, SameBut, SameCall
  <2> QED BY <1>1, <1>3, <2>1 DEF HeldInv
<1>9. \A e \in Device : /\ Cancelling(s.stack, e) => Cancelling(r.stack, e)
                        /\ Flushing(s.stack, e) => Flushing(r.stack, e)
                        /\ Working(s.stack, e) => Working(r.stack, e)
  <2>1. \A a \in Actor, i \in Nat, e \in Device : Live(s.stack, a, i) =>
          /\ Live(r.stack, a, i)
          /\ Cancels(s.stack[a][i], e) => Cancels(r.stack[a][i], e)
          /\ Flushes(s.stack[a][i], e) => Flushes(r.stack[a][i], e)
          /\ Works(s.stack[a][i], e) => Works(r.stack[a][i], e)
    <3> TAKE a \in Actor, i \in Nat, e \in Device
    <3> HAVE Live(s.stack, a, i)
    <3>1. SameBut(s.stack[a][i], r.stack[a][i], d) /\ Live(r.stack, a, i)
      BY <1>3
    <3>2. Cancels(s.stack[a][i], e) => Cancels(r.stack[a][i], e)
      BY <3>1, WokenFrame
    <3>3. Flushes(s.stack[a][i], e) => Flushes(r.stack[a][i], e)
      BY <3>1, WokenFrame
    <3>4. Works(s.stack[a][i], e) => Works(r.stack[a][i], e)
      BY <3>1, WokenFrame
    <3> QED BY <3>1, <3>2, <3>3, <3>4
  <2> QED BY <2>1 DEF Cancelling, Flushing, Working
<1>10. DisabledInv(r, X)
  BY <1>1, <1>3, <1>9 DEF DisabledInv
<1>11. PendingInv(r)
  BY <1>1, <1>3, <1>9 DEF PendingInv
<1>12. ChangeInv(r)
  <2>1. \A fn \in {"suspend", "resume"}, e \in Device, a \in Actor, i \in Nat :
          RunBy(r.stack, fn, e, a, i) <=> RunBy(s.stack, fn, e, a, i)
    BY <1>3 DEF RunBy, Runs, SameBut, SameCall
  <2> QED BY <1>1, <1>3, <2>1 DEF ChangeInv, RunInv
<1>13. SleepInv(r, Y \ {d})
  <2> SUFFICES ASSUME NEW a \in Actor, NEW i \in Nat, Live(r.stack, a, i), r.stack[a][i].pc = "sleep"
               PROVE  r.stack[a][i].dev \in Y \ {d} \/ Waits(r, r.stack[a][i])
    BY DEF SleepInv, Waits
  <2>1. /\ Live(s.stack, a, i) /\ SameBut(s.stack[a][i], r.stack[a][i], d) /\ s.stack[a][i] \in CallFrame
        /\ r.stack[a][i] \in CallFrame /\ Len(s.stack[a]) \in Nat
    BY <1>1, <1>3, Fields, Stacks
  <2>2. s.stack[a][i].pc = "sleep" /\ s.stack[a][i].dev = r.stack[a][i].dev
    BY <2>1 DEF SameBut, SameCall
  <2>3. i = Len(s.stack[a])
    <3> SUFFICES ASSUME i # Len(s.stack[a]) PROVE FALSE
      OBVIOUS
    <3>1. i + 1 \in Nat /\ Live(s.stack, a, i + 1) /\ i + 1 > 1 /\ i + 1 - 1 = i
      BY <2>1 DEF Live
    <3>2. Above(s.stack[a][i + 1], s.stack[a][i])
      BY <1>1, <3>1 DEF Shape
    <3> QED BY <2>2, <3>2 DEF Above
  <2>4. s.stack[a] # <<>> /\ Top(r, a) = r.stack[a][i]
    BY <1>1, <1>3, <2>1, <2>3, Fields, Stacks DEF Top
  <2>5. r.stack[a][i].dev # d /\ r.stack[a][i].dev \in Device
    BY <1>3, <2>1, <2>4 DEF CallFrame
  <2>6. s.stack[a][i].dev \in Y \/ Waits(s, s.stack[a][i])
    BY <1>1, <2>1 DEF SleepInv
  <2> QED BY <1>3, <2>1, <2>2, <2>5, <2>6 DEF Waits, AwaitsEnd, SameBut, SameCall
<1> QED BY <1>0, <1>3, <1>4, <1>5, <1>6, <1>7, <1>8, <1>10, <1>11, <1>12, <1>13 DEF RInv

(* There are finitely many children. *)
LEMMA AwakeFinite ==
  ASSUME NEW dv, NEW d
  PROVE  IsFiniteSet(Awake(dv, d)) /\ Cardinality(Awake(dv, d)) \in Nat
<1>1. IsFiniteSet(Device) /\ Awake(dv, d) \in SUBSET Device
  BY DeviceAssumption DEF Awake
<1> QED BY <1>1, FS_Subset, FS_CardinalityType

(* A device that is not used and has no active child has no child that is  *)
(* not suspended, for a child that resumes holds a reference.              *)
LEMMA NoChildren ==
  ASSUME NEW s, NEW X, NEW Y, RInv(s, X, Y), NEW d \in Device, s.dev[d].usage = 0, s.dev[d].child_count = 0
  PROVE  \A c \in Device : Parent[c] = d => s.dev[c].status = "SUSPENDED"
<1> SUFFICES ASSUME NEW c \in Device, Parent[c] = d, s.dev[c].status # "SUSPENDED"
             PROVE  FALSE
  OBVIOUS
<1>1. s \in States /\ Shape(s.stack) /\ UsageInv(s) /\ ChildInv(s) /\ ChangeInv(s)
  BY Kind
<1>2. Awake(s.dev, d) = {}
  <2>1. Cardinality(Awake(s.dev, d)) = 0
    BY <1>1 DEF ChildInv
  <2> QED BY <2>1, AwakeFinite, FS_EmptySet
<1>3. s.dev[c].status = "RESUMING"
  <2>1. s.dev[c].status \in {"ACTIVE", "RESUMING", "SUSPENDED", "SUSPENDING"}
    BY <1>1, Fields DEF Power
  <2>2. c \notin Awake(s.dev, d)
    BY <1>2
  <2> QED BY <2>1, <2>2 DEF Awake
<1>4. PICK a \in Actor, i \in Nat : RunBy(s.stack, "resume", c, a, i)
  BY <1>1, <1>3 DEF ChangeInv, RunInv
<1>5. HeldAt(s.stack, a, i, d)
  <2>1. Live(s.stack, a, i) /\ FrameOK(s.stack[a][i])
    BY <1>1, <1>4 DEF RunBy, Shape
  <2>2. s.stack[a][i].parent
    BY <1>4, <2>1, DeviceAssumption DEF FrameOK, RunBy, Runs
  <2> QED BY <1>4, <2>1, <2>2 DEF RunBy, Runs, HeldAt, Holds
<1> QED BY <1>1, <1>5, InUse

(* What a change of the status of one device leaves alone. *)
Turned(s, r, d) ==
  /\ r \in States /\ r.work = s.work /\ r.ref = s.ref /\ r.lapsed = s.lapsed
  /\ \A e \in Device : /\ r.dev[e].usage = s.dev[e].usage /\ r.dev[e].disable_depth = s.dev[e].disable_depth
                       /\ r.dev[e].idle = s.dev[e].idle /\ r.dev[e].pending = s.dev[e].pending
                       /\ r.dev[e].timer \in {"off", s.dev[e].timer}
                       /\ e # d => r.dev[e].status = s.dev[e].status

(* The status of a device is changed by the call that has the right to:    *)
(* the invariant, from what changes of the counts and callbacks.           *)
LEMMA Turn ==
  ASSUME NEW s, NEW X, NEW Y, RInv(s, X, Y), NEW r, NEW d \in Device, Turned(s, r, d), NEW a \in Actor, NEW n \in Nat,
         n = Len(s.stack[a]), s.stack[a] # <<>>, Agree(s.stack, r.stack, a, n), Len(r.stack[a]) = n,
         NEW g, g = Top(s, a), NEW f, f = Top(r, a), SameCall(g, f), f.parent = g.parent, g.fn \in {"suspend", "resume"},
         FrameOK(f), f.pc \in {"callback", "returned"}, g.dev = d,
         s.dev[d].status # "ACTIVE" \/ (s.dev[d].usage = 0 /\ s.dev[d].child_count = 0),
         \/ s.dev[d].status # "SUSPENDED"
         \/ r.dev[d].status = "SUSPENDED"
         \/ Parent[d] \notin Device \ Used
         \/ s.dev[Parent[d]].status = "ACTIVE",
         ParentKept(s.dev, f),
         d \in Y \/ s.dev[d].status \in {"ACTIVE", "SUSPENDED"},
         s.dev[d].disable_depth = 0 \/ s.dev[d].status \in {"RESUMING", "SUSPENDING"},
         ChildInv(r), ChangeInv(r)
  PROVE  RInv(r, X, Y)
<1>1. /\ s \in States /\ Shape(s.stack) /\ UsageInv(s) /\ ChildInv(s) /\ ParentInv(s) /\ HeldInv(s)
      /\ DisabledInv(s, X) /\ PendingInv(s) /\ SleepInv(s, Y) /\ ChangeInv(s)
  BY Kind
<1>2. /\ r \in States /\ r.work = s.work /\ r.ref = s.ref /\ r.lapsed = s.lapsed
      /\ \A e \in Device : /\ r.dev[e].usage = s.dev[e].usage /\ r.dev[e].disable_depth = s.dev[e].disable_depth
                           /\ r.dev[e].idle = s.dev[e].idle /\ r.dev[e].pending = s.dev[e].pending
                           /\ r.dev[e].timer \in {"off", s.dev[e].timer}
                           /\ e # d => r.dev[e].status = s.dev[e].status
  BY DEF Turned
<1>3. /\ n \in Nat \ {0} /\ Live(s.stack, a, n) /\ s.stack[a][n] = g /\ g \in CallFrame
      /\ Live(r.stack, a, n) /\ r.stack[a][n] = f /\ f \in CallFrame
  <2>1. n \in Nat \ {0} /\ Live(s.stack, a, n) /\ s.stack[a][n] = g /\ g \in CallFrame
    BY <1>1, TopFrame
  <2>2. Live(r.stack, a, n) /\ r.stack[a][n] = f
    BY <2>1 DEF Live, Top
  <2> QED BY <1>2, <2>1, <2>2, Fields, Stacks
<1>4. Shape(r.stack)
  <2>1. /\ n = 1 => g.ret \in {"done", "get", "put"}
        /\ n > 1 => Above(g, s.stack[a][n - 1])
        /\ g.ret = "get" => a \in Task
    BY <1>1, <1>3 DEF Shape
  <2>2. /\ n = 1 => f.ret \in {"done", "get", "put"}
        /\ n > 1 => Above(f, s.stack[a][n - 1])
        /\ f.ret = "get" => a \in Task
    BY <2>1 DEF SameCall, Above
  <2>3. Len(r.stack[a]) <= n
    BY <1>3
  <2> QED BY <1>1, <1>2, <1>3, <2>2, <2>3, StepShape
<1>5. UsageInv(r)
  <2>1. \A e \in Device : HeldAt(s.stack, a, n, e) <=> HeldAt(r.stack, a, n, e)
    BY <1>3 DEF HeldAt, Holds, SameCall
  <2> QED BY <1>1, <1>2, <2>1, UsageKept
<1>6. \A c \in Device : d \notin Used /\ Parent[c] = d => s.dev[c].status = "SUSPENDED" \/ r.dev[d].status = "ACTIVE"
  <2>1. CASE s.dev[d].status # "ACTIVE"
    BY <1>1, <2>1 DEF ParentInv
  <2>2. CASE s.dev[d].usage = 0 /\ s.dev[d].child_count = 0
    BY <2>2, NoChildren
  <2> QED BY <2>1, <2>2
<1>7. ASSUME NEW b \in Actor, NEW i \in Nat, Live(s.stack, b, i), s.stack[b][i].fn = "resume", s.stack[b][i].parent,
             Parent[s.stack[b][i].dev] = d, d \notin Used, s.stack[b][i].pc \in {"repeat", "sleep", "woken", "callback"}
      PROVE  FALSE
  <2>1. CASE s.dev[d].status # "ACTIVE"
    BY <1>1, <1>7, <2>1 DEF ParentInv, ParentKept
  <2>2. CASE s.dev[d].usage = 0
    <3>1. HeldAt(s.stack, b, i, d)
      BY <1>7 DEF HeldAt, Holds
    <3> QED BY <1>1, <2>2, <3>1, InUse
  <2> QED BY <2>1, <2>2
<1>8. ParentInv(r)
  <2>1. \A e \in Device : e \notin Used => r.dev[e].disable_depth = 0
    BY <1>1, <1>2 DEF ParentInv
  <2>2. ASSUME NEW c \in Device, Parent[c] \in Device \ Used, r.dev[c].status # "SUSPENDED"
        PROVE  r.dev[Parent[c]].status = "ACTIVE"
    <3>1. Parent[c] # c
      BY ParentAssumption
    <3>2. CASE c = d
      <4>1. s.dev[Parent[d]].status = "ACTIVE"
        BY <1>1, <2>2, <3>2 DEF ParentInv
      <4> QED BY <1>2, <2>2, <3>1, <3>2, <4>1
    <3>3. CASE c # d
      <4>1. s.dev[c].status # "SUSPENDED"
        BY <1>2, <2>2, <3>3
      <4>2. CASE Parent[c] = d
        BY <1>6, <2>2, <4>1, <4>2
      <4>3. CASE Parent[c] # d
        BY <1>1, <1>2, <2>2, <4>1, <4>3 DEF ParentInv
      <4> QED BY <4>2, <4>3
    <3> QED BY <3>2, <3>3
  <2>3. ASSUME NEW b \in Actor, NEW i \in Nat, Live(r.stack, b, i)
        PROVE  ParentKept(r.dev, r.stack[b][i])
    <3>1. CASE b = a /\ i = n
      <4>1. f.dev = d /\ Parent[d] # d
        BY ParentAssumption DEF SameCall
      <4>2. r.stack[b][i] = f
        BY <1>3, <3>1
      <4> QED BY <1>2, <4>1, <4>2 DEF ParentKept
    <3>2. CASE b # a \/ i # n
      <4>1. Live(s.stack, b, i) /\ r.stack[b][i] = s.stack[b][i]
        BY <2>3, <3>2 DEF Agree
      <4>2. FrameOK(s.stack[b][i]) /\ ParentKept(s.dev, s.stack[b][i]) /\ s.stack[b][i] \in CallFrame
        BY <1>1, <4>1, Fields, Stacks DEF Shape, ParentInv
      <4>3. s.stack[b][i].parent => s.stack[b][i].fn = "resume"
        BY <4>2 DEF FrameOK
      <4> QED BY <1>2, <1>7, <4>1, <4>2, <4>3 DEF ParentKept
    <3> QED BY <3>1, <3>2
  <2> QED BY <2>1, <2>2, <2>3 DEF ParentInv
<1>9. s.dev[d].status = "ACTIVE" => \A t \in Task : s.ref[t][d] = "no"
  BY <1>1, InUse
<1>10. HeldInv(r)
  <2>1. \A t \in Task, e \in Device : r.ref[t][e] = "ok" => r.dev[e].status = "ACTIVE"
    BY <1>1, <1>2, <1>9 DEF HeldInv
  <2>2. ASSUME NEW b \in Actor, NEW i \in Nat, Live(r.stack, b, i)
        PROVE  Promised(r, b, r.stack[b][i])
    <3>1. CASE b = a /\ i = n
      <4>1. Promised(s, a, g)
        BY <1>1, <1>3 DEF HeldInv
      <4> QED BY <1>2, <1>3, <3>1, <4>1 DEF Promised, SameCall
    <3>2. CASE b # a \/ i # n
      <4>1. Live(s.stack, b, i) /\ r.stack[b][i] = s.stack[b][i]
        BY <2>2, <3>2 DEF Agree
      <4>2. Promised(s, b, r.stack[b][i]) /\ r.stack[b][i].dev \in Device /\ (r.stack[b][i].ret = "get" => b \in Task)
        BY <1>1, <4>1, Fields, Stacks DEF Shape, HeldInv, CallFrame
      <4> QED BY <1>2, <1>9, <4>1, <4>2 DEF Promised
    <3> QED BY <3>1, <3>2
  <2> QED BY <2>1, <2>2 DEF HeldInv
<1>11. \A e \in Device : /\ Cancelling(s.stack, e) => Cancelling(r.stack, e)
                         /\ Flushing(s.stack, e) => Flushing(r.stack, e)
                         /\ Working(s.stack, e) => Working(r.stack, e)
  <2>1. \A b \in Actor, i \in Nat : Live(s.stack, b, i) /\ s.stack[b][i].fn \notin {"suspend", "resume"} =>
          Live(r.stack, b, i) /\ r.stack[b][i] = s.stack[b][i]
    BY <1>3 DEF Agree
  <2> QED BY <2>1 DEF Cancelling, Flushing, Working, Cancels, Flushes, Works
<1>12. DisabledInv(r, X)
  <2> SUFFICES ASSUME NEW e \in Device \ X, r.dev[e].disable_depth > 0
               PROVE  /\ r.dev[e].timer = "off"
                      /\ r.dev[e].pending => Cancelling(r.stack, e)
                      /\ ~Quiet(r.dev[e]) => Flushing(r.stack, e)
    BY DEF DisabledInv
  <2>1. s.dev[e].disable_depth > 0
    BY <1>2
  <2>2. ~Quiet(r.dev[e]) => ~Quiet(s.dev[e])
    <3>1. CASE e = d
      BY <2>1, <3>1 DEF Quiet
    <3>2. CASE e # d
      BY <1>2, <3>2 DEF Quiet
    <3> QED BY <3>1, <3>2
  <2> QED BY <1>1, <1>2, <1>11, <2>1, <2>2 DEF DisabledInv
<1>13. PendingInv(r)
  BY <1>1, <1>2, <1>11 DEF PendingInv
<1>14. SleepInv(r, Y)
  <2> SUFFICES ASSUME NEW b \in Actor, NEW i \in Nat, Live(r.stack, b, i), r.stack[b][i].pc = "sleep"
               PROVE  r.stack[b][i].dev \in Y \/ Waits(r, r.stack[b][i])
    BY DEF SleepInv, Waits
  <2>1. b # a \/ i # n
    BY <1>3
  <2>2. Live(s.stack, b, i) /\ r.stack[b][i] = s.stack[b][i]
    BY <2>1 DEF Agree
  <2>3. r.stack[b][i].dev \in Y \/ Waits(s, r.stack[b][i])
    BY <1>1, <2>2 DEF SleepInv
  <2>4. r.stack[b][i].dev \in Device
    BY <1>2, Fields, Stacks DEF CallFrame
  <2>5. CASE r.stack[b][i].dev # d
    BY <1>2, <2>3, <2>4, <2>5 DEF Waits, AwaitsEnd, Quiet
  <2>6. CASE r.stack[b][i].dev = d
    BY <1>2, <2>3, <2>6 DEF Waits, AwaitsEnd, Quiet
  <2> QED BY <2>5, <2>6
<1> QED BY <1>2, <1>4, <1>5, <1>8, <1>10, <1>12, <1>13, <1>14 DEF RInv

(* The status while a callback is running. *)
Changes(fn) == IF fn = "suspend" THEN "SUSPENDING" ELSE "RESUMING"

(* The callbacks, function by function. *)
LEMMA ChangeParts ==
  ASSUME NEW s
  PROVE  ChangeInv(s) <=> \A fn \in {"suspend", "resume"}, d \in Device :
           /\ s.dev[d].status = Changes(fn) <=> \E a \in Actor, i \in Nat : RunBy(s.stack, fn, d, a, i)
           /\ \A a, b \in Actor, i, j \in Nat :
                RunBy(s.stack, fn, d, a, i) /\ RunBy(s.stack, fn, d, b, j) => a = b /\ i = j
BY DEF ChangeInv, RunInv, Changes

(* A callback begins. *)
LEMMA BeginChange ==
  ASSUME NEW s \in States, NEW r \in States, NEW a \in Actor, NEW n \in Nat, NEW d \in Device, NEW fn \in {"suspend", "resume"},
         Agree(s.stack, r.stack, a, n), ChangeInv(s), \A e \in Device : e # d => r.dev[e].status = s.dev[e].status,
         \A o \in {"suspend", "resume"}, e \in Device : ~RunBy(s.stack, o, e, a, n),
         \A o \in {"suspend", "resume"}, e \in Device : RunBy(r.stack, o, e, a, n) <=> o = fn /\ e = d,
         s.dev[d].status \in {"ACTIVE", "SUSPENDED"}, r.dev[d].status = Changes(fn)
  PROVE  ChangeInv(r)
<1> SUFFICES ASSUME NEW o \in {"suspend", "resume"}, NEW e \in Device
             PROVE  /\ r.dev[e].status = Changes(o) <=> \E b \in Actor, i \in Nat : RunBy(r.stack, o, e, b, i)
                    /\ \A b, c \in Actor, i, j \in Nat :
                         RunBy(r.stack, o, e, b, i) /\ RunBy(r.stack, o, e, c, j) => b = c /\ i = j
  BY ChangeParts
<1>1. \A b \in Actor, i \in Nat : b # a \/ i # n => (RunBy(r.stack, o, e, b, i) <=> RunBy(s.stack, o, e, b, i))
  BY DEF Agree, RunBy
<1>2. /\ s.dev[e].status = Changes(o) <=> \E b \in Actor, i \in Nat : RunBy(s.stack, o, e, b, i)
      /\ \A b, c \in Actor, i, j \in Nat : RunBy(s.stack, o, e, b, i) /\ RunBy(s.stack, o, e, c, j) => b = c /\ i = j
  BY ChangeParts
<1>3. CASE o = fn /\ e = d
  <2>1. ~\E b \in Actor, i \in Nat : RunBy(s.stack, o, e, b, i)
    BY <1>2, <1>3 DEF Changes
  <2> QED BY <1>1, <1>3, <2>1
<1>4. CASE ~(o = fn /\ e = d)
  <2>1. r.dev[e].status = Changes(o) <=> s.dev[e].status = Changes(o)
    BY <1>4 DEF Changes
  <2>2. \A b \in Actor, i \in Nat : RunBy(r.stack, o, e, b, i) <=> RunBy(s.stack, o, e, b, i)
    BY <1>1, <1>4
  <2> QED BY <1>2, <2>1, <2>2
<1> QED BY <1>3, <1>4

(* A callback has returned. *)
LEMMA EndChange ==
  ASSUME NEW s \in States, NEW r \in States, NEW a \in Actor, NEW n \in Nat, NEW d \in Device, NEW fn \in {"suspend", "resume"},
         Agree(s.stack, r.stack, a, n), ChangeInv(s), \A e \in Device : e # d => r.dev[e].status = s.dev[e].status,
         \A o \in {"suspend", "resume"}, e \in Device : RunBy(s.stack, o, e, a, n) <=> o = fn /\ e = d,
         \A o \in {"suspend", "resume"}, e \in Device : ~RunBy(r.stack, o, e, a, n),
         r.dev[d].status \in {"ACTIVE", "SUSPENDED"}
  PROVE  ChangeInv(r) /\ s.dev[d].status = Changes(fn)
<1>0. s.dev[d].status = Changes(fn)
  BY ChangeParts
<1>a. SUFFICES ASSUME NEW o \in {"suspend", "resume"}, NEW e \in Device
             PROVE  /\ r.dev[e].status = Changes(o) <=> \E b \in Actor, i \in Nat : RunBy(r.stack, o, e, b, i)
                    /\ \A b, c \in Actor, i, j \in Nat :
                         RunBy(r.stack, o, e, b, i) /\ RunBy(r.stack, o, e, c, j) => b = c /\ i = j
  BY <1>0, ChangeParts
<1>1. \A b \in Actor, i \in Nat : b # a \/ i # n => (RunBy(r.stack, o, e, b, i) <=> RunBy(s.stack, o, e, b, i))
  BY DEF Agree, RunBy
<1>2. /\ s.dev[e].status = Changes(o) <=> \E b \in Actor, i \in Nat : RunBy(s.stack, o, e, b, i)
      /\ \A b, c \in Actor, i, j \in Nat : RunBy(s.stack, o, e, b, i) /\ RunBy(s.stack, o, e, c, j) => b = c /\ i = j
  BY ChangeParts
<1>3. CASE o = fn /\ e = d
  <2>1. ~\E b \in Actor, i \in Nat : RunBy(r.stack, o, e, b, i)
    BY <1>1, <1>2, <1>3
  <2>2. r.dev[e].status # Changes(o)
    BY <1>3 DEF Changes
  <2> QED BY <2>1, <2>2
<1>4. CASE ~(o = fn /\ e = d)
  <2>1. r.dev[e].status = Changes(o) <=> s.dev[e].status = Changes(o)
    BY <1>0, <1>4 DEF Changes
  <2>2. \A b \in Actor, i \in Nat : RunBy(r.stack, o, e, b, i) <=> RunBy(s.stack, o, e, b, i)
    BY <1>1, <1>4
  <2> QED BY <1>2, <2>1, <2>2
<1> QED BY <1>3, <1>4

(* The parent counts a child with such a status. *)
Active(p) == p.status \in {"ACTIVE", "SUSPENDING"}

(* The count of the parent follows. *)
LEMMA ChildStep ==
  ASSUME NEW s \in States, NEW r \in States, NEW d \in Device, ChildInv(s),
         \A e \in Device : e # d => r.dev[e].status = s.dev[e].status,
         \A e \in Device : e # Parent[d] => r.dev[e].child_count = s.dev[e].child_count,
         Parent[d] \in Device =>
           \/ (Active(r.dev[d]) <=> Active(s.dev[d])) /\ r.dev[Parent[d]].child_count = s.dev[Parent[d]].child_count
           \/ ~Active(s.dev[d]) /\ Active(r.dev[d]) /\ r.dev[Parent[d]].child_count = s.dev[Parent[d]].child_count + 1
           \/ Active(s.dev[d]) /\ ~Active(r.dev[d]) /\ r.dev[Parent[d]].child_count = s.dev[Parent[d]].child_count - 1
  PROVE  ChildInv(r)
<1> SUFFICES ASSUME NEW e \in Device
             PROVE  r.dev[e].child_count = Cardinality(Awake(r.dev, e))
  BY DEF ChildInv
<1>1. s.dev[e].child_count = Cardinality(Awake(s.dev, e))
  BY DEF ChildInv
<1>2. CASE e # Parent[d]
  <2>1. Awake(r.dev, e) = Awake(s.dev, e)
    BY <1>2 DEF Awake
  <2> QED BY <1>1, <1>2, <2>1
<1>3. CASE e = Parent[d]
  <2> DEFINE S == Awake(s.dev, e)
             R == Awake(r.dev, e)
  <2>1. IsFiniteSet(S) /\ Cardinality(S) \in Nat
    BY AwakeFinite
  <2>2. CASE (Active(r.dev[d]) <=> Active(s.dev[d])) /\ r.dev[e].child_count = s.dev[e].child_count
    <3>1. R = S
      BY <2>2 DEF Awake, Active
    <3> QED BY <1>1, <2>2, <3>1
  <2>3. CASE ~Active(s.dev[d]) /\ Active(r.dev[d]) /\ r.dev[e].child_count = s.dev[e].child_count + 1
    <3>1. d \notin S /\ R = S \cup {d}
      BY <1>3, <2>3 DEF Awake, Active
    <3>2. Cardinality(R) = Cardinality(S) + 1
      BY <2>1, <3>1, FS_AddElement
    <3> QED BY <1>1, <2>3, <3>2
  <2>4. CASE Active(s.dev[d]) /\ ~Active(r.dev[d]) /\ r.dev[e].child_count = s.dev[e].child_count - 1
    <3>1. d \in S /\ R = S \ {d}
      BY <1>3, <2>4 DEF Awake, Active
    <3>2. Cardinality(R) = Cardinality(S) - 1
      BY <2>1, <3>1, FS_RemoveElement
    <3> QED BY <1>1, <2>4, <3>2
  <2> QED BY <1>3, <2>2, <2>3, <2>4
<1> QED BY <1>2, <1>3

(* The callback of a resume or of a suspend begins. *)
LEMMA BeginInv ==
  ASSUME NEW s, NEW X, NEW Y, RInv(s, X, Y), NEW a \in Actor, s.stack[a] # <<>>, NEW g, g = Top(s, a),
         g.fn \in {"suspend", "resume"}, g.pc # "callback", NEW p \in Power, p.status = Changes(g.fn),
         p = [s.dev[g.dev] EXCEPT !.status = p.status], s.dev[g.dev].disable_depth = 0,
         g.fn = "suspend" =>
           s.dev[g.dev].status = "ACTIVE" /\ s.dev[g.dev].usage = 0 /\ s.dev[g.dev].child_count = 0,
         g.fn = "resume" =>
           /\ s.dev[g.dev].status = "SUSPENDED" /\ (g.parent \/ Parent[g.dev] = NoParent)
           /\ g.parent /\ Parent[g.dev] \in Device \ Used => s.dev[Parent[g.dev]].status = "ACTIVE"
  PROVE  RInv(At(With(s, g.dev, p), a, "callback"), X, Y)
<1> DEFINE n == Len(s.stack[a])
<1>1. PICK d : d = g.dev
  OBVIOUS
<1>2. PICK q : q = With(s, d, p)
  OBVIOUS
<1>3. PICK r : r = At(q, a, "callback")
  OBVIOUS
<1>4. /\ s \in States /\ Shape(s.stack) /\ ChildInv(s) /\ ChangeInv(s)
      /\ g \in CallFrame /\ n \in Nat \ {0} /\ Live(s.stack, a, n) /\ s.stack[a][n] = g
  BY Kind, TopFrame
<1>5. d \in Device /\ FrameOK(g) /\ s.dev[d] \in Power /\ NoParent \notin Device
  BY <1>1, <1>4, Fields, DeviceAssumption DEF CallFrame, Shape
<1>6. DevOnly(s, q, d) /\ q.dev[d] = p
  BY <1>2, <1>4, <1>5, DevSet
<1>7. q \in States /\ q.stack = s.stack /\ Top(q, a) = g
  BY <1>6 DEF DevOnly, Top
<1>8. AtDone(q, r, a, "callback")
  BY <1>3, <1>7, AtFields DEF Places
<1> DEFINE f == Top(r, a)
<1>9. /\ r \in States /\ StackOnly(q, r) /\ r.stack[a] # <<>> /\ Len(r.stack[a]) = n
      /\ Agree(s.stack, r.stack, a, n)
      /\ f \in CallFrame /\ f.fn = g.fn /\ f.dev = g.dev /\ f.flags = g.flags /\ f.ret = g.ret
      /\ f.parent = g.parent /\ f.pc = "callback"
  BY <1>7, <1>8 DEF AtDone
<1>10. /\ p.usage = s.dev[d].usage /\ p.disable_depth = s.dev[d].disable_depth /\ p.idle = s.dev[d].idle
       /\ p.pending = s.dev[d].pending /\ p.timer = s.dev[d].timer /\ p.child_count = s.dev[d].child_count
  <2>1. p = [s.dev[d] EXCEPT !.status = p.status]
    BY <1>1
  <2> QED BY <1>5, <2>1 DEF Power
<1>11. r.dev[d] = p /\ r.work = s.work /\ r.ref = s.ref /\ r.lapsed = s.lapsed
       /\ \A e \in Device : e # d => r.dev[e] = s.dev[e]
  BY <1>6, <1>9 DEF DevOnly, StackOnly
<1>12. Turned(s, r, d)
  BY <1>9, <1>10, <1>11 DEF Turned
<1>13. Live(r.stack, a, n) /\ r.stack[a][n] = f
  BY <1>4, <1>9 DEF Live, Top
<1> HIDE DEF n, f
<1>14. ChangeInv(r)
  <2>1. \A o \in {"suspend", "resume"}, e \in Device : ~RunBy(s.stack, o, e, a, n)
    BY <1>4 DEF RunBy, Runs
  <2>2. \A o \in {"suspend", "resume"}, e \in Device : RunBy(r.stack, o, e, a, n) <=> o = g.fn /\ e = d
    BY <1>1, <1>9, <1>13 DEF RunBy, Runs
  <2>3. s.dev[d].status \in {"ACTIVE", "SUSPENDED"} /\ r.dev[d].status = Changes(g.fn)
    BY <1>1, <1>11
  <2>4. \A e \in Device : e # d => r.dev[e].status = s.dev[e].status
    BY <1>11
  <2> QED BY <1>4, <1>5, <1>9, <2>1, <2>2, <2>3, <2>4, BeginChange
<1>15. ChildInv(r)
  <2>1. Active(r.dev[d]) <=> Active(s.dev[d])
    BY <1>1, <1>11 DEF Active, Changes
  <2>2. /\ \A e \in Device : r.dev[e].child_count = s.dev[e].child_count
        /\ \A e \in Device : e # d => r.dev[e].status = s.dev[e].status
    BY <1>10, <1>11
  <2> QED BY <1>4, <1>5, <1>9, <2>1, <2>2, ChildStep
<1>16. FrameOK(f)
  BY <1>1, <1>5, <1>9 DEF FrameOK
<1>17. ParentKept(s.dev, f)
  BY <1>5, <1>9 DEF ParentKept, FrameOK
<1>18. SameCall(g, f) /\ f.parent = g.parent /\ f.pc \in {"callback", "returned"}
  BY <1>9 DEF SameCall
<1>19. s.dev[d].status # "ACTIVE" \/ (s.dev[d].usage = 0 /\ s.dev[d].child_count = 0)
  BY <1>1
<1>20. \/ s.dev[d].status # "SUSPENDED"
       \/ Parent[d] \notin Device \ Used
       \/ s.dev[Parent[d]].status = "ACTIVE"
  BY <1>1, <1>5
<1>21. s.dev[d].status \in {"ACTIVE", "SUSPENDED"} /\ s.dev[d].disable_depth = 0
  BY <1>1
<1>22. RInv(r, X, Y)
  BY <1>1, <1>4, <1>5, <1>9, <1>12, <1>14, <1>15, <1>16, <1>17, <1>18, <1>19, <1>20, <1>21, Turn DEF n, f
<1> QED BY <1>1, <1>2, <1>3, <1>22

(* The callback has returned; the sleepers have not been woken yet. *)
LEMMA EndInv ==
  ASSUME NEW s, RInv(s, {}, {}), NEW a \in Actor, s.stack[a] # <<>>, NEW g, g = Top(s, a),
         g.fn \in {"suspend", "resume"}, g.pc = "callback", NEW d, d = g.dev,
         NEW r, Turned(s, r, d), r.stack = At(s, a, "returned").stack, r.dev[d].status \in {"ACTIVE", "SUSPENDED"},
         \A e \in Device : e # Parent[d] => r.dev[e].child_count = s.dev[e].child_count,
         Parent[d] \in Device =>
           \/ g.fn = "resume" /\ r.dev[d].status = "ACTIVE" /\ r.dev[Parent[d]].child_count = s.dev[Parent[d]].child_count + 1
           \/ g.fn = "resume" /\ r.dev[d].status = "SUSPENDED" /\ r.dev[Parent[d]].child_count = s.dev[Parent[d]].child_count
           \/ g.fn = "suspend" /\ r.dev[d].status = "ACTIVE" /\ r.dev[Parent[d]].child_count = s.dev[Parent[d]].child_count
           \/ g.fn = "suspend" /\ r.dev[d].status = "SUSPENDED" /\ r.dev[Parent[d]].child_count = s.dev[Parent[d]].child_count - 1
  PROVE  RInv(r, {}, {d})
<1> DEFINE n == Len(s.stack[a])
<1>1. PICK q : q = At(s, a, "returned")
  OBVIOUS
<1>2. /\ s \in States /\ Shape(s.stack) /\ ChildInv(s) /\ ChangeInv(s)
      /\ g \in CallFrame /\ n \in Nat \ {0} /\ Live(s.stack, a, n) /\ s.stack[a][n] = g
  BY Kind, TopFrame
<1>3. d \in Device /\ FrameOK(g) /\ r \in States
  BY <1>2 DEF CallFrame, Shape, Turned
<1>4. AtDone(s, q, a, "returned")
  BY <1>1, <1>2, AtFields DEF Places
<1> DEFINE f == Top(r, a)
<1>5. /\ r.stack[a] # <<>> /\ Len(r.stack[a]) = n /\ Agree(s.stack, r.stack, a, n)
      /\ f \in CallFrame /\ f.fn = g.fn /\ f.dev = g.dev /\ f.flags = g.flags /\ f.ret = g.ret
      /\ f.parent = g.parent /\ f.pc = "returned"
  BY <1>1, <1>4 DEF AtDone, Top
<1>6. Live(r.stack, a, n) /\ r.stack[a][n] = f
  BY <1>2, <1>5 DEF Live, Top
<1> HIDE DEF n, f
<1>7. \A e \in Device : e # d => r.dev[e].status = s.dev[e].status
  BY DEF Turned
<1>8. ChangeInv(r) /\ s.dev[d].status = Changes(g.fn)
  <2>1. \A o \in {"suspend", "resume"}, e \in Device : RunBy(s.stack, o, e, a, n) <=> o = g.fn /\ e = d
    BY <1>2 DEF RunBy, Runs
  <2>2. \A o \in {"suspend", "resume"}, e \in Device : ~RunBy(r.stack, o, e, a, n)
    BY <1>5, <1>6 DEF RunBy, Runs
  <2> QED BY <1>2, <1>3, <1>5, <1>7, <2>1, <2>2, EndChange
<1>9. ChildInv(r)
  <2>1. /\ g.fn = "resume" => ~Active(s.dev[d]) /\ s.dev[d].status = "RESUMING"
        /\ g.fn = "suspend" => Active(s.dev[d]) /\ s.dev[d].status = "SUSPENDING"
        /\ Active(r.dev[d]) <=> r.dev[d].status = "ACTIVE"
    BY <1>8 DEF Active, Changes
  <2>2. Parent[d] \in Device =>
           \/ (Active(r.dev[d]) <=> Active(s.dev[d])) /\ r.dev[Parent[d]].child_count = s.dev[Parent[d]].child_count
           \/ ~Active(s.dev[d]) /\ Active(r.dev[d]) /\ r.dev[Parent[d]].child_count = s.dev[Parent[d]].child_count + 1
           \/ Active(s.dev[d]) /\ ~Active(r.dev[d]) /\ r.dev[Parent[d]].child_count = s.dev[Parent[d]].child_count - 1
    BY <2>1
  <2> QED BY <1>2, <1>3, <1>7, <2>2, ChildStep
<1>10. FrameOK(f) /\ ParentKept(s.dev, f)
  BY <1>3, <1>5 DEF FrameOK, ParentKept
<1>11. SameCall(g, f) /\ f.parent = g.parent /\ f.pc \in {"callback", "returned"}
  BY <1>5 DEF SameCall
<1>12. RInv(s, {}, {d})
  BY DEF RInv, SleepInv
<1>13. s.dev[d].status \in {"RESUMING", "SUSPENDING"}
  BY <1>8 DEF Changes
<1>14. s.dev[d].status # "ACTIVE" /\ s.dev[d].status # "SUSPENDED"
  BY <1>13
<1> QED BY <1>2, <1>3, <1>5, <1>8, <1>9, <1>10, <1>11, <1>12, <1>13, <1>14, Turn DEF n, f

(* The usage count. *)
Used1(s, r, d) ==
  /\ DevOnly(s, r, d) /\ r.dev[d].status = s.dev[d].status /\ r.dev[d].child_count = s.dev[d].child_count
  /\ r.dev[d].disable_depth = s.dev[d].disable_depth /\ r.dev[d].idle = s.dev[d].idle
  /\ r.dev[d].pending = s.dev[d].pending /\ r.dev[d].timer = s.dev[d].timer

(* pm_runtime_get_noresume() adds one, *)
LEMMA GetFields ==
  ASSUME NEW s \in States, NEW d \in Device
  PROVE  /\ Used1(s, pm_runtime_get_noresume(s, d), d)
         /\ pm_runtime_get_noresume(s, d).dev[d].usage = s.dev[d].usage + 1
<1>0. s.dev[d] \in Power
  BY Fields
<1>1. PICK p : p = [s.dev[d] EXCEPT !.usage = s.dev[d].usage + 1]
  OBVIOUS
<1>2. /\ p \in Power /\ p.status = s.dev[d].status /\ p.child_count = s.dev[d].child_count
      /\ p.disable_depth = s.dev[d].disable_depth /\ p.idle = s.dev[d].idle
      /\ p.pending = s.dev[d].pending /\ p.timer = s.dev[d].timer /\ p.usage = s.dev[d].usage + 1
  BY <1>0, <1>1 DEF Power
<1>3. pm_runtime_get_noresume(s, d) = With(s, d, p)
  BY <1>1 DEF pm_runtime_get_noresume
<1>4. DevOnly(s, With(s, d, p), d) /\ With(s, d, p).dev[d] = p
  BY <1>2, DevSet
<1> QED BY <1>2, <1>3, <1>4 DEF Used1

(* pm_runtime_put_noidle() takes one away. *)
LEMMA PutFields ==
  ASSUME NEW s \in States, NEW d \in Device, s.dev[d].usage > 0
  PROVE  /\ Used1(s, get_put(s, d), d) /\ get_put(s, d).dev[d].usage = s.dev[d].usage - 1
         /\ pm_runtime_put_noidle(s, d) = get_put(s, d)
<1>0. s.dev[d] \in Power
  BY Fields
<1>1. PICK p : p = [s.dev[d] EXCEPT !.usage = s.dev[d].usage - 1]
  OBVIOUS
<1>a. s.dev[d].usage - 1 \in Nat
  BY <1>0 DEF Power
<1>2. /\ p \in Power /\ p.status = s.dev[d].status /\ p.child_count = s.dev[d].child_count
      /\ p.disable_depth = s.dev[d].disable_depth /\ p.idle = s.dev[d].idle
      /\ p.pending = s.dev[d].pending /\ p.timer = s.dev[d].timer /\ p.usage = s.dev[d].usage - 1
  BY <1>0, <1>1, <1>a DEF Power
<1>3. get_put(s, d) = With(s, d, p) /\ pm_runtime_put_noidle(s, d) = With(s, d, p)
  BY <1>1 DEF get_put, pm_runtime_put_noidle
<1>4. DevOnly(s, With(s, d, p), d) /\ With(s, d, p).dev[d] = p
  BY <1>2, DevSet
<1> QED BY <1>2, <1>3, <1>4 DEF Used1

(* The count of one device and the stacks are changed: the rest is left    *)
(* alone.                                                                  *)
LEMMA CountRest ==
  ASSUME NEW s \in States, NEW q, NEW d \in Device, Used1(s, q, d), NEW r, StackOnly(q, r)
  PROVE  Rest(s, r) /\ \A e \in Device : e # d => r.dev[e].usage = s.dev[e].usage
BY DEF Used1, DevOnly, StackOnly, Rest, SameStatus

(* A call takes a reference, or gives it back, and the count is changed. *)
LEMMA UsageMoved ==
  ASSUME NEW s \in States, NEW r \in States, UsageInv(s), NEW a \in Actor, NEW n \in Nat, NEW d \in Device,
         Agree(s.stack, r.stack, a, n), r.ref = s.ref,
         \A e \in Device : e # d =>
           r.dev[e].usage = s.dev[e].usage /\ (HeldAt(s.stack, a, n, e) <=> HeldAt(r.stack, a, n, e)),
         \/ ~HeldAt(s.stack, a, n, d) /\ HeldAt(r.stack, a, n, d) /\ r.dev[d].usage = s.dev[d].usage + 1
         \/ HeldAt(s.stack, a, n, d) /\ ~HeldAt(r.stack, a, n, d) /\ r.dev[d].usage = s.dev[d].usage - 1
  PROVE  UsageInv(r)
<1> SUFFICES ASSUME NEW e \in Device PROVE UsageOf(r, e)
  BY UsageParts
<1>1. UsageOf(s, e)
  BY UsageParts
<1>2. CASE e = d
  BY <1>1, <1>2, StepUsage
<1>3. CASE e # d
  <2>1. (HeldAt(s.stack, a, n, e) <=> HeldAt(r.stack, a, n, e)) /\ r.dev[e].usage = s.dev[e].usage
    BY <1>3
  <2> QED BY <1>1, <2>1, StepUsage
<1> QED BY <1>2, <1>3

(* rpm_resume() takes a reference to the parent. *)
LEMMA GetParentInv ==
  ASSUME NEW s, RInv(s, {}, {}), NEW a \in Actor, s.stack[a] # <<>>, NEW g, g = Top(s, a),
         g.fn = "resume", g.pc # "callback", ~g.parent, Parent[g.dev] # NoParent, "ASYNC" \notin g.flags
  PROVE  RInv(get_parent(s, a), {}, {})
<1> DEFINE n == Len(s.stack[a])
<1>1. /\ s \in States /\ Shape(s.stack) /\ UsageInv(s) /\ HeldInv(s)
      /\ g \in CallFrame /\ n \in Nat \ {0} /\ Live(s.stack, a, n) /\ s.stack[a][n] = g
  BY Kind, TopFrame
<1>2. PICK d : d = Parent[g.dev]
  OBVIOUS
<1>3. d \in Device /\ d # g.dev /\ FrameOK(g) /\ g.dev \in Device
  BY <1>1, <1>2, ParentAssumption DEF CallFrame, Shape
<1>4. PICK q : q = pm_runtime_get_noresume(s, d)
  OBVIOUS
<1>5. Used1(s, q, d) /\ q.dev[d].usage = s.dev[d].usage + 1
  BY <1>1, <1>3, <1>4, GetFields
<1>6. PICK f : f = [g EXCEPT !.parent = TRUE, !.pc = "parent"]
  OBVIOUS
<1>7. /\ f \in CallFrame /\ f.fn = g.fn /\ f.dev = g.dev /\ f.flags = g.flags /\ f.ret = g.ret
      /\ f.parent /\ f.pc = "parent"
  BY <1>1, <1>6 DEF CallFrame, Places
<1>8. q \in States /\ q.stack = s.stack
  BY <1>5 DEF Used1, DevOnly
<1>9. PICK r : r = Retop(q, a, f)
  OBVIOUS
<1>10. /\ r \in States /\ StackOnly(q, r) /\ Agree(s.stack, r.stack, a, n)
       /\ Len(r.stack[a]) = n /\ r.stack[a] # <<>> /\ Top(r, a) = f
  BY <1>7, <1>8, <1>9, RetopFields
<1>11. r.stack = Retop(s, a, f).stack
  <2>1. r.stack = [s.stack EXCEPT ![a] = [s.stack[a] EXCEPT ![n] = f]]
    BY <1>8, <1>9 DEF Retop, States
  <2>2. Retop(s, a, f).stack = [s.stack EXCEPT ![a] = [s.stack[a] EXCEPT ![n] = f]]
    BY <1>1 DEF Retop, States
  <2> QED BY <2>1, <2>2
<1>12. Rest(s, r) /\ \A e \in Device : e # d => r.dev[e].usage = s.dev[e].usage
  BY <1>1, <1>3, <1>5, <1>10, CountRest
<1>13. Live(r.stack, a, n) /\ r.stack[a][n] = f
  BY <1>1, <1>10 DEF Live, Top
<1> HIDE DEF n
<1>14. UsageInv(r)
  <2>1. ~HeldAt(s.stack, a, n, d) /\ HeldAt(r.stack, a, n, d)
    BY <1>1, <1>2, <1>3, <1>7, <1>13 DEF HeldAt, Holds
  <2>2. \A e \in Device : e # d => (HeldAt(s.stack, a, n, e) <=> HeldAt(r.stack, a, n, e))
    BY <1>1, <1>2, <1>7, <1>13 DEF HeldAt, Holds
  <2>3. r.dev[d].usage = s.dev[d].usage + 1 /\ r.ref = s.ref
    BY <1>5, <1>10, <1>12 DEF StackOnly, Rest
  <2> QED BY <1>1, <1>3, <1>10, <1>12, <2>1, <2>2, <2>3, UsageMoved
<1>15. FrameOK(f) /\ SameCall(g, f)
  BY <1>3, <1>7 DEF FrameOK, SameCall
<1>16. New(s, a, {}, f)
  <2>1. Promised(s, a, g)
    BY <1>1 DEF HeldInv
  <2> QED BY <1>7, <2>1 DEF New, ParentKept, Promised, Waits
<1>17. Transits(f) <=> Transits(g)
  BY <1>7 DEF Transits
<1>18. RInv(r, {}, {})
  BY <1>1, <1>7, <1>10, <1>11, <1>12, <1>14, <1>15, <1>16, <1>17, TopKeeps
<1>19. get_parent(s, a) = r
  BY <1>2, <1>4, <1>6, <1>9 DEF get_parent
<1> QED BY <1>18, <1>19

(* Stacks are changed in the same way in states with the same stacks. *)
LEMMA SameRetop ==
  ASSUME NEW s \in States, NEW q \in States, q.stack = s.stack, NEW a, NEW f
  PROVE  Retop(q, a, f).stack = Retop(s, a, f).stack
<1>1. Retop(q, a, f).stack = [s.stack EXCEPT ![a] = [s.stack[a] EXCEPT ![Len(s.stack[a])] = f]]
  BY DEF Retop, States
<1>2. Retop(s, a, f).stack = [s.stack EXCEPT ![a] = [s.stack[a] EXCEPT ![Len(s.stack[a])] = f]]
  BY DEF Retop, States
<1> QED BY <1>1, <1>2

(* The reference to the parent is given back. *)
PutDone(s, r, a) ==
  LET f == Top(r, a)
      g == Top(s, a)
  IN  /\ r \in States /\ r.stack[a] # <<>> /\ r.lapsed = s.lapsed /\ SameStatus(s, r)
      /\ f \in CallFrame /\ f.fn = g.fn /\ f.dev = g.dev /\ f.flags = g.flags /\ f.ret = g.ret
      /\ ~f.parent /\ f.pc = "returned"

(* rpm_resume() gives it back. *)
LEMMA PutParentInv ==
  ASSUME NEW s, RInv(s, {}, {}), NEW a \in Actor, s.stack[a] # <<>>, NEW g, g = Top(s, a),
         g.fn = "resume", g.pc \in {"put", "put_ok", "out"}
  PROVE  RInv(put_parent(s, a), {}, {}) /\ PutDone(s, put_parent(s, a), a)
<1> DEFINE n == Len(s.stack[a])
<1>1. /\ s \in States /\ Shape(s.stack) /\ UsageInv(s) /\ HeldInv(s)
      /\ g \in CallFrame /\ n \in Nat \ {0} /\ Live(s.stack, a, n) /\ s.stack[a][n] = g
  BY Kind, TopFrame
<1>2. PICK d : d = Parent[g.dev]
  OBVIOUS
<1>3. FrameOK(g) /\ g.dev \in Device
  BY <1>1 DEF CallFrame, Shape
<1>4. g.parent /\ d \in Device /\ d # g.dev
  BY <1>2, <1>3, ParentAssumption DEF FrameOK
<1>5. HeldAt(s.stack, a, n, d)
  BY <1>1, <1>2, <1>4 DEF HeldAt, Holds
<1>6. s.dev[d].usage > 0
  BY <1>1, <1>4, <1>5, InUse
<1>7. PICK q : q = get_put(s, d)
  OBVIOUS
<1>8. Used1(s, q, d) /\ q.dev[d].usage = s.dev[d].usage - 1
  BY <1>1, <1>4, <1>6, <1>7, PutFields
<1>9. PICK f : f = [g EXCEPT !.parent = FALSE, !.pc = "returned"]
  OBVIOUS
<1>10. /\ f \in CallFrame /\ f.fn = g.fn /\ f.dev = g.dev /\ f.flags = g.flags /\ f.ret = g.ret
      /\ ~f.parent /\ f.pc = "returned"
  BY <1>1, <1>9 DEF CallFrame, Places
<1>11. q \in States /\ q.stack = s.stack
  BY <1>8 DEF Used1, DevOnly
<1>12. PICK r : r = Retop(q, a, f)
  OBVIOUS
<1>13. /\ r \in States /\ StackOnly(q, r) /\ Agree(s.stack, r.stack, a, n)
       /\ Len(r.stack[a]) = n /\ r.stack[a] # <<>> /\ Top(r, a) = f
  BY <1>10, <1>11, <1>12, RetopFields
<1>14. r.stack = Retop(s, a, f).stack
  BY <1>1, <1>11, <1>12, SameRetop
<1>15. Rest(s, r) /\ \A e \in Device : e # d => r.dev[e].usage = s.dev[e].usage
  BY <1>1, <1>4, <1>8, <1>13, CountRest
<1>16. Live(r.stack, a, n) /\ r.stack[a][n] = f
  BY <1>1, <1>13 DEF Live, Top
<1> HIDE DEF n
<1>17. UsageInv(r)
  <2>1. ~HeldAt(r.stack, a, n, d)
    BY <1>2, <1>4, <1>10, <1>16 DEF HeldAt, Holds
  <2>2. \A e \in Device : e # d => (HeldAt(s.stack, a, n, e) <=> HeldAt(r.stack, a, n, e))
    BY <1>1, <1>2, <1>10, <1>16 DEF HeldAt, Holds
  <2>3. r.dev[d].usage = s.dev[d].usage - 1 /\ r.ref = s.ref
    BY <1>8, <1>13, <1>15 DEF StackOnly, Rest
  <2> QED BY <1>1, <1>4, <1>5, <1>13, <1>15, <2>1, <2>2, <2>3, UsageMoved
<1>18. FrameOK(f) /\ SameCall(g, f)
  BY <1>3, <1>10 DEF FrameOK, SameCall
<1>19. New(s, a, {}, f)
  <2>1. Promised(s, a, g)
    BY <1>1 DEF HeldInv
  <2> QED BY <1>10, <2>1 DEF New, ParentKept, Promised, Waits
<1>20. Transits(f) <=> Transits(g)
  BY <1>10 DEF Transits
<1>21. RInv(r, {}, {})
  BY <1>1, <1>10, <1>13, <1>14, <1>15, <1>17, <1>18, <1>19, <1>20, TopKeeps
<1>22. put_parent(s, a) = r
  BY <1>2, <1>7, <1>9, <1>12 DEF put_parent
<1>23. PutDone(s, r, a)
  BY <1>10, <1>13, <1>15 DEF PutDone, Rest
<1> QED BY <1>21, <1>22, <1>23

(* A call that has a reference to its own device ends. *)
LEMMA PopPutInv ==
  ASSUME NEW s, NEW X, NEW Y, RInv(s, X, Y), NEW a \in Actor, s.stack[a] # <<>>, NEW g, g = Top(s, a), ~Transits(g),
         \/ /\ g.fn = "barrier" /\ g.ret = "put"
            /\ g.pc \in {"cancel", "cancelled"} => ~s.dev[g.dev].pending
            /\ g.pc # "repeat" => g.dev \in X \/ Quiet(s.dev[g.dev])
         \/ g.fn = "resume" /\ g.ret = "disable" /\ ~g.parent
  PROVE  /\ RInv(pm_runtime_put_noidle(Pop(s, a), g.dev), X, Y)
         /\ Used1(Pop(s, a), pm_runtime_put_noidle(Pop(s, a), g.dev), g.dev)
<1> DEFINE n == Len(s.stack[a])
<1>1. /\ s \in States /\ Shape(s.stack) /\ UsageInv(s)
      /\ g \in CallFrame /\ n \in Nat \ {0} /\ Live(s.stack, a, n) /\ s.stack[a][n] = g
  BY Kind, TopFrame
<1>2. PICK d : d = g.dev
  OBVIOUS
<1>3. d \in Device
  BY <1>1, <1>2 DEF CallFrame
<1>4. PICK q : q = Pop(s, a)
  OBVIOUS
<1>5. q \in States /\ StackOnly(s, q) /\ Agree(s.stack, q.stack, a, n) /\ Len(q.stack[a]) = n - 1
  BY <1>1, <1>4, PopFields
<1>6. HeldAt(s.stack, a, n, d)
  BY <1>1, <1>2 DEF HeldAt, Holds
<1>7. s.dev[d].usage > 0 /\ q.dev = s.dev
  BY <1>1, <1>3, <1>5, <1>6, InUse DEF StackOnly
<1>8. PICK r : r = pm_runtime_put_noidle(q, d)
  OBVIOUS
<1>9. Used1(q, r, d) /\ r.dev[d].usage = s.dev[d].usage - 1
  BY <1>3, <1>5, <1>7, <1>8, PutFields
<1>10. r \in States /\ r.stack = q.stack /\ r.ref = s.ref
  BY <1>5, <1>9 DEF Used1, DevOnly, StackOnly
<1>11. Rest(s, r) /\ \A e \in Device : e # d => r.dev[e].usage = s.dev[e].usage
  BY <1>5, <1>9 DEF Used1, DevOnly, StackOnly, Rest, SameStatus
<1>12. ~Live(r.stack, a, n)
  BY <1>1, <1>5, <1>10 DEF Live
<1> HIDE DEF n
<1>13. UsageInv(r)
  <2>1. ~HeldAt(r.stack, a, n, d)
    BY <1>12 DEF HeldAt
  <2>2. \A e \in Device : e # d => (HeldAt(s.stack, a, n, e) <=> HeldAt(r.stack, a, n, e))
    BY <1>1, <1>2, <1>12 DEF HeldAt, Holds
  <2> QED BY <1>1, <1>3, <1>5, <1>6, <1>9, <1>10, <1>11, <2>1, <2>2, UsageMoved
<1>14. RInv(r, X, Y)
  BY <1>1, <1>4, <1>10, <1>11, <1>13, PopKeeps
<1> QED BY <1>2, <1>4, <1>8, <1>9, <1>14

(* A call that takes a reference to its device begins. *)
LEMMA PushGetInv ==
  ASSUME NEW s, NEW X, NEW Y, RInv(s, X, Y), NEW a \in Actor, NEW f \in CallFrame,
         FrameOK(f), f.pc = "repeat", ~f.parent,
         s.stack[a] = <<>> => f.ret \in {"done", "get", "put"},
         s.stack[a] # <<>> => Above(f, Top(s, a)),
         \/ f.fn = "barrier" /\ f.ret = "put"
         \/ f.fn = "resume" /\ f.ret = "disable"
  PROVE  RInv(Push(pm_runtime_get_noresume(s, f.dev), a, f), X, Y)
<1> DEFINE n == Len(s.stack[a]) + 1
<1>1. /\ s \in States /\ UsageInv(s) /\ Len(s.stack[a]) \in Nat /\ ~Live(s.stack, a, n) /\ n \in Nat
  BY Kind, Fields, Stacks DEF Live
<1>2. PICK d : d = f.dev
  OBVIOUS
<1>3. d \in Device
  BY <1>2 DEF CallFrame
<1>4. PICK q : q = pm_runtime_get_noresume(s, d)
  OBVIOUS
<1>5. Used1(s, q, d) /\ q.dev[d].usage = s.dev[d].usage + 1
  BY <1>1, <1>3, <1>4, GetFields
<1>6. q \in States /\ q.stack = s.stack
  BY <1>5 DEF Used1, DevOnly
<1>7. PICK r : r = Push(q, a, f)
  OBVIOUS
<1>8. /\ r \in States /\ StackOnly(q, r) /\ Agree(s.stack, r.stack, a, n)
       /\ Len(r.stack[a]) = n /\ r.stack[a] # <<>> /\ Top(r, a) = f
  BY <1>6, <1>7, PushFields
<1>9. r.stack = Push(s, a, f).stack
  <2>1. r.stack = [s.stack EXCEPT ![a] = Append(s.stack[a], f)]
    BY <1>6, <1>7 DEF Push, States
  <2>2. Push(s, a, f).stack = [s.stack EXCEPT ![a] = Append(s.stack[a], f)]
    BY <1>1 DEF Push, States
  <2> QED BY <2>1, <2>2
<1>10. Rest(s, r) /\ \A e \in Device : e # d => r.dev[e].usage = s.dev[e].usage
  BY <1>1, <1>3, <1>5, <1>8, CountRest
<1>11. Live(r.stack, a, n) /\ r.stack[a][n] = f
  BY <1>1, <1>8 DEF Live, Top
<1> HIDE DEF n
<1>12. UsageInv(r)
  <2>1. ~HeldAt(s.stack, a, n, d) /\ HeldAt(r.stack, a, n, d)
    BY <1>1, <1>2, <1>11 DEF HeldAt, Holds
  <2>2. \A e \in Device : e # d => (HeldAt(s.stack, a, n, e) <=> HeldAt(r.stack, a, n, e))
    BY <1>1, <1>2, <1>11 DEF HeldAt, Holds
  <2>3. r.dev[d].usage = s.dev[d].usage + 1 /\ r.ref = s.ref
    BY <1>5, <1>8, <1>10 DEF StackOnly, Rest
  <2> QED BY <1>1, <1>3, <1>8, <1>10, <2>1, <2>2, <2>3, UsageMoved
<1>13. RInv(r, X, Y)
  BY <1>1, <1>8, <1>9, <1>10, <1>12, PushKeeps
<1> QED BY <1>2, <1>4, <1>7, <1>13

(* A task takes a reference, gives it back or is promised an active device. *)
RefOnly(s, r, t, d) ==
  /\ r \in States /\ r.stack = s.stack /\ r.work = s.work /\ r.lapsed = s.lapsed
  /\ \A u \in Task, e \in Device : u # t \/ e # d => r.ref[u][e] = s.ref[u][e]

(* The reference of a task comes, goes or is fulfilled. *)
LEMMA RefInv ==
  ASSUME NEW s, RInv(s, {}, {}), NEW r, NEW t \in Task, NEW d \in Device, RefOnly(s, r, t, d),
         SameStatus(s, r),
         \A e \in Device : r.dev[e].timer = s.dev[e].timer /\ r.dev[e].pending = s.dev[e].pending,
         \A e \in Device : e # d => r.dev[e].usage = s.dev[e].usage,
         \/ (s.ref[t][d] = "no" <=> r.ref[t][d] = "no") /\ r.dev[d].usage = s.dev[d].usage
         \/ s.ref[t][d] = "no" /\ r.ref[t][d] # "no" /\ r.dev[d].usage = s.dev[d].usage + 1
         \/ s.ref[t][d] # "no" /\ r.ref[t][d] = "no" /\ r.dev[d].usage = s.dev[d].usage - 1,
         r.ref[t][d] = "ok" => s.ref[t][d] = "ok" \/ s.dev[d].status = "ACTIVE",
         r.ref[t][d] = "no" /\ s.ref[t][d] # "no" => s.stack[t] = <<>>
  PROVE  RInv(r, {}, {})
<1>1. /\ s \in States /\ Shape(s.stack) /\ UsageInv(s) /\ ChildInv(s) /\ ParentInv(s) /\ HeldInv(s)
      /\ DisabledInv(s, {}) /\ PendingInv(s) /\ SleepInv(s, {}) /\ ChangeInv(s)
  BY Kind
<1>2. /\ r \in States /\ r.stack = s.stack /\ r.work = s.work /\ r.lapsed = s.lapsed /\ t \in Actor
      /\ \A u \in Task, e \in Device : u # t \/ e # d => r.ref[u][e] = s.ref[u][e]
  BY DEF RefOnly, Actor
<1>3. 0 \in Nat /\ Agree(s.stack, r.stack, t, 0) /\ ~Live(s.stack, t, 0) /\ ~Live(r.stack, t, 0)
  BY <1>2 DEF Agree, Live
<1>4. UsageInv(r)
  <2> SUFFICES ASSUME NEW e \in Device PROVE UsageOf(r, e)
    BY UsageParts
  <2>1. UsageOf(s, e)
    BY <1>1, UsageParts
  <2>2. \A u \in Task : u # t => r.ref[u][e] = s.ref[u][e]
    BY <1>2
  <2>3. CASE e = d
    BY <1>1, <1>2, <2>1, <2>2, <2>3, RefUsage
  <2>4. CASE e # d
    <3>1. (s.ref[t][e] = "no" <=> r.ref[t][e] = "no") /\ r.dev[e].usage = s.dev[e].usage
      BY <1>2, <2>4
    <3> QED BY <1>1, <1>2, <2>1, <2>2, <3>1, RefUsage
  <2> QED BY <2>3, <2>4
<1>5. ChildInv(r)
  BY <1>1, <1>2, StepChild
<1>6. ParentInv(r)
  BY <1>1, <1>2, <1>3, StepParent
<1>7. HeldInv(r)
  <2>1. \A u \in Task, e \in Device : r.ref[u][e] = "ok" => s.ref[u][e] = "ok" \/ s.dev[e].status = "ACTIVE"
    BY <1>2
  <2>2. s.stack[t] = <<>> => \A i \in Nat : ~Live(r.stack, t, i)
    BY <1>1, <1>2, Fields, Stacks
  <2>3. \A u \in Task, e \in Device : s.ref[u][e] # "no" /\ r.ref[u][e] = "no" => \A i \in Nat : ~Live(r.stack, u, i)
    BY <1>2, <2>2
  <2> QED BY <1>1, <1>2, <1>3, <2>1, <2>3, StepHeld
<1>8. DisabledInv(r, {})
  <2>1. \A e \in Device : s.dev[e].disable_depth > 0 => r.dev[e].timer = "off"
    BY <1>1 DEF DisabledInv
  <2>2. \A e \in Device \ {} : s.dev[e].disable_depth > 0 =>
          /\ r.dev[e].timer = "off"
          /\ r.dev[e].pending => /\ s.dev[e].pending
                                 /\ Live(s.stack, t, 0) /\ Cancels(s.stack[t][0], e)
                                      => Live(r.stack, t, 0) /\ Cancels(r.stack[t][0], e)
          /\ ~Quiet(s.dev[e]) /\ Live(s.stack, t, 0) /\ Flushes(s.stack[t][0], e)
               => Live(r.stack, t, 0) /\ Flushes(r.stack[t][0], e)
    BY <1>3, <2>1
  <2> QED BY <1>1, <1>2, <1>3, <2>2, StepDisabled
<1>9. PendingInv(r)
  BY <1>1, <1>2, <1>3, StepPending
<1>10. SleepInv(r, {})
  BY <1>1, <1>2, <1>3, StepSleep
<1>11. ChangeInv(r)
  BY <1>1, <1>2 DEF ChangeInv, SameStatus
<1> QED BY <1>1, <1>2, <1>4, <1>5, <1>6, <1>7, <1>8, <1>9, <1>10, <1>11 DEF RInv

(* The depth of a device that tasks may disable. *)
LEMMA DepthInv ==
  ASSUME NEW s, NEW X, RInv(s, X, {}), NEW r, NEW d \in Device, d \in Used, DevOnly(s, r, d),
         r.dev[d].status = s.dev[d].status, r.dev[d].child_count = s.dev[d].child_count,
         r.dev[d].usage = s.dev[d].usage, r.dev[d].idle = s.dev[d].idle,
         r.dev[d].pending = s.dev[d].pending, r.dev[d].timer = s.dev[d].timer,
         d \in X \/ s.dev[d].disable_depth > 0 \/ ~(r.dev[d].disable_depth > 0)
  PROVE  RInv(r, X, {})
<1>1. /\ s \in States /\ Shape(s.stack) /\ UsageInv(s) /\ ChildInv(s) /\ ParentInv(s) /\ HeldInv(s)
      /\ DisabledInv(s, X) /\ PendingInv(s) /\ SleepInv(s, {}) /\ ChangeInv(s)
  BY Kind
<1>2. /\ r \in States /\ r.stack = s.stack /\ r.work = s.work /\ r.ref = s.ref /\ r.lapsed = s.lapsed
      /\ \A e \in Device : e # d => r.dev[e] = s.dev[e]
  BY DEF DevOnly
<1>3. \A e \in Device : /\ r.dev[e].status = s.dev[e].status /\ r.dev[e].child_count = s.dev[e].child_count
                        /\ r.dev[e].usage = s.dev[e].usage /\ r.dev[e].idle = s.dev[e].idle
                        /\ r.dev[e].pending = s.dev[e].pending /\ r.dev[e].timer = s.dev[e].timer
  BY <1>2
<1>4. UsageInv(r) /\ ChangeInv(r) /\ PendingInv(r)
  BY <1>1, <1>2, <1>3 DEF UsageInv, ChangeInv, PendingInv
<1>5. ChildInv(r)
  <2>1. \A e \in Device : Awake(r.dev, e) = Awake(s.dev, e)
    BY <1>3 DEF Awake
  <2> QED BY <1>1, <1>3, <2>1 DEF ChildInv
<1>6. ParentInv(r)
  <2>1. \A e \in Device : e \notin Used => r.dev[e].disable_depth = 0
    BY <1>1, <1>2 DEF ParentInv
  <2>2. \A c \in Device : Parent[c] \in Device \ Used /\ r.dev[c].status # "SUSPENDED" => r.dev[Parent[c]].status = "ACTIVE"
    BY <1>1, <1>3 DEF ParentInv
  <2>3. \A f : ParentKept(s.dev, f) => ParentKept(r.dev, f)
    BY <1>3 DEF ParentKept
  <2> QED BY <1>1, <1>2, <2>1, <2>2, <2>3 DEF ParentInv
<1>7. HeldInv(r)
  <2>1. ASSUME NEW a \in Actor, NEW i \in Nat, Live(r.stack, a, i) PROVE Promised(r, a, r.stack[a][i])
    <3>1. Promised(s, a, r.stack[a][i]) /\ r.stack[a][i].dev \in Device
      BY <1>1, <1>2, <2>1, Fields, Stacks DEF HeldInv, CallFrame
    <3> QED BY <1>2, <1>3, <3>1 DEF Promised
  <2> QED BY <1>1, <1>2, <1>3, <2>1 DEF HeldInv
<1>8. DisabledInv(r, X)
  <2> SUFFICES ASSUME NEW e \in Device \ X, r.dev[e].disable_depth > 0
               PROVE  /\ r.dev[e].timer = "off"
                      /\ r.dev[e].pending => Cancelling(r.stack, e)
                      /\ ~Quiet(r.dev[e]) => Flushing(r.stack, e)
    BY DEF DisabledInv
  <2>1. s.dev[e].disable_depth > 0 /\ (Quiet(r.dev[e]) <=> Quiet(s.dev[e]))
    BY <1>2, <1>3 DEF Quiet
  <2> QED BY <1>1, <1>2, <1>3, <2>1 DEF DisabledInv
<1>9. SleepInv(r, {})
  <2>1. ASSUME NEW a \in Actor, NEW i \in Nat, Live(r.stack, a, i) PROVE Waits(r, r.stack[a][i])
    <3>1. Waits(s, r.stack[a][i]) /\ r.stack[a][i].dev \in Device
      BY <1>1, <1>2, <2>1, Fields, Stacks DEF SleepInv, CallFrame
    <3> QED BY <1>2, <1>3, <3>1 DEF Waits, AwaitsEnd, Quiet
  <2> QED BY <2>1 DEF SleepInv
<1> QED BY <1>1, <1>2, <1>4, <1>5, <1>6, <1>7, <1>8, <1>9 DEF RInv

(* Disabled, and quiet or about to be. *)
LEMMA Exempt ==
  ASSUME NEW s, NEW d, RInv(s, {}, {}) PROVE RInv(s, {d}, {})
BY DEF RInv, DisabledInv

(* The barrier of d has begun, so d is no exception any more. *)
LEMMA Settled ==
  ASSUME NEW s, NEW d \in Device, RInv(s, {d}, {}), s.dev[d].timer = "off",
         s.dev[d].pending => Cancelling(s.stack, d), ~Quiet(s.dev[d]) => Flushing(s.stack, d)
  PROVE  RInv(s, {}, {})
<1>1. DisabledInv(s, {})
  BY DEF RInv, DisabledInv
<1> QED BY <1>1 DEF RInv

(* The barrier ends, *)
LEMMA BarrierEndInv ==
  ASSUME NEW s, NEW X, RInv(s, X, {}), NEW a \in Actor, s.stack[a] # <<>>, NEW g, g = Top(s, a), g.fn = "barrier",
         g.pc \in {"cancel", "cancelled"} => ~s.dev[g.dev].pending,
         g.pc # "repeat" => g.dev \in X \/ Quiet(s.dev[g.dev])
  PROVE  /\ RInv(barrier_end(s, a), X, {})
         /\ \A e \in Device : LET p == s.dev[e]
                                  q == barrier_end(s, a).dev[e]
                              IN  /\ q.status = p.status /\ q.idle = p.idle /\ q.timer = p.timer
                                  /\ q.pending = p.pending
<1>1. s \in States /\ g \in CallFrame /\ ~Transits(g)
  BY Kind, TopFrame DEF Transits
<1>2. Pop(s, a) \in States /\ Pop(s, a).dev = s.dev
  BY <1>1, PopFields DEF StackOnly
<1>3. CASE g.ret = "put"
  <2>1. PICK r : r = pm_runtime_put_noidle(Pop(s, a), g.dev)
    OBVIOUS
  <2>2. RInv(r, X, {}) /\ Used1(Pop(s, a), r, g.dev)
    BY <1>1, <1>3, <2>1, PopPutInv
  <2>3. barrier_end(s, a) = r
    BY <1>3, <2>1 DEF barrier_end
  <2>4. \A e \in Device : LET p == s.dev[e]
                              q == r.dev[e]
                          IN  q.status = p.status /\ q.idle = p.idle /\ q.timer = p.timer /\ q.pending = p.pending
    BY <1>2, <2>2 DEF Used1, DevOnly
  <2> QED BY <2>2, <2>3, <2>4
<1>4. CASE g.ret # "put"
  <2>1. barrier_end(s, a) = Pop(s, a)
    BY <1>4 DEF barrier_end
  <2>2. RInv(Pop(s, a), X, {})
    BY <1>1, <1>4, PopInv
  <2> QED BY <1>2, <2>1, <2>2
<1> QED BY <1>3, <1>4

(* or waits for what is running, *)
LEMMA BarrierWaitInv ==
  ASSUME NEW s, NEW a \in Actor, s.stack[a] # <<>>, NEW g, g = Top(s, a), g.fn = "barrier",
         RInv(s, {g.dev}, {}), g.pc \in {"cancel", "cancelled"} => ~s.dev[g.dev].pending,
         (~s.dev[g.dev].pending /\ s.dev[g.dev].timer = "off") \/ RInv(s, {}, {})
  PROVE  RInv(__pm_runtime_barrier_wait(s, a), {}, {})
<1> DEFINE n == Len(s.stack[a])
<1>1. /\ s \in States /\ g \in CallFrame /\ Shape(s.stack) /\ HeldInv(s)
      /\ n \in Nat \ {0} /\ Live(s.stack, a, n) /\ s.stack[a][n] = g
  BY Kind, TopFrame
<1>2. PICK d : d = g.dev
  OBVIOUS
<1>3. d \in Device /\ FrameOK(g) /\ Promised(s, a, g)
  BY <1>1, <1>2 DEF CallFrame, Shape, HeldInv
<1>4. CASE Quiet(s.dev[d])
  <2>1. PICK r : r = barrier_end(s, a)
    OBVIOUS
  <2>2. __pm_runtime_barrier_wait(s, a) = r
    BY <1>2, <1>4, <2>1 DEF __pm_runtime_barrier_wait
  <2>3. CASE RInv(s, {}, {})
    BY <1>2, <1>4, <2>1, <2>2, <2>3, BarrierEndInv
  <2>4. CASE ~s.dev[d].pending /\ s.dev[d].timer = "off"
    <3>1. /\ RInv(r, {d}, {}) /\ r.dev[d].status = s.dev[d].status /\ r.dev[d].idle = s.dev[d].idle
          /\ r.dev[d].timer = s.dev[d].timer /\ r.dev[d].pending = s.dev[d].pending
      BY <1>2, <1>3, <1>4, <2>1, BarrierEndInv
    <3>2. Quiet(r.dev[d])
      BY <1>4, <3>1 DEF Quiet
    <3> QED BY <1>2, <1>3, <2>2, <2>4, <3>1, <3>2, Settled
  <2> QED BY <1>2, <2>3, <2>4
<1>5. CASE ~Quiet(s.dev[d])
  <2>1. PICK f : f = [g EXCEPT !.pc = "sleep"]
    OBVIOUS
  <2>2. /\ f \in CallFrame /\ f.fn = g.fn /\ f.dev = g.dev /\ f.flags = g.flags /\ f.ret = g.ret
        /\ f.parent = g.parent /\ f.pc = "sleep" /\ "sleep" \in Places
    BY <1>1, <2>1, Moved DEF Places
  <2>3. FrameOK(f) /\ ParentKept(s.dev, f) /\ Promised(s, a, f) /\ Waits(s, f)
    BY <1>2, <1>3, <1>5, <2>2 DEF FrameOK, ParentKept, Promised, Waits, AwaitsEnd
  <2>4. PICK r : r = At(s, a, "sleep")
    OBVIOUS
  <2>5. __pm_runtime_barrier_wait(s, a) = r
    BY <1>2, <1>5, <2>4 DEF __pm_runtime_barrier_wait
  <2>6. \A X : RInv(s, X, {}) => RInv(r, X, {})
    BY <2>1, <2>2, <2>3, <2>4, AtInv
  <2>7. CASE RInv(s, {}, {})
    BY <2>5, <2>6, <2>7
  <2>8. CASE ~s.dev[d].pending /\ s.dev[d].timer = "off"
    <3>1. AtDone(s, r, a, "sleep")
      BY <1>1, <2>2, <2>4, AtFields
    <3>2. /\ r \in States /\ r.dev = s.dev /\ r.stack[a] # <<>> /\ Len(r.stack[a]) = n
          /\ Top(r, a).fn = "barrier" /\ Top(r, a).dev = d /\ Top(r, a).pc = "sleep"
      BY <1>2, <3>1 DEF AtDone, StackOnly
    <3>3. Flushing(r.stack, d)
      BY <1>1, <3>2, TopFrame DEF Flushing, Flushes
    <3> QED BY <1>2, <1>3, <2>5, <2>6, <2>8, <3>2, <3>3, Settled
  <2> QED BY <1>2, <2>7, <2>8
<1> QED BY <1>4, <1>5

(* after it has stopped the timer and seen to the request. *)
LEMMA BarrierInv ==
  ASSUME NEW s, NEW a \in Actor, s.stack[a] # <<>>, NEW g, g = Top(s, a), g.fn = "barrier",
         g.pc = "repeat", RInv(s, {g.dev}, {})
  PROVE  RInv(__pm_runtime_barrier(s, a), {}, {})
<1>1. /\ s \in States /\ g \in CallFrame /\ Shape(s.stack) /\ HeldInv(s)
      /\ Live(s.stack, a, Len(s.stack[a])) /\ s.stack[a][Len(s.stack[a])] = g /\ Len(s.stack[a]) \in Nat
  BY Kind, TopFrame
<1>2. PICK d : d = g.dev
  OBVIOUS
<1>3. d \in Device /\ FrameOK(g)
  BY <1>1, <1>2 DEF CallFrame, Shape
<1>4. PICK off : off = pm_runtime_deactivate_timer(s, d)
  OBVIOUS
<1>5. Minor(s, off, d) /\ off.dev[d].pending = s.dev[d].pending /\ off.dev[d].timer = "off"
  BY <1>1, <1>3, <1>4, Timers
<1>6. RInv(off, {d}, {})
  BY <1>2, <1>3, <1>5, MinorDev
<1>7. off \in States /\ off.stack = s.stack /\ Top(off, a) = g
  BY <1>5 DEF Minor, DevOnly, Top
<1>8. CASE ~s.dev[d].pending
  <2>1. __pm_runtime_barrier(s, a) = __pm_runtime_barrier_wait(off, a)
    BY <1>2, <1>4, <1>8 DEF __pm_runtime_barrier
  <2> QED BY <1>2, <1>5, <1>6, <1>7, <1>8, <2>1, BarrierWaitInv
<1>9. CASE s.dev[d].pending
  <2>1. PICK q : q = request_none(off, d)
    OBVIOUS
  <2>2. Minor(off, q, d) /\ q.dev[d].pending = s.dev[d].pending /\ q.dev[d].timer = "off"
    BY <1>3, <1>5, <1>7, <2>1, Requests
  <2>3. RInv(q, {d}, {})
    BY <1>3, <1>5, <1>6, <2>2, MinorDev
  <2>4. q \in States /\ q.stack = s.stack /\ Top(q, a) = g
    BY <1>7, <2>2 DEF Minor, DevOnly, Top
  <2>5. PICK f : f = [g EXCEPT !.pc = "cancel"]
    OBVIOUS
  <2>6. /\ f \in CallFrame /\ f.fn = g.fn /\ f.dev = g.dev /\ f.flags = g.flags /\ f.ret = g.ret
        /\ f.parent = g.parent /\ f.pc = "cancel" /\ "cancel" \in Places
    BY <1>1, <2>5, Moved DEF Places
  <2>7. FrameOK(f) /\ ParentKept(q.dev, f) /\ Promised(q, a, f) /\ Waits(q, f)
    BY <1>3, <2>6 DEF FrameOK, ParentKept, Promised, Waits
  <2>8. PICK r : r = At(q, a, "cancel")
    OBVIOUS
  <2>9. RInv(r, {d}, {})
    BY <2>3, <2>4, <2>5, <2>6, <2>7, <2>8, AtInv
  <2>10. AtDone(q, r, a, "cancel")
    BY <2>4, <2>6, <2>8, AtFields
  <2>11. /\ r \in States /\ r.dev = q.dev /\ r.stack[a] # <<>>
         /\ Top(r, a).fn = "barrier" /\ Top(r, a).dev = d /\ Top(r, a).pc = "cancel"
    BY <1>2, <2>4, <2>10 DEF AtDone, StackOnly
  <2>12. Flushing(r.stack, d) /\ Cancelling(r.stack, d)
    BY <2>11, TopFrame DEF Flushing, Flushes, Cancelling, Cancels
  <2>13. __pm_runtime_barrier(s, a) = r
    BY <1>2, <1>4, <1>9, <2>1, <2>8 DEF __pm_runtime_barrier
  <2> QED BY <1>3, <2>2, <2>9, <2>11, <2>12, <2>13, Settled
<1> QED BY <1>8, <1>9

(* The depth of disables is set. *)
LEMMA Depths ==
  ASSUME NEW s \in States, NEW d \in Device, NEW k \in Nat,
         NEW p, p = [s.dev[d] EXCEPT !.disable_depth = k]
  PROVE  /\ DevOnly(s, With(s, d, p), d) /\ With(s, d, p).dev[d] = p
         /\ p.status = s.dev[d].status /\ p.child_count = s.dev[d].child_count
         /\ p.usage = s.dev[d].usage /\ p.idle = s.dev[d].idle /\ p.pending = s.dev[d].pending
         /\ p.timer = s.dev[d].timer /\ p.disable_depth = k
<1>1. s.dev[d] \in Power
  BY Fields
<1>2. /\ p \in Power /\ p.status = s.dev[d].status /\ p.child_count = s.dev[d].child_count
      /\ p.usage = s.dev[d].usage /\ p.idle = s.dev[d].idle /\ p.pending = s.dev[d].pending
      /\ p.timer = s.dev[d].timer /\ p.disable_depth = k
  BY <1>1 DEF Power
<1> QED BY <1>2, DevSet

(* The device is disabled, and the barrier of the first disable begins. *)
LEMMA DisableInv ==
  ASSUME NEW s, RInv(s, {}, {}), NEW a \in Actor, s.stack[a] # <<>>, NEW g, g = Top(s, a), g.fn = "barrier",
         g.pc = "repeat"
  PROVE  RInv(disable_now(s, a), {}, {})
<1>1. /\ s \in States /\ g \in CallFrame /\ Shape(s.stack)
      /\ Live(s.stack, a, Len(s.stack[a])) /\ s.stack[a][Len(s.stack[a])] = g /\ Len(s.stack[a]) \in Nat
  BY Kind, TopFrame
<1>2. PICK d : d = g.dev
  OBVIOUS
<1>3. d \in Device /\ FrameOK(g) /\ s.dev[d].disable_depth \in Nat
  BY <1>1, <1>2, Fields DEF CallFrame, Shape, Power
<1>4. d \in Used
  BY <1>2, <1>3 DEF FrameOK
<1>5. PICK p : p = [s.dev[d] EXCEPT !.disable_depth = s.dev[d].disable_depth + 1]
  OBVIOUS
<1>6. PICK r : r = With(s, d, p)
  OBVIOUS
<1>7. /\ DevOnly(s, r, d) /\ r.dev[d] = p
      /\ p.status = s.dev[d].status /\ p.child_count = s.dev[d].child_count
      /\ p.usage = s.dev[d].usage /\ p.idle = s.dev[d].idle /\ p.pending = s.dev[d].pending
      /\ p.timer = s.dev[d].timer
  <2>1. s.dev[d].disable_depth + 1 \in Nat
    BY <1>3
  <2> QED BY <1>1, <1>3, <1>5, <1>6, <2>1, Depths
<1>8. r.stack = s.stack /\ Top(r, a) = g
  BY <1>7 DEF DevOnly, Top
<1>9. CASE s.dev[d].disable_depth = 0
  <2>1. RInv(r, {d}, {})
    <3>1. RInv(s, {d}, {}) /\ d \in {d}
      BY Exempt
    <3> QED BY <1>3, <1>4, <1>7, <3>1, DepthInv
  <2>2. RInv(__pm_runtime_barrier(r, a), {}, {})
    BY <1>2, <1>8, <2>1, BarrierInv
  <2>3. disable_now(s, a) = __pm_runtime_barrier(r, a)
    BY <1>2, <1>5, <1>6, <1>9 DEF disable_now
  <2> QED BY <2>2, <2>3
<1>10. CASE s.dev[d].disable_depth # 0
  <2>1. RInv(r, {}, {})
    <3>1. s.dev[d].disable_depth > 0
      BY <1>3, <1>10
    <3> QED BY <1>3, <1>4, <1>7, <3>1, DepthInv
  <2>2. RInv(barrier_end(r, a), {}, {})
    BY <1>8, <2>1, BarrierEndInv
  <2>3. disable_now(s, a) = barrier_end(r, a)
    BY <1>2, <1>5, <1>6, <1>10 DEF disable_now
  <2> QED BY <2>2, <2>3
<1> QED BY <1>9, <1>10

(* A call other than a barrier goes on, and not to or from a callback that changes the device. *)
LEMMA GoInv ==
  ASSUME NEW s, NEW X, NEW Y, RInv(s, X, Y), NEW a \in Actor, s.stack[a] # <<>>, NEW g, g = Top(s, a),
         ~Transits(g), g.fn # "barrier", NEW pc \in Places, NEW f, f = [g EXCEPT !.pc = pc],
         ~Transits(f), FrameOK(f), ParentKept(s.dev, f),
         pc = "put_ok" /\ g.ret = "get" => s.dev[g.dev].status = "ACTIVE",
         pc = "sleep" => AwaitsEnd(s.dev[g.dev], g)
  PROVE  RInv(At(s, a, pc), X, Y) /\ AtDone(s, At(s, a, pc), a, pc)
<1>1. /\ s \in States /\ HeldInv(s) /\ g \in CallFrame /\ Len(s.stack[a]) \in Nat
      /\ Live(s.stack, a, Len(s.stack[a])) /\ s.stack[a][Len(s.stack[a])] = g
  BY Kind, TopFrame
<1>2. /\ f \in CallFrame /\ f.fn = g.fn /\ f.dev = g.dev /\ f.flags = g.flags /\ f.ret = g.ret
      /\ f.parent = g.parent /\ f.pc = pc
  BY <1>1, Moved
<1>3. Promised(s, a, g)
  BY <1>1 DEF HeldInv
<1>4. Promised(s, a, f) /\ Waits(s, f)
  BY <1>2, <1>3 DEF Promised, Waits, AwaitsEnd
<1>5. g.fn \in {"suspend", "resume"} => pc # "callback" /\ g.pc # "callback"
  BY <1>2 DEF Transits
<1>6. RInv(At(s, a, pc), X, Y)
  BY <1>4, <1>5, AtInv
<1>7. AtDone(s, At(s, a, pc), a, pc)
  BY <1>1, AtFields
<1> QED BY <1>6, <1>7

(* The caller's frame is on top once the callee's is gone. *)
Below(r, a, g) == r.stack[a] # <<>> /\ Top(r, a) \in CallFrame /\ FrameOK(Top(r, a)) /\ Above(g, Top(r, a))

(* The call below is where Above() says. *)
LEMMA PopBelow ==
  ASSUME NEW s \in States, Shape(s.stack), NEW a \in Actor, s.stack[a] # <<>>, NEW g, g = Top(s, a),
         g.ret \notin {"done", "get", "put"}
  PROVE  Below(Pop(s, a), a, g)
<1> DEFINE n == Len(s.stack[a])
<1>0. PICK r : r = Pop(s, a)
  OBVIOUS
<1>1. n \in Nat \ {0} /\ Live(s.stack, a, n) /\ s.stack[a][n] = g
  BY TopFrame
<1>2. r \in States /\ Agree(s.stack, r.stack, a, n) /\ Len(r.stack[a]) = n - 1
  BY <1>0, PopFields
<1> HIDE DEF n
<1>3. n > 1 /\ n - 1 \in Nat
  BY <1>1 DEF Shape
<1>4. Above(g, s.stack[a][n - 1])
  BY <1>1, <1>3 DEF Shape
<1>5. Live(r.stack, a, n - 1) /\ n - 1 # n
  BY <1>1, <1>2, <1>3 DEF Live
<1>6. Live(s.stack, a, n - 1) /\ r.stack[a][n - 1] = s.stack[a][n - 1]
  BY <1>2, <1>3, <1>5 DEF Agree
<1>7. Top(r, a) = s.stack[a][n - 1]
  BY <1>2, <1>6 DEF Top
<1>8. FrameOK(Top(r, a))
  BY <1>3, <1>6, <1>7 DEF Shape
<1>9. r.stack[a] # <<>>
  <2>1. Len(r.stack[a]) # 0
    BY <1>1, <1>2, <1>3
  <2> QED BY <2>1, EmptySeq
<1>10. Top(r, a) \in CallFrame
  BY <1>2, <1>9, TopFrame
<1> QED BY <1>0, <1>4, <1>7, <1>8, <1>9, <1>10 DEF Below

(* Back in rpm_idle(). *)
LEMMA BackInIdle ==
  ASSUME NEW s, RInv(s, {}, {}), NEW a \in Actor, NEW g, Below(s, a, g), g.ret = "idle"
  PROVE  RInv(At(s, a, "returned"), {}, {})
<1>1. PICK h : h = Top(s, a)
  OBVIOUS
<1>2. h \in CallFrame /\ FrameOK(h) /\ h.fn = "idle" /\ s.stack[a] # <<>>
  BY <1>1 DEF Below, Above
<1>3. PICK f : f = [h EXCEPT !.pc = "returned"]
  OBVIOUS
<1>4. /\ f \in CallFrame /\ f.fn = h.fn /\ f.dev = h.dev /\ f.flags = h.flags /\ f.ret = h.ret
      /\ f.parent = h.parent /\ f.pc = "returned" /\ "returned" \in Places
  <2>1. "returned" \in Places
    BY DEF Places
  <2> QED BY <1>2, <1>3, <2>1, Moved
<1>5. ~Transits(h) /\ ~Transits(f) /\ FrameOK(f) /\ ParentKept(s.dev, f)
  BY <1>2, <1>4 DEF Transits, FrameOK, ParentKept
<1> QED BY <1>1, <1>2, <1>3, <1>4, <1>5, GoInv

(* rpm_suspend() ends after the resume it had deferred. *)
LEMMA SuspendOutInv ==
  ASSUME NEW s, RInv(s, {}, {}), NEW a \in Actor, s.stack[a] # <<>>, NEW g, g = Top(s, a),
         g.fn = "suspend", g.pc # "callback"
  PROVE  RInv(suspend_out(s, a), {}, {})
<1>1. s \in States /\ Shape(s.stack) /\ g \in CallFrame
  BY Kind, TopFrame
<1>2. RInv(Pop(s, a), {}, {})
  BY PopInv DEF Transits
<1>3. CASE g.ret = "idle"
  <2>1. Below(Pop(s, a), a, g)
    BY <1>1, <1>3, PopBelow
  <2>2. suspend_out(s, a) = At(Pop(s, a), a, "returned")
    BY <1>3 DEF suspend_out
  <2> QED BY <1>2, <1>3, <2>1, <2>2, BackInIdle
<1>4. CASE g.ret # "idle"
  <2>1. suspend_out(s, a) = Pop(s, a)
    BY <1>4 DEF suspend_out
  <2> QED BY <1>2, <2>1
<1> QED BY <1>3, <1>4

(* Back in the rpm_resume() of a child. *)
LEMMA BackInChild ==
  ASSUME NEW s, RInv(s, {}, {}), NEW a \in Actor, NEW g, Below(s, a, g), g.ret = "parent",
         NEW pc, pc = IF s.dev[g.dev].status = "ACTIVE" THEN "repeat" ELSE "out"
  PROVE  RInv(At(s, a, pc), {}, {})
<1>1. PICK h : h = Top(s, a)
  OBVIOUS
<1>2. /\ h \in CallFrame /\ FrameOK(h) /\ h.fn = "resume" /\ s.stack[a] # <<>>
      /\ Parent[h.dev] = g.dev /\ h.pc = "parent"
  BY <1>1 DEF Below, Above
<1>3. PICK f : f = [h EXCEPT !.pc = pc]
  OBVIOUS
<1>4. /\ f \in CallFrame /\ f.fn = h.fn /\ f.dev = h.dev /\ f.flags = h.flags /\ f.ret = h.ret
      /\ f.parent = h.parent /\ f.pc = pc /\ pc \in Places
  <2>1. pc \in Places
    BY DEF Places
  <2> QED BY <1>2, <1>3, <2>1, Moved
<1>5. ~Transits(h) /\ ~Transits(f) /\ FrameOK(f) /\ ParentKept(s.dev, f)
  BY <1>2, <1>4 DEF Transits, FrameOK, ParentKept
<1> QED BY <1>1, <1>2, <1>3, <1>4, <1>5, GoInv

(* pm_runtime_get_sync() has succeeded. *)
LEMMA PromiseInv ==
  ASSUME NEW s, RInv(s, {}, {}), NEW t \in Task, NEW d \in Device, s.ref[t][d] # "no", NEW ok,
         ok => s.dev[d].status = "ACTIVE"
  PROVE  RInv([s EXCEPT !.ref[t][d] = IF ok THEN "ok" ELSE @], {}, {})
<1> DEFINE v == IF ok THEN "ok" ELSE s.ref[t][d]
           R == [s.ref EXCEPT ![t] = [s.ref[t] EXCEPT ![d] = v]]
<1>1. s \in States /\ s.ref \in [Task -> [Device -> {"no", "ref", "ok"}]]
  BY Kind, Fields
<1>2. v \in {"no", "ref", "ok"} /\ v # "no"
  BY <1>1
<1>3. v = "ok" => s.ref[t][d] = "ok" \/ s.dev[d].status = "ACTIVE"
  OBVIOUS
<1> HIDE DEF v
<1>4. R \in [Task -> [Device -> {"no", "ref", "ok"}]] /\ R[t][d] = v
  BY <1>1, <1>2
<1>5. \A u \in Task, e \in Device : u # t \/ e # d => R[u][e] = s.ref[u][e]
  BY <1>1
<1> HIDE DEF R
<1>6. PICK r : r = [s EXCEPT !.ref = R]
  OBVIOUS
<1>7. r \in States /\ r.dev = s.dev /\ r.stack = s.stack /\ r.work = s.work /\ r.lapsed = s.lapsed /\ r.ref = R
  BY <1>1, <1>4, <1>6 DEF States
<1>8. [s EXCEPT !.ref[t][d] = IF ok THEN "ok" ELSE @] = r
  BY <1>6 DEF R, v
<1>9. RefOnly(s, r, t, d) /\ SameStatus(s, r)
  BY <1>5, <1>7 DEF RefOnly, SameStatus
<1>10. /\ s.ref[t][d] = "no" <=> r.ref[t][d] = "no"
       /\ r.ref[t][d] = "ok" => s.ref[t][d] = "ok" \/ s.dev[d].status = "ACTIVE"
       /\ \A e \in Device : /\ r.dev[e].usage = s.dev[e].usage /\ r.dev[e].timer = s.dev[e].timer
                            /\ r.dev[e].pending = s.dev[e].pending
  BY <1>2, <1>3, <1>4, <1>7
<1>11. RInv(r, {}, {})
  BY <1>9, <1>10, RefInv
<1> QED BY <1>8, <1>11

(* A call returns, and its caller goes on. *)
LEMMA ReturnInv ==
  ASSUME NEW s, RInv(s, {}, {}), NEW a \in Actor, s.stack[a] # <<>>, NEW g, g = Top(s, a), ~Transits(g),
         g.fn # "barrier", g.fn = "work" => ~s.dev[g.dev].pending, ~g.parent,
         NEW ok, ok /\ g.ret = "get" => s.dev[g.dev].status = "ACTIVE"
  PROVE  RInv(Return(s, a, ok), {}, {})
<1>1. /\ s \in States /\ Shape(s.stack) /\ HeldInv(s) /\ g \in CallFrame /\ Len(s.stack[a]) \in Nat
      /\ Live(s.stack, a, Len(s.stack[a])) /\ s.stack[a][Len(s.stack[a])] = g
  BY Kind, TopFrame
<1>2. FrameOK(g) /\ g.dev \in Device
  BY <1>1 DEF Shape, CallFrame
<1>3. PICK r : r = Pop(s, a)
  OBVIOUS
<1>4. r \in States /\ r.dev = s.dev /\ r.ref = s.ref
  BY <1>1, <1>3, PopFields DEF StackOnly
<1>5. g.ret \notin {"done", "get", "put"} => Below(r, a, g)
  BY <1>1, <1>3, PopBelow
<1>6. g.ret # "disable" => RInv(r, {}, {})
  BY <1>3, PopInv
<1>7. CASE g.ret = "done"
  <2>1. Return(s, a, ok) = r
    BY <1>3, <1>7 DEF Return
  <2> QED BY <1>6, <1>7, <2>1
<1>8. CASE g.ret = "get"
  <2>1. Return(s, a, ok) = [r EXCEPT !.ref[a][g.dev] = IF ok THEN "ok" ELSE @]
    BY <1>3, <1>8 DEF Return
  <2>2. a \in Task /\ r.ref[a][g.dev] # "no"
    BY <1>1, <1>4, <1>8 DEF Shape, HeldInv, Promised
  <2> QED BY <1>2, <1>4, <1>6, <1>8, <2>1, <2>2, PromiseInv
<1>9. CASE g.ret = "suspend"
  <2>1. Return(s, a, ok) = suspend_out(r, a)
    BY <1>3, <1>9 DEF Return
  <2>2. r.stack[a] # <<>> /\ Top(r, a).fn = "suspend" /\ Top(r, a).pc # "callback"
    BY <1>5, <1>9 DEF Below, Above
  <2> QED BY <1>6, <1>9, <2>1, <2>2, SuspendOutInv
<1>10. CASE g.ret = "idle"
  <2>1. Return(s, a, ok) = At(r, a, "returned")
    BY <1>3, <1>10 DEF Return
  <2> QED BY <1>5, <1>6, <1>10, <2>1, BackInIdle
<1>11. CASE g.ret = "parent"
  <2>1. PICK pc : pc = IF s.dev[g.dev].status = "ACTIVE" THEN "repeat" ELSE "out"
    OBVIOUS
  <2>2. Return(s, a, ok) = At(r, a, pc)
    BY <1>3, <1>11, <2>1 DEF Return
  <2> QED BY <1>4, <1>5, <1>6, <1>11, <2>1, <2>2, BackInChild
<1>12. CASE g.ret = "barrier"
  <2>1. Return(s, a, ok) = __pm_runtime_barrier(r, a)
    BY <1>3, <1>12 DEF Return
  <2>2. r.stack[a] # <<>> /\ Top(r, a).fn = "barrier" /\ Top(r, a).pc = "repeat"
    BY <1>5, <1>12 DEF Below, Above
  <2>3. RInv(r, {Top(r, a).dev}, {})
    BY <1>6, <1>12, Exempt
  <2> QED BY <2>1, <2>2, <2>3, BarrierInv
<1>13. CASE g.ret = "disable"
  <2>1. PICK q : q = pm_runtime_put_noidle(r, g.dev)
    OBVIOUS
  <2>2. Return(s, a, ok) = disable_now(q, a)
    BY <1>3, <1>13, <2>1 DEF Return
  <2>3. g.fn = "resume"
    BY <1>1, <1>2, <1>13 DEF FrameOK, CallFrame
  <2>4. RInv(q, {}, {}) /\ Used1(r, q, g.dev)
    BY <1>3, <1>13, <2>1, <2>3, PopPutInv
  <2>5. q.stack[a] # <<>> /\ Top(q, a).fn = "barrier" /\ Top(q, a).pc = "repeat"
    BY <1>5, <1>13, <2>4 DEF Below, Above, Used1, DevOnly, Top
  <2> QED BY <2>2, <2>4, <2>5, DisableInv
<1>14. g.ret \in {"done", "get", "suspend", "idle", "parent", "barrier", "disable"}
  BY <1>1, <1>2 DEF FrameOK, CallFrame
<1> QED BY <1>7, <1>8, <1>9, <1>10, <1>11, <1>12, <1>13, <1>14

(* rpm_resume() is at its label out. *)
LEMMA ResumeOutInv ==
  ASSUME NEW s, RInv(s, {}, {}), NEW a \in Actor, s.stack[a] # <<>>, NEW g, g = Top(s, a),
         g.fn = "resume", g.pc # "callback", NEW ok, ok /\ g.ret = "get" => s.dev[g.dev].status = "ACTIVE"
  PROVE  RInv(resume_out(s, a, ok), {}, {})
<1>1. /\ s \in States /\ Shape(s.stack) /\ g \in CallFrame /\ Len(s.stack[a]) \in Nat
      /\ Live(s.stack, a, Len(s.stack[a])) /\ s.stack[a][Len(s.stack[a])] = g
  BY Kind, TopFrame
<1>2. FrameOK(g) /\ ~Transits(g)
  BY <1>1 DEF Shape, Transits
<1>3. CASE g.parent
  <2>1. PICK pc : pc = IF ok THEN "put_ok" ELSE "put"
    OBVIOUS
  <2>2. resume_out(s, a, ok) = At(s, a, pc)
    BY <1>3, <2>1 DEF resume_out
  <2>3. PICK f : f = [g EXCEPT !.pc = pc]
    OBVIOUS
  <2>4. pc \in Places
    BY <2>1 DEF Places
  <2>5. /\ f \in CallFrame /\ f.fn = g.fn /\ f.dev = g.dev /\ f.flags = g.flags /\ f.ret = g.ret
        /\ f.parent = g.parent /\ f.pc = pc
    BY <1>1, <2>3, <2>4, Moved
  <2>6. pc \in {"put", "put_ok"}
    BY <2>1
  <2>7. ~Transits(f) /\ FrameOK(f) /\ ParentKept(s.dev, f)
    BY <1>2, <1>3, <2>5, <2>6 DEF Transits, FrameOK, ParentKept
  <2>8. /\ pc = "put_ok" /\ g.ret = "get" => s.dev[g.dev].status = "ACTIVE"
        /\ pc # "sleep"
    BY <2>1
  <2> QED BY <1>2, <2>2, <2>3, <2>4, <2>7, <2>8, GoInv
<1>4. CASE ~g.parent
  <2>1. resume_out(s, a, ok) = Return(s, a, ok)
    BY <1>4 DEF resume_out
  <2> QED BY <1>2, <1>4, <2>1, ReturnInv
<1> QED BY <1>3, <1>4

(* The request, the timer and the deferred resume may be cleared or set at any time. *)
LEMMA MinorStep ==
  ASSUME NEW s, RInv(s, {}, {}), NEW d \in Device, NEW p \in Power, Major(s.dev[d], p), p.pending = s.dev[d].pending,
         s.dev[d].disable_depth > 0 => p.timer \in {"off", s.dev[d].timer}
  PROVE  /\ RInv(With(s, d, p), {}, {}) /\ With(s, d, p).stack = s.stack
         /\ With(s, d, p).dev[d] = p /\ With(s, d, p).ref = s.ref
         /\ \A e \in Device : e # d => With(s, d, p).dev[e] = s.dev[e]
<1>1. s \in States
  BY Kind
<1>2. PICK r : r = With(s, d, p)
  OBVIOUS
<1>3. Minor(s, r, d) /\ r.dev[d] = p
  BY <1>1, <1>2, MinorSet
<1>4. RInv(r, {}, {})
  BY <1>3, MinorDev
<1> QED BY <1>2, <1>3, <1>4 DEF Minor, DevOnly

(* A call goes to sleep on a change that is going on. *)
LEMMA Sleeps ==
  ASSUME NEW s, RInv(s, {}, {}), NEW a \in Actor, s.stack[a] # <<>>, NEW g, g = Top(s, a),
         g.fn \in {"resume", "suspend"}, g.pc # "callback", ParentKept(s.dev, [g EXCEPT !.pc = "sleep"]),
         AwaitsEnd(s.dev[g.dev], g)
  PROVE  RInv(At(s, a, "sleep"), {}, {})
<1>1. /\ s \in States /\ Shape(s.stack) /\ g \in CallFrame /\ Len(s.stack[a]) \in Nat
      /\ Live(s.stack, a, Len(s.stack[a])) /\ s.stack[a][Len(s.stack[a])] = g
  BY Kind, TopFrame
<1>2. FrameOK(g) /\ ~Transits(g) /\ "sleep" \in Places
  BY <1>1 DEF Shape, Transits, Places
<1>3. PICK f : f = [g EXCEPT !.pc = "sleep"]
  OBVIOUS
<1>4. /\ f \in CallFrame /\ f.fn = g.fn /\ f.dev = g.dev /\ f.flags = g.flags /\ f.ret = g.ret
      /\ f.parent = g.parent /\ f.pc = "sleep"
  BY <1>1, <1>2, <1>3, Moved
<1>5. ~Transits(f) /\ FrameOK(f) /\ ParentKept(s.dev, f) /\ g.fn # "barrier"
  BY <1>2, <1>3, <1>4 DEF Transits, FrameOK
<1> QED BY <1>2, <1>3, <1>5, GoInv

(* A resume that has the parent is where the parent is known to be active. *)
Kept(s, g) == g.parent /\ Parent[g.dev] \in Device \ Used => s.dev[Parent[g.dev]].status = "ACTIVE"

(* rpm_resume() from its label repeat to where it drops the lock. *)
LEMMA ResumeBodyInv ==
  ASSUME NEW s, RInv(s, {}, {}), NEW a \in Actor, s.stack[a] # <<>>, NEW g, g = Top(s, a),
         g.fn = "resume", g.pc \in {"repeat", "woken"}
  PROVE  RInv(rpm_resume_body(s, a), {}, {})
<1>1. /\ s \in States /\ Shape(s.stack) /\ ParentInv(s) /\ g \in CallFrame /\ Len(s.stack[a]) \in Nat
      /\ Live(s.stack, a, Len(s.stack[a])) /\ s.stack[a][Len(s.stack[a])] = g
  BY Kind, TopFrame
<1>2. FrameOK(g) /\ ~Transits(g) /\ ParentKept(s.dev, g)
  BY <1>1 DEF Shape, Transits, ParentInv
<1>3. PICK d : d = g.dev
  OBVIOUS
<1>4. PICK p : p = s.dev[d]
  OBVIOUS
<1>5. d \in Device /\ p \in Power
  BY <1>1, <1>3, <1>4, Fields DEF CallFrame
<1>6. p.status \in {"ACTIVE", "RESUMING", "SUSPENDED", "SUSPENDING"} /\ p.disable_depth \in Nat
  BY <1>5 DEF Power
<1>7. Kept(s, g)
  BY <1>2 DEF Kept, ParentKept
<1>8. PICK q : q = [p EXCEPT !.request = "NONE", !.timer = IF p.timer = "suspend" THEN "off" ELSE p.timer]
  OBVIOUS
<1>9. q \in Power /\ Major(p, q) /\ q.pending = p.pending /\ q.timer \in {"off", p.timer}
  BY <1>5, <1>8 DEF Power, Major
<1>10. PICK none : none = With(s, d, q)
  OBVIOUS
<1>11. /\ RInv(none, {}, {}) /\ none.stack = s.stack /\ none.dev[d] = q
       /\ \A e \in Device : e # d => none.dev[e] = s.dev[e]
  BY <1>4, <1>5, <1>9, <1>10, MinorStep
<1>12. none \in States /\ Top(none, a) = g /\ none.stack[a] # <<>> /\ q.status = p.status /\ q.disable_depth = p.disable_depth
  BY <1>9, <1>11, Kind DEF Top, Major
<1>13. Kept(none, g)
  BY <1>4, <1>7, <1>11, <1>12 DEF Kept
<1> DEFINE nowait == g.flags \cap {"ASYNC", "NOWAIT"} # {}
<1>14. CASE p.error \/ p.disable_depth > 0
  <2>1. rpm_resume_body(s, a) = resume_out(s, a, FALSE)
    BY <1>3, <1>4, <1>14 DEF rpm_resume_body
  <2> QED BY <1>2, <2>1, ResumeOutInv DEF Transits
<1>15. CASE ~(p.error \/ p.disable_depth > 0) /\ p.status = "ACTIVE"
  <2>0. PICK ok : ok = TRUE
    OBVIOUS
  <2>1. rpm_resume_body(s, a) = resume_out(none, a, ok)
    BY <1>3, <1>4, <1>8, <1>10, <1>15, <2>0 DEF rpm_resume_body
  <2>2. none.dev[g.dev].status = "ACTIVE" /\ g.pc # "callback"
    BY <1>3, <1>11, <1>12, <1>15
  <2> QED BY <1>11, <1>12, <2>1, <2>2, ResumeOutInv
<1>16. CASE ~(p.error \/ p.disable_depth > 0) /\ p.status \in {"RESUMING", "SUSPENDING"} /\ ~nowait
  <2>1. rpm_resume_body(s, a) = At(none, a, "sleep")
    BY <1>3, <1>4, <1>8, <1>10, <1>16 DEF rpm_resume_body
  <2>2. AwaitsEnd(none.dev[g.dev], g) /\ g.pc # "callback"
    BY <1>3, <1>11, <1>12, <1>16 DEF AwaitsEnd
  <2>3. ParentKept(none.dev, [g EXCEPT !.pc = "sleep"])
    BY <1>1, <1>13 DEF ParentKept, Kept, CallFrame
  <2> QED BY <1>11, <1>12, <2>1, <2>2, <2>3, Sleeps
<1>17. CASE ~(p.error \/ p.disable_depth > 0) /\ p.status \in {"RESUMING", "SUSPENDING"} /\ nowait
  <2>1. PICK u : u = [q EXCEPT !.deferred = q.deferred \/ p.status = "SUSPENDING"]
    OBVIOUS
  <2>2. u \in Power /\ Major(q, u) /\ u.pending = q.pending /\ u.timer = q.timer
    BY <1>9, <2>1 DEF Power, Major
  <2>3. PICK r : r = With(none, d, u)
    OBVIOUS
  <2>4. RInv(r, {}, {}) /\ r.stack = s.stack
    BY <1>5, <1>11, <2>2, <2>3, MinorStep
  <2>5. PICK ok : ok = (p.status = "SUSPENDING")
    OBVIOUS
  <2>6. rpm_resume_body(s, a) = resume_out(r, a, ok)
    BY <1>3, <1>4, <1>8, <1>10, <1>11, <1>17, <2>1, <2>3, <2>5 DEF rpm_resume_body
  <2>7. g.ret # "get" /\ Top(r, a) = g /\ r.stack[a] # <<>> /\ g.pc # "callback"
    BY <1>2, <1>17, <2>4 DEF FrameOK, Top
  <2> QED BY <2>4, <2>6, <2>7, ResumeOutInv
<1>18. CASE ~(p.error \/ p.disable_depth > 0) /\ p.status = "SUSPENDED"
  <2>0. q.status = "SUSPENDED" /\ q.disable_depth = 0
    BY <1>6, <1>12, <1>18
  <2>1. CASE "ASYNC" \in g.flags
    <3>1. PICK r : r = queue_request(none, d, "RESUME")
      OBVIOUS
    <3>2. rpm_resume_body(s, a) = Return(r, a, TRUE)
      BY <1>3, <1>4, <1>8, <1>10, <1>18, <2>1, <3>1 DEF rpm_resume_body
    <3>3. RInv(r, {}, {})
      BY <1>5, <1>11, <2>0, <3>1, QueueInv
    <3>4. Queued(none, r, d)
      BY <1>5, <1>12, <3>1, QueueFields
    <3>5. r.stack[a] # <<>> /\ Top(r, a) = g
      BY <1>12, <3>4 DEF Queued, Top
    <3>6. g.ret = "done" /\ ~g.parent
      BY <1>1, <1>2, <2>1 DEF FrameOK, CallFrame
    <3> QED BY <1>2, <3>2, <3>3, <3>5, <3>6, ReturnInv
  <2>2. CASE "ASYNC" \notin g.flags /\ ~g.parent /\ Parent[d] # NoParent
    <3>1. rpm_resume_body(s, a) = get_parent(none, a)
      BY <1>3, <1>4, <1>8, <1>10, <1>18, <2>2 DEF rpm_resume_body
    <3> QED BY <1>3, <1>11, <1>12, <2>2, <3>1, GetParentInv
  <2>3. CASE "ASYNC" \notin g.flags /\ (g.parent \/ Parent[d] = NoParent)
    <3>1. PICK u : u = [q EXCEPT !.status = "RESUMING"]
      OBVIOUS
    <3>2. u \in Power /\ u.status = "RESUMING"
      BY <1>9, <3>1 DEF Power
    <3>3. rpm_resume_body(s, a) = At(With(none, d, u), a, "callback")
      BY <1>3, <1>4, <1>8, <1>10, <1>11, <1>18, <2>3, <3>1 DEF rpm_resume_body
    <3>4. Changes(g.fn) = "RESUMING"
      BY DEF Changes
    <3>5. /\ none.dev[g.dev].status = "SUSPENDED" /\ (g.parent \/ Parent[g.dev] = NoParent)
          /\ g.parent /\ Parent[g.dev] \in Device \ Used => none.dev[Parent[g.dev]].status = "ACTIVE"
          /\ none.dev[g.dev].disable_depth = 0 /\ u = [none.dev[g.dev] EXCEPT !.status = u.status]
      BY <1>3, <1>11, <1>13, <2>0, <2>3, <3>1, <3>2 DEF Kept
    <3> QED BY <1>3, <1>11, <1>12, <3>2, <3>3, <3>4, <3>5, BeginInv
  <2> QED BY <2>1, <2>2, <2>3
<1> QED BY <1>6, <1>14, <1>15, <1>16, <1>17, <1>18

(* rpm_suspend() from its label repeat to where it drops the lock. *)
LEMMA SuspendBodyInv ==
  ASSUME NEW s, RInv(s, {}, {}), NEW a \in Actor, s.stack[a] # <<>>, NEW g, g = Top(s, a),
         g.fn = "suspend", g.pc # "callback", NEW later
  PROVE  RInv(rpm_suspend_body(s, a, later), {}, {})
<1>1. /\ s \in States /\ Shape(s.stack) /\ g \in CallFrame /\ Len(s.stack[a]) \in Nat
      /\ Live(s.stack, a, Len(s.stack[a])) /\ s.stack[a][Len(s.stack[a])] = g
  BY Kind, TopFrame
<1>2. FrameOK(g) /\ ~Transits(g)
  BY <1>1 DEF Shape, Transits
<1>3. ~g.parent /\ g.ret # "get"
  BY <1>2 DEF FrameOK
<1>4. PICK d : d = g.dev
  OBVIOUS
<1>5. PICK p : p = s.dev[d]
  OBVIOUS
<1>6. d \in Device /\ p \in Power
  BY <1>1, <1>4, <1>5, Fields DEF CallFrame
<1>7. p.status \in {"ACTIVE", "RESUMING", "SUSPENDED", "SUSPENDING"} /\ p.disable_depth \in Nat
      /\ p.usage \in Nat /\ p.child_count \in Nat
  BY <1>6 DEF Power
<1> DEFINE refused == rpm_check_suspend_allowed(p) # "ok" \/ (p.status = "RESUMING" /\ "ASYNC" \notin g.flags)
           wait == "AUTO" \in g.flags /\ p.status # "SUSPENDING" /\ later
<1>8. CASE refused
  <2>1. rpm_suspend_body(s, a, later) = Return(s, a, FALSE)
    BY <1>4, <1>5, <1>8 DEF rpm_suspend_body
  <2> QED BY <1>2, <1>3, <2>1, ReturnInv
<1>9. ASSUME ~refused
      PROVE  p.disable_depth = 0 /\ p.usage = 0 /\ p.child_count = 0 /\ p.status # "SUSPENDED"
  BY <1>7, <1>9 DEF rpm_check_suspend_allowed
<1>10. CASE ~refused /\ wait
  <2>1. PICK q : q = [p EXCEPT !.request = "NONE", !.timer = "autosuspend"]
    OBVIOUS
  <2>2. q \in Power /\ Major(p, q) /\ q.pending = p.pending
    BY <1>6, <2>1 DEF Power, Major
  <2>3. PICK r : r = With(s, d, q)
    OBVIOUS
  <2>4. ~(s.dev[d].disable_depth > 0)
    BY <1>5, <1>9, <1>10
  <2>5. RInv(r, {}, {}) /\ r.stack = s.stack
    BY <1>5, <1>6, <2>2, <2>3, <2>4, MinorStep
  <2>6. rpm_suspend_body(s, a, later) = Return(r, a, TRUE)
    BY <1>4, <1>5, <1>10, <2>1, <2>3 DEF rpm_suspend_body
  <2>7. r.stack[a] # <<>> /\ Top(r, a) = g
    BY <2>5 DEF Top
  <2> QED BY <1>2, <1>3, <2>5, <2>6, <2>7, ReturnInv
<1>11. PICK q : q = [p EXCEPT !.timer = "off", !.request = "NONE"]
  OBVIOUS
<1>12. PICK c : c = With(s, d, q)
  OBVIOUS
<1>0. c = pm_runtime_cancel_pending(s, d)
  BY <1>5, <1>11, <1>12 DEF pm_runtime_cancel_pending
<1>13. q \in Power /\ Major(p, q) /\ q.pending = p.pending /\ q.timer = "off"
  BY <1>6, <1>11 DEF Power, Major
<1>14. RInv(c, {}, {}) /\ c.stack = s.stack /\ c.dev[d] = q
  <2>1. Major(s.dev[d], q) /\ q.pending = s.dev[d].pending /\ q.timer \in {"off", s.dev[d].timer}
    BY <1>5, <1>13
  <2> HIDE DEF refused, wait
  <2> QED BY <1>6, <1>12, <1>13, <2>1, MinorStep
<1>15. /\ c.stack[a] # <<>> /\ Top(c, a) = g /\ q.status = p.status /\ q.usage = p.usage
       /\ q.child_count = p.child_count /\ q.disable_depth = p.disable_depth
  BY <1>13, <1>14 DEF Top, Major
<1>16. CASE ~refused /\ ~wait /\ p.status = "SUSPENDING" /\ g.flags \cap {"ASYNC", "NOWAIT"} # {}
  <2>1. rpm_suspend_body(s, a, later) = Return(c, a, FALSE)
    BY <1>0, <1>4, <1>5, <1>16 DEF rpm_suspend_body
  <2> QED BY <1>2, <1>3, <1>14, <1>15, <2>1, ReturnInv
<1>17. CASE ~refused /\ ~wait /\ p.status = "SUSPENDING" /\ g.flags \cap {"ASYNC", "NOWAIT"} = {}
  <2>1. rpm_suspend_body(s, a, later) = At(c, a, "sleep")
    BY <1>0, <1>4, <1>5, <1>17 DEF rpm_suspend_body
  <2>2. AwaitsEnd(c.dev[g.dev], g)
    BY <1>4, <1>14, <1>15, <1>17 DEF AwaitsEnd
  <2>3. ParentKept(c.dev, [g EXCEPT !.pc = "sleep"])
    BY <1>1, <1>3 DEF ParentKept, CallFrame
  <2> QED BY <1>14, <1>15, <2>1, <2>2, <2>3, Sleeps
<1>18. PICK v : v = [q EXCEPT !.deferred = FALSE]
  OBVIOUS
<1>19. PICK u : u = With(c, d, v)
  OBVIOUS
<1>20. v \in Power /\ Major(q, v) /\ v.pending = q.pending /\ v.timer = q.timer
  BY <1>13, <1>18 DEF Power, Major
<1>21. RInv(u, {}, {}) /\ u.stack = s.stack /\ u.dev[d] = v
  BY <1>6, <1>14, <1>19, <1>20, MinorStep
<1>22. /\ u.stack[a] # <<>> /\ Top(u, a) = g /\ v.status = p.status /\ v.usage = p.usage
       /\ v.child_count = p.child_count /\ v.disable_depth = p.disable_depth /\ u \in States
  BY <1>15, <1>20, <1>21, Kind DEF Top, Major
<1>23. CASE ~refused /\ ~wait /\ p.status # "SUSPENDING" /\ "ASYNC" \in g.flags
  <2>1. PICK rq : rq = IF "AUTO" \in g.flags THEN "AUTOSUSPEND" ELSE "SUSPEND"
    OBVIOUS
  <2>2. PICK r : r = queue_request(u, d, rq)
    OBVIOUS
  <2>3. rpm_suspend_body(s, a, later) = Return(r, a, TRUE)
    BY <1>0, <1>4, <1>5, <1>14, <1>18, <1>19, <1>23, <2>1, <2>2 DEF rpm_suspend_body
  <2>4. rq \in {"NONE", "IDLE", "SUSPEND", "AUTOSUSPEND", "RESUME"} /\ u.dev[d].disable_depth = 0
    BY <1>9, <1>21, <1>22, <1>23, <2>1
  <2>5. RInv(r, {}, {}) /\ Queued(u, r, d)
    BY <1>6, <1>21, <1>22, <2>2, <2>4, QueueInv, QueueFields
  <2>6. r.stack[a] # <<>> /\ Top(r, a) = g
    BY <1>22, <2>5 DEF Queued, Top
  <2> QED BY <1>2, <1>3, <2>3, <2>5, <2>6, ReturnInv
<1>24. CASE ~refused /\ ~wait /\ p.status # "SUSPENDING" /\ "ASYNC" \notin g.flags
  <2>1. PICK w : w = [v EXCEPT !.status = "SUSPENDING"]
    OBVIOUS
  <2>2. w \in Power /\ w.status = "SUSPENDING"
    BY <1>20, <2>1 DEF Power
  <2>3. rpm_suspend_body(s, a, later) = At(With(u, d, w), a, "callback")
    BY <1>0, <1>4, <1>5, <1>14, <1>18, <1>19, <1>21, <1>24, <2>1 DEF rpm_suspend_body
  <2>4. Changes(g.fn) = "SUSPENDING"
    BY DEF Changes
  <2>5. /\ u.dev[g.dev].status = "ACTIVE" /\ u.dev[g.dev].usage = 0 /\ u.dev[g.dev].child_count = 0
        /\ u.dev[g.dev].disable_depth = 0 /\ w = [u.dev[g.dev] EXCEPT !.status = w.status]
    BY <1>4, <1>7, <1>9, <1>21, <1>22, <1>24, <2>1, <2>2
  <2> QED BY <1>4, <1>21, <1>22, <2>2, <2>3, <2>4, <2>5, BeginInv
<1> QED BY <1>8, <1>10, <1>16, <1>17, <1>23, <1>24

(* The invariant between two steps: no exceptions. *)
RpmInvariant == RInv(State, {}, {})

(* An action that sets a state with the invariant keeps it. *)
LEMMA Becomes ==
  ASSUME NEW r, Set(r), RInv(r, {}, {})
  PROVE  RpmInvariant'
<1>1. r \in States
  BY Kind
<1>2. State' = r
  BY <1>1 DEF States, Set, State
<1> QED BY <1>2 DEF RpmInvariant

(* The state as a record, and the call on top of a stack. *)
Now(s) == s.dev = dev /\ s.work = work /\ s.stack = stack /\ s.ref = ref /\ s.lapsed = lapsed /\ s = State

(* The variables as a state. *)
LEMMA NowState ==
  \E s : Now(s)
BY DEF Now, State

(* What is known of the innermost call. *)
Called(s, a, g) ==
  /\ s \in States /\ s.stack[a] # <<>> /\ g = Top(s, a) /\ g \in CallFrame /\ g.dev \in Device /\ FrameOK(g)
  /\ ParentKept(s.dev, g) /\ Promised(s, a, g) /\ Dev(a) = g.dev

(* It follows from the invariant. *)
LEMMA Calling ==
  ASSUME RpmInvariant, NEW s, Now(s), NEW a \in Actor, NEW fn, NEW pcs, In(a, fn, pcs),
         NEW g, g = Top(s, a)
  PROVE  Called(s, a, g) /\ RInv(s, {}, {}) /\ g.fn = fn /\ g.pc \in pcs
<1>1. RInv(s, {}, {}) /\ s = State /\ s.stack = stack
  BY DEF RpmInvariant, Now
<1>2. s.stack[a] # <<>> /\ g.fn = fn /\ g.pc \in pcs /\ Dev(a) = g.dev
  BY <1>1 DEF In, Dev, Top
<1>3. /\ s \in States /\ Shape(s.stack) /\ ParentInv(s) /\ HeldInv(s) /\ g \in CallFrame /\ Len(s.stack[a]) \in Nat
      /\ Live(s.stack, a, Len(s.stack[a])) /\ s.stack[a][Len(s.stack[a])] = g
  BY <1>1, <1>2, Kind, TopFrame
<1>4. FrameOK(g) /\ ParentKept(s.dev, g) /\ Promised(s, a, g) /\ g.dev \in Device
  BY <1>3 DEF Shape, ParentInv, HeldInv, CallFrame
<1> QED BY <1>1, <1>2, <1>3, <1>4 DEF Called

(* The fields of a call that begins. *)
LEMMA NewFrame ==
  ASSUME NEW fn \in {"resume", "suspend", "idle", "barrier", "work"}, NEW d \in Device, NEW flags \in SUBSET Flags,
         NEW ret \in {"done", "get", "put", "suspend", "idle", "parent", "barrier", "disable"},
         NEW f, f = Frame(fn, d, flags, ret)
  PROVE  /\ f \in CallFrame /\ f.fn = fn /\ f.dev = d /\ f.flags = flags /\ f.ret = ret /\ ~f.parent
         /\ f.pc = "repeat"
BY DEF Frame, CallFrame, Places

(* It is then the innermost. *)
LEMMA PushTop ==
  ASSUME NEW s \in States, NEW a \in Actor, NEW f \in CallFrame
  PROVE  Push(s, a, f) \in States /\ Push(s, a, f).stack[a] # <<>> /\ Top(Push(s, a, f), a) = f
         /\ StackOnly(s, Push(s, a, f))
BY PushFields

(* Resume, begun inside another call. *)
LEMMA NestedResume ==
  ASSUME NEW s, RInv(s, {}, {}), NEW a \in Actor, NEW d \in Device, NEW flags \in SUBSET Flags,
         NEW ret \in {"done", "suspend", "parent", "barrier"},
         s.stack[a] = <<>> => ret = "done",
         s.stack[a] # <<>> => Above(Frame("resume", d, flags, ret), Top(s, a)),
         ret # "done" => flags = {}
  PROVE  RInv(rpm_resume_body(Push(s, a, Frame("resume", d, flags, ret)), a), {}, {})
<1>1. PICK f : f = Frame("resume", d, flags, ret)
  OBVIOUS
<1>2. /\ f \in CallFrame /\ f.fn = "resume" /\ f.dev = d /\ f.flags = flags /\ f.ret = ret /\ ~f.parent
      /\ f.pc = "repeat"
  BY <1>1, NewFrame
<1>3. FrameOK(f) /\ f.ret # "get" /\ f.ret # "disable" /\ f.fn # "barrier"
  BY <1>2 DEF FrameOK
<1>4. PICK r : r = Push(s, a, f)
  OBVIOUS
<1>5. RInv(r, {}, {})
  BY <1>1, <1>2, <1>3, <1>4, PushInv
<1>6. r.stack[a] # <<>> /\ Top(r, a) = f
  BY <1>2, <1>4, Kind, PushTop
<1> QED BY <1>1, <1>2, <1>4, <1>5, <1>6, ResumeBodyInv

(* One lemma for every action: rpm_resume() at its beginning, or woken up. *)
LEMMA ResumeKeeps ==
  ASSUME RpmInvariant, NEW a \in Actor, rpm_resume(a)
  PROVE  RpmInvariant'
<1>1. PICK s : Now(s)
  BY NowState
<1>2. PICK g : g = Top(s, a)
  OBVIOUS
<1>3. In(a, "resume", {"repeat", "woken"})
  BY DEF rpm_resume
<1>4. Called(s, a, g) /\ RInv(s, {}, {}) /\ g.fn = "resume" /\ g.pc \in {"repeat", "woken"}
  BY <1>1, <1>2, <1>3, Calling
<1>5. s = State /\ s.dev = dev /\ Dev(a) = g.dev /\ s.stack[a] # <<>> /\ g \in CallFrame /\ ParentKept(s.dev, g)
  BY <1>1, <1>4 DEF Now, Called
<1>6. CASE g.pc = "woken" /\ s.dev[g.dev].status \in {"RESUMING", "SUSPENDING"}
  <2>1. Set(At(s, a, "sleep"))
    BY <1>2, <1>5, <1>6 DEF rpm_resume
  <2>2. AwaitsEnd(s.dev[g.dev], g) /\ ParentKept(s.dev, [g EXCEPT !.pc = "sleep"])
    BY <1>4, <1>5, <1>6 DEF AwaitsEnd, ParentKept, CallFrame
  <2>3. RInv(At(s, a, "sleep"), {}, {})
    BY <1>2, <1>4, <1>5, <1>6, <2>2, Sleeps
  <2> QED BY <2>1, <2>3, Becomes
<1>7. CASE ~(g.pc = "woken" /\ s.dev[g.dev].status \in {"RESUMING", "SUSPENDING"})
  <2>1. Set(rpm_resume_body(s, a))
    BY <1>2, <1>5, <1>7 DEF rpm_resume
  <2>2. RInv(rpm_resume_body(s, a), {}, {})
    BY <1>2, <1>4, <1>5, ResumeBodyInv
  <2> QED BY <2>1, <2>2, Becomes
<1> QED BY <1>6, <1>7

(* The resume of the parent begins. *)
LEMMA ResumeParentKeeps ==
  ASSUME RpmInvariant, NEW a \in Actor, resume_parent(a)
  PROVE  RpmInvariant'
<1>1. PICK s : Now(s)
  BY NowState
<1>2. PICK g : g = Top(s, a)
  OBVIOUS
<1>3. In(a, "resume", {"parent"})
  BY DEF resume_parent
<1>4. Called(s, a, g) /\ RInv(s, {}, {}) /\ g.fn = "resume" /\ g.pc = "parent"
  BY <1>1, <1>2, <1>3, Calling
<1>5. /\ s = State /\ s.dev = dev /\ Dev(a) = g.dev /\ s.stack[a] # <<>> /\ g \in CallFrame /\ FrameOK(g)
      /\ g.dev \in Device
  BY <1>1, <1>4 DEF Now, Called
<1>6. PICK par : par = Parent[g.dev]
  OBVIOUS
<1>7. g.parent /\ par \in Device
  BY <1>4, <1>5, <1>6, ParentAssumption DEF FrameOK
<1>8. CASE s.dev[par].disable_depth > 0
  <2>1. Set(At(s, a, "repeat"))
    BY <1>5, <1>6, <1>8 DEF resume_parent
  <2>2. PICK f : f = [g EXCEPT !.pc = "repeat"]
    OBVIOUS
  <2>3. "repeat" \in Places
    BY DEF Places
  <2>4. /\ f \in CallFrame /\ f.fn = g.fn /\ f.dev = g.dev /\ f.flags = g.flags /\ f.ret = g.ret
        /\ f.parent = g.parent /\ f.pc = "repeat"
    BY <1>5, <2>2, <2>3, Moved
  <2>5. FrameOK(f) /\ ~Transits(f) /\ ~Transits(g)
    BY <1>4, <1>5, <2>4 DEF FrameOK, Transits
  <2>6. ParentKept(s.dev, f)
    <3>1. par \in Used
      BY <1>4, <1>7, <1>8, Kind DEF ParentInv
    <3> QED BY <1>6, <2>4, <3>1 DEF ParentKept
  <2>7. RInv(At(s, a, "repeat"), {}, {})
    BY <1>2, <1>4, <1>5, <2>2, <2>3, <2>5, <2>6, GoInv
  <2> QED BY <2>1, <2>7, Becomes
<1>9. CASE ~(s.dev[par].disable_depth > 0)
  <2>1. PICK r : r = rpm_resume_body(Push(s, a, Frame("resume", par, {}, "parent")), a)
    OBVIOUS
  <2>2. Set(r)
    BY <1>5, <1>6, <1>9, <2>1 DEF resume_parent
  <2>3. Above(Frame("resume", par, {}, "parent"), g)
    BY <1>4, <1>6 DEF Above, Frame
  <2>4. RInv(r, {}, {})
    BY <1>2, <1>4, <1>5, <1>7, <2>1, <2>3, NestedResume
  <2> QED BY <2>2, <2>4, Becomes
<1> QED BY <1>8, <1>9

(* The parent is put. *)
LEMMA PutParentKeeps ==
  ASSUME RpmInvariant, NEW a \in Actor, resume_put_parent(a)
  PROVE  RpmInvariant'
<1>1. PICK s : Now(s)
  BY NowState
<1>2. PICK g : g = Top(s, a)
  OBVIOUS
<1>3. In(a, "resume", {"put", "put_ok", "out"})
  BY DEF resume_put_parent
<1>4. Called(s, a, g) /\ RInv(s, {}, {}) /\ g.fn = "resume" /\ g.pc \in {"put", "put_ok", "out"}
  BY <1>1, <1>2, <1>3, Calling
<1>5. /\ s = State /\ Dev(a) = g.dev /\ s.stack[a] # <<>> /\ g \in CallFrame /\ FrameOK(g)
      /\ g.dev \in Device /\ Promised(s, a, g)
  BY <1>1, <1>4 DEF Now, Called
<1>6. PICK par : par = Parent[g.dev]
  OBVIOUS
<1>7. par \in Device
  BY <1>4, <1>5, <1>6, ParentAssumption DEF FrameOK
<1>8. PICK put : put = put_parent(s, a)
  OBVIOUS
<1>9. RInv(put, {}, {}) /\ PutDone(s, put, a)
  BY <1>2, <1>4, <1>5, <1>8, PutParentInv
<1>10. PICK r : r = IF put.dev[par].usage = 0 THEN rpm_idle_async(put, par) ELSE put
  OBVIOUS
<1>11. RInv(r, {}, {}) /\ r.stack = put.stack /\ \A e \in Device : r.dev[e].status = put.dev[e].status
  <2>1. RInv(rpm_idle_async(put, par), {}, {}) /\ IdleAsync(put, rpm_idle_async(put, par), par)
    BY <1>7, <1>9, IdleInv
  <2>2. CASE put.dev[par].usage = 0
    <3>1. r = rpm_idle_async(put, par)
      BY <1>10, <2>2
    <3>2. RInv(r, {}, {}) /\ IdleAsync(put, r, par)
      BY <2>1, <3>1
    <3> QED BY <3>2 DEF IdleAsync, Major
  <2>3. CASE put.dev[par].usage # 0
    <3>1. r = put
      BY <1>10, <2>3
    <3> QED BY <1>9, <3>1
  <2> QED BY <2>2, <2>3
<1>12. PICK ok : ok = (g.pc = "put_ok")
  OBVIOUS
<1>13. Set(Return(r, a, ok))
  BY <1>2, <1>5, <1>6, <1>8, <1>10, <1>12 DEF resume_put_parent
<1>14. PICK f : f = Top(r, a)
  OBVIOUS
<1>15. /\ r.stack[a] # <<>> /\ f.fn = "resume" /\ f.dev = g.dev /\ f.ret = g.ret /\ ~f.parent /\ f.pc = "returned"
       /\ r.dev[g.dev].status = s.dev[g.dev].status
  BY <1>2, <1>4, <1>5, <1>9, <1>11, <1>14 DEF PutDone, Top, SameStatus
<1>16. ok /\ f.ret = "get" => r.dev[f.dev].status = "ACTIVE"
  BY <1>5, <1>12, <1>15 DEF Promised
<1>17. ~Transits(f)
  BY <1>15 DEF Transits
<1>18. RInv(Return(r, a, ok), {}, {})
  BY <1>11, <1>14, <1>15, <1>16, <1>17, ReturnInv
<1> QED BY <1>13, <1>18, Becomes

(* rpm_suspend() at its beginning, or woken up. *)
LEMMA SuspendKeeps ==
  ASSUME RpmInvariant, NEW a \in Actor, NEW later \in BOOLEAN, rpm_suspend(a, later)
  PROVE  RpmInvariant'
<1>1. PICK s : Now(s)
  BY NowState
<1>2. PICK g : g = Top(s, a)
  OBVIOUS
<1>3. In(a, "suspend", {"repeat", "woken"})
  BY DEF rpm_suspend
<1>4. Called(s, a, g) /\ RInv(s, {}, {}) /\ g.fn = "suspend" /\ g.pc \in {"repeat", "woken"}
  BY <1>1, <1>2, <1>3, Calling
<1>5. s = State /\ s.dev = dev /\ Dev(a) = g.dev /\ s.stack[a] # <<>> /\ g \in CallFrame /\ ParentKept(s.dev, g)
  BY <1>1, <1>4 DEF Now, Called
<1>6. CASE g.pc = "woken" /\ s.dev[g.dev].status = "SUSPENDING"
  <2>1. Set(At(s, a, "sleep"))
    BY <1>2, <1>5, <1>6 DEF rpm_suspend
  <2>2. AwaitsEnd(s.dev[g.dev], g) /\ ParentKept(s.dev, [g EXCEPT !.pc = "sleep"])
    BY <1>4, <1>5, <1>6 DEF AwaitsEnd, ParentKept, CallFrame
  <2>3. RInv(At(s, a, "sleep"), {}, {})
    BY <1>2, <1>4, <1>5, <1>6, <2>2, Sleeps
  <2> QED BY <2>1, <2>3, Becomes
<1>7. CASE ~(g.pc = "woken" /\ s.dev[g.dev].status = "SUSPENDING")
  <2>1. PICK r : r = rpm_suspend_body(s, a, later)
    OBVIOUS
  <2>2. Set(r)
    BY <1>2, <1>5, <1>7, <2>1 DEF rpm_suspend
  <2>3. RInv(r, {}, {})
    BY <1>2, <1>4, <1>5, <2>1, SuspendBodyInv
  <2> QED BY <2>2, <2>3, Becomes
<1> QED BY <1>6, <1>7

(* The parent is told. *)
LEMMA NotifyKeeps ==
  ASSUME RpmInvariant, NEW a \in Actor, suspend_notify_parent(a)
  PROVE  RpmInvariant'
<1>1. PICK s : Now(s)
  BY NowState
<1>2. PICK g : g = Top(s, a)
  OBVIOUS
<1>3. In(a, "suspend", {"notify"})
  BY DEF suspend_notify_parent
<1>4. Called(s, a, g) /\ RInv(s, {}, {}) /\ g.fn = "suspend" /\ g.pc = "notify"
  BY <1>1, <1>2, <1>3, Calling
<1>5. /\ s = State /\ Dev(a) = g.dev /\ s.stack[a] # <<>> /\ FrameOK(g) /\ g.dev \in Device
  BY <1>1, <1>4 DEF Now, Called
<1>6. Parent[g.dev] \in Device /\ g.ret # "get" /\ ~g.parent /\ ~Transits(g)
  BY <1>4, <1>5, ParentAssumption DEF FrameOK, Transits
<1>7. PICK r : r = rpm_idle_async(s, Parent[g.dev])
  OBVIOUS
<1>8. RInv(r, {}, {}) /\ IdleAsync(s, r, Parent[g.dev])
  BY <1>4, <1>6, <1>7, IdleInv
<1>9. r.stack[a] # <<>> /\ Top(r, a) = g
  BY <1>2, <1>5, <1>8 DEF IdleAsync, Top
<1>10. PICK ok : ok = TRUE
  OBVIOUS
<1>11. Set(Return(r, a, ok))
  BY <1>5, <1>7, <1>10 DEF suspend_notify_parent
<1>12. RInv(Return(r, a, ok), {}, {})
  BY <1>4, <1>6, <1>8, <1>9, ReturnInv
<1> QED BY <1>11, <1>12, Becomes

(* dev->power of a device at the end of a callback. *)
Ended(p, q) ==
  /\ q \in Power /\ q.usage = p.usage /\ q.child_count = p.child_count /\ q.disable_depth = p.disable_depth
  /\ q.idle = p.idle /\ q.pending = p.pending /\ q.timer \in {"off", p.timer}

(* The callback is over. *)
EndOf(s, r, a, d, q) ==
  /\ Turned(s, r, d) /\ r.stack = At(s, a, "returned").stack /\ r.dev[d] = q
  /\ \A e \in Device : e # d => r.dev[e] = s.dev[e]

(* The device and the call at the end of a callback. *)
LEMMA EndDev ==
  ASSUME NEW s \in States, NEW a \in Actor, s.stack[a] # <<>>, NEW d \in Device, NEW q, Ended(s.dev[d], q)
  PROVE  EndOf(s, With(At(s, a, "returned"), d, q), a, d, q)
<1>1. PICK b : b = At(s, a, "returned")
  OBVIOUS
<1>2. AtDone(s, b, a, "returned")
  BY <1>1, AtFields DEF Places
<1>3. b \in States /\ StackOnly(s, b)
  BY <1>2 DEF AtDone
<1>4. PICK r : r = With(b, d, q)
  OBVIOUS
<1>5. DevOnly(b, r, d) /\ r.dev[d] = q
  BY <1>3, <1>4, DevSet DEF Ended
<1>6. /\ r \in States /\ r.stack = b.stack /\ r.work = s.work /\ r.ref = s.ref /\ r.lapsed = s.lapsed
      /\ \A e \in Device : e # d => r.dev[e] = s.dev[e]
  BY <1>3, <1>5 DEF DevOnly, StackOnly
<1>7. Turned(s, r, d)
  BY <1>5, <1>6 DEF Turned, Ended
<1> QED BY <1>1, <1>4, <1>5, <1>6, <1>7 DEF EndOf

(* The parent counts the child, or counts it no more. *)
CountOf(o, p, k) ==
  /\ p \in Power /\ p.child_count = k /\ p.usage = o.usage /\ p.disable_depth = o.disable_depth
  /\ p.idle = o.idle /\ p.pending = o.pending /\ p.timer = o.timer /\ p.status = o.status

(* The parent counts its children anew. *)
Counted(s, r, w, d, q, k) ==
  /\ Turned(s, w, d) /\ w.stack = r.stack /\ w.dev[d] = q /\ w.dev[Parent[d]].child_count = k
  /\ \A e \in Device : e # Parent[d] => w.dev[e] = r.dev[e]

(* The count of children is set. *)
LEMMA CountSet ==
  ASSUME NEW o \in Power, NEW k \in Nat, NEW p, p = [o EXCEPT !.child_count = k]
  PROVE  CountOf(o, p, k)
BY DEF CountOf, Power

(* The device, and the count of its parent. *)
LEMMA EndCount ==
  ASSUME NEW s \in States, NEW a, NEW d \in Device, NEW q, NEW r, EndOf(s, r, a, d, q), Parent[d] \in Device,
         NEW k \in Nat, NEW p, CountOf(s.dev[Parent[d]], p, k)
  PROVE  Counted(s, r, With(r, Parent[d], p), d, q, k)
<1>1. PICK b : b = Parent[d]
  OBVIOUS
<1>2. b \in Device /\ b # d
  BY <1>1, ParentAssumption
<1>3. /\ p \in Power /\ p.child_count = k /\ p.usage = s.dev[b].usage /\ p.disable_depth = s.dev[b].disable_depth
      /\ p.idle = s.dev[b].idle /\ p.pending = s.dev[b].pending /\ p.timer = s.dev[b].timer
      /\ p.status = s.dev[b].status
  BY <1>1 DEF CountOf
<1>4. PICK w : w = With(r, b, p)
  OBVIOUS
<1>5. r \in States /\ Turned(s, r, d) /\ r.dev[d] = q
  BY DEF EndOf, Turned
<1>6. DevOnly(r, w, b) /\ w.dev[b] = p
  BY <1>2, <1>3, <1>4, <1>5, DevSet
<1>7. /\ w \in States /\ w.stack = r.stack /\ w.work = r.work /\ w.ref = r.ref /\ w.lapsed = r.lapsed
      /\ \A e \in Device : e # b => w.dev[e] = r.dev[e]
  BY <1>6 DEF DevOnly
<1>8. Turned(s, w, d)
  BY <1>3, <1>5, <1>6, <1>7 DEF Turned
<1> QED BY <1>1, <1>2, <1>3, <1>4, <1>5, <1>6, <1>7, <1>8 DEF Counted

(* The sleepers are woken, and the call goes on. *)
WokenTop(s, w, a, g, d) ==
  /\ w \in States /\ w.stack[a] # <<>> /\ w.dev = s.dev
  /\ Top(w, a) \in CallFrame /\ Top(w, a).fn = g.fn /\ Top(w, a).dev = g.dev /\ Top(w, a).flags = g.flags
  /\ Top(w, a).ret = g.ret /\ Top(w, a).parent = g.parent /\ Top(w, a).pc = "returned"

(* The waiters are woken after a callback. *)
LEMMA EndWake ==
  ASSUME NEW s \in States, NEW a \in Actor, s.stack[a] # <<>>, NEW g, g = Top(s, a), NEW d \in Device,
         NEW r, RInv(r, {}, {d}), r.stack = At(s, a, "returned").stack
  PROVE  RInv(wake_up_all(r, d), {}, {}) /\ WokenTop(r, wake_up_all(r, d), a, g, d)
<1>1. PICK w : w = wake_up_all(r, d)
  OBVIOUS
<1>2. RInv(w, {}, {d} \ {d}) /\ {d} \ {d} = {}
  BY <1>1, WakeInv
<1>3. RInv(w, {}, {})
  BY <1>2
<1>4. r \in States
  BY Kind
<1>5. Woken(r, w, d)
  BY <1>1, <1>4, WakeFields
<1>6. PICK b : b = At(s, a, "returned")
  OBVIOUS
<1>7. AtDone(s, b, a, "returned")
  BY <1>6, AtFields DEF Places
<1>8. r.stack[a] = b.stack[a] /\ Top(r, a) = Top(b, a)
  BY <1>6 DEF Top
<1>9. /\ r.stack[a] # <<>> /\ Top(r, a) \in CallFrame /\ Top(r, a).fn = g.fn /\ Top(r, a).dev = g.dev
      /\ Top(r, a).flags = g.flags /\ Top(r, a).ret = g.ret /\ Top(r, a).parent = g.parent /\ Top(r, a).pc = "returned"
  BY <1>7, <1>8 DEF AtDone
<1>10. w \in States /\ w.dev = r.dev /\ w.stack[a] = r.stack[a]
  BY <1>5, <1>9 DEF Woken
<1>11. Top(w, a) = Top(r, a)
  BY <1>10 DEF Top
<1> QED BY <1>1, <1>3, <1>9, <1>10, <1>11 DEF WokenTop

(* The resume callback has returned. *)
LEMMA ResumeDoneKeeps ==
  ASSUME RpmInvariant, NEW a \in Actor, NEW ok \in BOOLEAN, rpm_resume_done(a, ok)
  PROVE  RpmInvariant'
<1>1. PICK s : Now(s)
  BY NowState
<1>2. PICK g : g = Top(s, a)
  OBVIOUS
<1>3. In(a, "resume", {"callback"})
  BY DEF rpm_resume_done
<1>4. Called(s, a, g) /\ RInv(s, {}, {}) /\ g.fn = "resume" /\ g.pc = "callback"
  BY <1>1, <1>2, <1>3, Calling
<1>5. /\ s = State /\ s.dev = dev /\ Dev(a) = g.dev /\ s.stack[a] # <<>> /\ FrameOK(g) /\ g.dev \in Device /\ s \in States
  BY <1>1, <1>4 DEF Now, Called
<1>6. PICK d : d = g.dev
  OBVIOUS
<1>7. d \in Device /\ s.dev[d] \in Power /\ (g.parent <=> Parent[d] \in Device) /\ Parent[d] \in Device \cup {NoParent}
  BY <1>4, <1>5, <1>6, ParentAssumption, DeviceAssumption, Fields DEF FrameOK
<1>8. PICK b : b = At(s, a, "returned")
  OBVIOUS
<1>9. CASE ok
  <2>1. PICK q : q = [s.dev[d] EXCEPT !.status = "ACTIVE", !.error = FALSE]
    OBVIOUS
  <2>2. Ended(s.dev[d], q) /\ q.status = "ACTIVE"
    BY <1>7, <2>1 DEF Ended, Power
  <2>3. PICK active : active = With(b, d, q)
    OBVIOUS
  <2>4. EndOf(s, active, a, d, q)
    BY <1>5, <1>7, <1>8, <2>2, <2>3, EndDev
  <2>5. PICK k : k = s.dev[Parent[d]].child_count + 1
    OBVIOUS
  <2>u. PICK u : u = [s.dev[Parent[d]] EXCEPT !.child_count = k]
    OBVIOUS
  <2>6. PICK r : r = IF g.parent THEN With(active, Parent[d], u) ELSE active
    OBVIOUS
  <2>7. RInv(r, {}, {d}) /\ r.stack = b.stack /\ r.dev[d] = q
    <3>1. CASE g.parent
      <4>1. k \in Nat /\ Parent[d] \in Device
        BY <1>5, <1>7, <2>5, <3>1, Fields DEF Power
      <4>2. r = With(active, Parent[d], u)
        BY <2>6, <3>1
      <4>3. /\ Turned(s, r, d) /\ r.stack = active.stack /\ r.dev[d] = q /\ r.dev[Parent[d]].child_count = k
            /\ \A e \in Device : e # Parent[d] => r.dev[e] = active.dev[e]
        <5>1. CountOf(s.dev[Parent[d]], u, k)
          BY <1>5, <2>u, <4>1, Fields, CountSet
        <5>2. Counted(s, active, r, d, q, k)
          BY <1>5, <1>7, <2>4, <4>1, <4>2, <5>1, EndCount
        <5> QED BY <5>2 DEF Counted
      <4>4. \A e \in Device : e # Parent[d] => r.dev[e].child_count = s.dev[e].child_count
        BY <2>2, <2>4, <4>3 DEF EndOf, Ended
      <4>5. r.stack = b.stack
        BY <1>8, <2>4, <4>3 DEF EndOf
      <4> QED BY <1>2, <1>4, <1>5, <1>6, <1>8, <2>2, <2>5, <4>3, <4>4, <4>5, EndInv
    <3>2. CASE ~g.parent
      <4>1. r = active /\ Parent[d] \notin Device
        BY <1>7, <2>6, <3>2
      <4>2. Turned(s, r, d) /\ r.stack = b.stack /\ r.dev[d] = q
        BY <1>8, <2>4, <4>1 DEF EndOf
      <4>3. \A e \in Device : r.dev[e].child_count = s.dev[e].child_count
        BY <2>2, <2>4, <4>1 DEF EndOf, Ended
      <4> QED BY <1>2, <1>4, <1>5, <1>6, <1>8, <2>2, <4>1, <4>2, <4>3, EndInv
    <3> QED BY <3>1, <3>2
  <2>8. PICK w : w = wake_up_all(r, d)
    OBVIOUS
  <2>9. RInv(w, {}, {}) /\ WokenTop(r, w, a, g, d)
    BY <1>2, <1>5, <1>7, <1>8, <2>7, <2>8, EndWake
  <2>10. PICK i : i = rpm_idle_async(w, d)
    OBVIOUS
  <2>11. RInv(i, {}, {}) /\ IdleAsync(w, i, d)
    BY <1>7, <2>9, <2>10, IdleInv
  <2>12. PICK f : f = Top(i, a)
    OBVIOUS
  <2>13. i.stack[a] # <<>> /\ f.fn = "resume" /\ f.dev = d /\ f.pc # "callback" /\ i.dev[d].status = "ACTIVE"
    BY <1>4, <1>6, <2>2, <2>7, <2>9, <2>11, <2>12 DEF IdleAsync, WokenTop, Top, Major
  <2>14. Set(resume_out(i, a, ok))
    BY <1>2, <1>5, <1>6, <1>8, <1>9, <2>1, <2>3, <2>5, <2>u, <2>6, <2>8, <2>10 DEF rpm_resume_done
  <2>15. RInv(resume_out(i, a, ok), {}, {})
    BY <2>11, <2>12, <2>13, ResumeOutInv
  <2> QED BY <2>14, <2>15, Becomes
<1>10. CASE ~ok
  <2>1. PICK q : q = [s.dev[d] EXCEPT !.status = "SUSPENDED", !.error = TRUE]
    OBVIOUS
  <2>2. Ended(s.dev[d], q) /\ q.status = "SUSPENDED"
    BY <1>7, <2>1 DEF Ended, Power
  <2>3. PICK r : r = With(b, d, q)
    OBVIOUS
  <2>4. EndOf(s, r, a, d, q)
    BY <1>5, <1>7, <1>8, <2>2, <2>3, EndDev
  <2>5. Turned(s, r, d) /\ r.stack = b.stack /\ r.dev[d] = q
    BY <1>8, <2>4 DEF EndOf
  <2>6. \A e \in Device : r.dev[e].child_count = s.dev[e].child_count
    BY <2>2, <2>4 DEF EndOf, Ended
  <2>7. RInv(r, {}, {d})
    BY <1>2, <1>4, <1>5, <1>6, <1>8, <2>2, <2>5, <2>6, EndInv
  <2>8. PICK c : c = pm_runtime_cancel_pending(r, d)
    OBVIOUS
  <2>9. Minor(r, c, d) /\ c.dev[d].pending = r.dev[d].pending /\ c.dev[d].timer = "off"
    BY <1>7, <2>7, <2>8, Kind, Cancelled
  <2>10. RInv(c, {}, {d}) /\ c.stack = b.stack
    BY <1>7, <2>5, <2>7, <2>9, MinorDev DEF Minor, DevOnly
  <2>11. PICK w : w = wake_up_all(c, d)
    OBVIOUS
  <2>12. RInv(w, {}, {}) /\ WokenTop(c, w, a, g, d)
    BY <1>2, <1>5, <1>7, <1>8, <2>10, <2>11, EndWake
  <2>13. PICK f : f = Top(w, a)
    OBVIOUS
  <2>14. w.stack[a] # <<>> /\ f.fn = "resume" /\ f.pc # "callback"
    BY <1>4, <2>12, <2>13 DEF WokenTop
  <2>15. Set(resume_out(w, a, ok))
    BY <1>2, <1>5, <1>6, <1>8, <1>10, <2>1, <2>3, <2>8, <2>11 DEF rpm_resume_done
  <2>16. RInv(resume_out(w, a, ok), {}, {})
    BY <1>10, <2>12, <2>13, <2>14, ResumeOutInv
  <2> QED BY <2>15, <2>16, Becomes
<1> QED BY <1>9, <1>10

(* An autosuspend is started over: sleepers may sleep on. *)
LEMMA LapseInv ==
  ASSUME NEW s, NEW d \in Device, RInv(s, {}, {d})
  PROVE  /\ RInv([s EXCEPT !.lapsed[d] = TRUE], {}, {})
         /\ [s EXCEPT !.lapsed[d] = TRUE].stack = s.stack
<1>1. PICK L : L = [s.lapsed EXCEPT ![d] = TRUE]
  OBVIOUS
<1>2. PICK r : r = [s EXCEPT !.lapsed = L]
  OBVIOUS
<1>3. s \in States /\ SleepInv(s, {d})
  BY Kind
<1>4. L \in [Device -> BOOLEAN] /\ L[d] /\ \A e \in Device : e # d => L[e] = s.lapsed[e]
  BY <1>1, <1>3, Fields
<1>5. r \in States /\ r.dev = s.dev /\ r.work = s.work /\ r.stack = s.stack /\ r.ref = s.ref /\ r.lapsed = L
  BY <1>2, <1>3, <1>4 DEF States
<1>6. SleepInv(r, {})
  <2> SUFFICES ASSUME NEW a \in Actor, NEW i \in Nat, Live(r.stack, a, i)
               PROVE  Waits(r, r.stack[a][i])
    BY DEF SleepInv
  <2>1. r.stack[a][i] \in CallFrame /\ r.stack[a][i].dev \in Device
    BY <1>5, Fields, Stacks DEF CallFrame
  <2>2. r.stack[a][i].dev \in {d} \/ Waits(s, r.stack[a][i])
    BY <1>3, <1>5 DEF SleepInv
  <2> QED BY <1>4, <1>5, <2>1, <2>2 DEF Waits
<1>7. worker(d) \in Actor /\ SameStatus(s, r) /\ \A e \in Device : s.lapsed[e] => r.lapsed[e]
  BY <1>4, <1>5 DEF Actor, SameStatus
<1>8. \A e \in Device : s.dev[e].disable_depth > 0 => r.dev[e].timer = "off"
  BY <1>5, Kind DEF DisabledInv
<1>9. RInv(r, {}, {d})
  BY <1>3, <1>5, <1>7, <1>8, MinorInv
<1>10. RInv(r, {}, {})
  BY <1>6, <1>9 DEF RInv
<1>11. [s EXCEPT !.lapsed[d] = TRUE] = r
  BY <1>1, <1>2
<1> QED BY <1>5, <1>10, <1>11

(* The suspend callback has failed; the autosuspend may start over. *)
LEMMA SuspendFailedKeeps ==
  ASSUME RpmInvariant, NEW a \in Actor, NEW busy \in BOOLEAN, NEW retry \in BOOLEAN, NEW later \in BOOLEAN,
         rpm_suspend_failed(a, busy, retry, later)
  PROVE  RpmInvariant'
<1>1. PICK s : Now(s)
  BY NowState
<1>2. PICK g : g = Top(s, a)
  OBVIOUS
<1>3. In(a, "suspend", {"callback"})
  BY DEF rpm_suspend_failed
<1>4. Called(s, a, g) /\ RInv(s, {}, {}) /\ g.fn = "suspend" /\ g.pc = "callback"
  BY <1>1, <1>2, <1>3, Calling
<1>5. /\ s = State /\ s.dev = dev /\ Dev(a) = g.dev /\ s.stack[a] # <<>> /\ FrameOK(g) /\ g.dev \in Device /\ s \in States
  BY <1>1, <1>4 DEF Now, Called
<1>6. PICK d : d = g.dev
  OBVIOUS
<1>7. d \in Device /\ s.dev[d] \in Power /\ g.ret # "get" /\ ~g.parent
  BY <1>4, <1>5, <1>6, Fields DEF FrameOK
<1>8. PICK b : b = At(s, a, "returned")
  OBVIOUS
<1>9. PICK q : q = [s.dev[d] EXCEPT !.status = "ACTIVE", !.deferred = FALSE, !.error = ~busy]
  OBVIOUS
<1>10. Ended(s.dev[d], q) /\ q.status = "ACTIVE"
  BY <1>7, <1>9 DEF Ended, Power
<1>11. PICK r : r = With(b, d, q)
  OBVIOUS
<1>12. EndOf(s, r, a, d, q)
  BY <1>5, <1>7, <1>8, <1>10, <1>11, EndDev
<1>13. Turned(s, r, d) /\ r.stack = b.stack /\ r.dev[d] = q
  BY <1>8, <1>12 DEF EndOf
<1>14. \A e \in Device : r.dev[e].child_count = s.dev[e].child_count
  BY <1>10, <1>12 DEF EndOf, Ended
<1>15. RInv(r, {}, {d})
  BY <1>2, <1>4, <1>5, <1>6, <1>8, <1>10, <1>13, <1>14, EndInv
<1>16. ASSUME NEW c, RInv(c, {}, {d}), c.stack = b.stack, NEW ok, Set(Return(wake_up_all(c, d), a, ok))
       PROVE  RpmInvariant'
  <2>1. PICK w : w = wake_up_all(c, d)
    OBVIOUS
  <2>2. RInv(w, {}, {}) /\ WokenTop(c, w, a, g, d)
    BY <1>2, <1>5, <1>7, <1>8, <1>16, <2>1, EndWake
  <2>3. PICK f : f = Top(w, a)
    OBVIOUS
  <2>4. w.stack[a] # <<>> /\ f.fn = "suspend" /\ f.ret # "get" /\ ~f.parent /\ f.pc = "returned"
    BY <1>4, <1>7, <2>2, <2>3 DEF WokenTop
  <2>5. ~Transits(f)
    BY <2>4 DEF Transits
  <2>6. RInv(Return(w, a, ok), {}, {})
    BY <2>2, <2>3, <2>4, <2>5, ReturnInv
  <2> QED BY <1>16, <2>1, <2>6, Becomes
<1>17. PICK ok : ok = FALSE
  OBVIOUS
<1>18. CASE busy /\ "AUTO" \in g.flags /\ retry
  <2>1. PICK c : c = [r EXCEPT !.lapsed[d] = TRUE]
    OBVIOUS
  <2>2. RInv(c, {}, {}) /\ c.stack = b.stack
    BY <1>7, <1>13, <1>15, <2>1, LapseInv
  <2>3. Set(rpm_suspend_body(c, a, later))
    BY <1>2, <1>5, <1>6, <1>8, <1>9, <1>11, <1>18, <2>1 DEF rpm_suspend_failed
  <2>4. AtDone(s, b, a, "returned")
    BY <1>5, <1>8, AtFields DEF Places
  <2>5. PICK f : f = Top(c, a)
    OBVIOUS
  <2>6. c.stack[a] # <<>> /\ f.fn = "suspend" /\ f.pc # "callback"
    BY <1>2, <1>4, <2>2, <2>4, <2>5 DEF AtDone, Top
  <2>7. RInv(rpm_suspend_body(c, a, later), {}, {})
    BY <2>2, <2>5, <2>6, SuspendBodyInv
  <2> QED BY <2>3, <2>7, Becomes
<1>19. CASE busy /\ ~("AUTO" \in g.flags /\ retry)
  <2>1. Set(Return(wake_up_all(r, d), a, ok))
    BY <1>2, <1>5, <1>6, <1>8, <1>9, <1>11, <1>17, <1>19 DEF rpm_suspend_failed
  <2> QED BY <1>13, <1>15, <1>16, <2>1
<1>20. CASE ~busy
  <2>1. PICK c : c = pm_runtime_cancel_pending(r, d)
    OBVIOUS
  <2>2. Minor(r, c, d) /\ c.dev[d].pending = r.dev[d].pending /\ c.dev[d].timer = "off"
    BY <1>7, <1>15, <2>1, Kind, Cancelled
  <2>3. RInv(c, {}, {d}) /\ c.stack = b.stack
    BY <1>7, <1>13, <1>15, <2>2, MinorDev DEF Minor, DevOnly
  <2>4. Set(Return(wake_up_all(c, d), a, ok))
    BY <1>2, <1>5, <1>6, <1>8, <1>9, <1>11, <1>17, <1>20, <2>1 DEF rpm_suspend_failed
  <2> QED BY <1>16, <2>3, <2>4
<1> QED BY <1>18, <1>19, <1>20

(* The suspend callback has succeeded; a deferred resume is carried out. *)
LEMMA SuspendDoneKeeps ==
  ASSUME RpmInvariant, NEW a \in Actor, rpm_suspend_done(a)
  PROVE  RpmInvariant'
<1>1. PICK s : Now(s)
  BY NowState
<1>2. PICK g : g = Top(s, a)
  OBVIOUS
<1>3. In(a, "suspend", {"callback"})
  BY DEF rpm_suspend_done
<1>4. Called(s, a, g) /\ RInv(s, {}, {}) /\ g.fn = "suspend" /\ g.pc = "callback"
  BY <1>1, <1>2, <1>3, Calling
<1>5. /\ s = State /\ s.dev = dev /\ Dev(a) = g.dev /\ s.stack[a] # <<>> /\ FrameOK(g) /\ g.dev \in Device /\ s \in States
      /\ g \in CallFrame
  BY <1>1, <1>4 DEF Now, Called
<1>6. PICK d : d = g.dev
  OBVIOUS
<1>7. /\ d \in Device /\ s.dev[d] \in Power /\ g.ret # "get" /\ ~g.parent
      /\ (Parent[d] # NoParent <=> Parent[d] \in Device)
  BY <1>4, <1>5, <1>6, Fields, ParentAssumption, DeviceAssumption DEF FrameOK
<1>8. PICK b : b = At(s, a, "returned")
  OBVIOUS
<1>9. PICK q : q = [s.dev[d] EXCEPT !.status = "SUSPENDED", !.error = FALSE, !.timer = "off"]
  OBVIOUS
<1>10. Ended(s.dev[d], q) /\ q.status = "SUSPENDED"
  BY <1>7, <1>9 DEF Ended, Power
<1>11. PICK r : r = With(b, d, q)
  OBVIOUS
<1>12. EndOf(s, r, a, d, q)
  BY <1>5, <1>7, <1>8, <1>10, <1>11, EndDev
<1>13. ASSUME Parent[d] \in Device
       PROVE  s.dev[Parent[d]].child_count \in Nat /\ s.dev[Parent[d]].child_count > 0
  <2>1. s.dev[Parent[d]].child_count = Cardinality(Awake(s.dev, Parent[d])) /\ s.dev[Parent[d]].child_count \in Nat
    BY <1>4, <1>5, <1>13, Kind, Fields DEF ChildInv, Power
  <2>2. s.dev[d].status = "SUSPENDING"
    <3>1. Live(s.stack, a, Len(s.stack[a])) /\ s.stack[a][Len(s.stack[a])] = g /\ Len(s.stack[a]) \in Nat
      BY <1>2, <1>5, TopFrame
    <3>2. RunBy(s.stack, "suspend", d, a, Len(s.stack[a]))
      BY <1>4, <1>6, <3>1 DEF RunBy, Runs
    <3>3. RunInv(s.stack, "suspend", d, s.dev[d].status = "SUSPENDING")
      BY <1>4, <1>7, Kind DEF ChangeInv
    <3> QED BY <3>1, <3>2, <3>3 DEF RunInv
  <2>3. d \in Awake(s.dev, Parent[d])
    BY <1>7, <2>2 DEF Awake
  <2>4. Cardinality(Awake(s.dev, Parent[d])) # 0
    BY <2>3, AwakeFinite, FS_EmptySet
  <2> QED BY <2>1, <2>4
<1>14. PICK k : k = s.dev[Parent[d]].child_count - 1
  OBVIOUS
<1>15. PICK u : u = [s.dev[Parent[d]] EXCEPT !.child_count = k]
  OBVIOUS
<1>16. PICK c : c = IF Parent[d] # NoParent /\ s.dev[Parent[d]].child_count > 0 THEN With(r, Parent[d], u) ELSE r
  OBVIOUS
<1>17. RInv(c, {}, {d}) /\ c.stack = b.stack
  <2>1. CASE Parent[d] \in Device
    <3>1. k \in Nat
      BY <1>13, <1>14, <2>1
    <3>2. c = With(r, Parent[d], u)
      BY <1>7, <1>13, <1>16, <2>1
    <3>3. CountOf(s.dev[Parent[d]], u, k)
      BY <1>5, <1>15, <2>1, <3>1, Fields, CountSet
    <3>4. Counted(s, r, c, d, q, k)
      BY <1>5, <1>7, <1>12, <2>1, <3>1, <3>2, <3>3, EndCount
    <3>5. /\ Turned(s, c, d) /\ c.stack = r.stack /\ c.dev[d] = q /\ c.dev[Parent[d]].child_count = k
          /\ \A e \in Device : e # Parent[d] => c.dev[e] = r.dev[e]
      BY <3>4 DEF Counted
    <3>6. \A e \in Device : e # Parent[d] => c.dev[e].child_count = s.dev[e].child_count
      BY <1>10, <1>12, <3>5 DEF EndOf, Ended
    <3>7. c.stack = b.stack
      BY <1>8, <1>12, <3>5 DEF EndOf
    <3> QED BY <1>2, <1>4, <1>5, <1>6, <1>8, <1>10, <1>14, <3>5, <3>6, <3>7, EndInv
  <2>2. CASE Parent[d] \notin Device
    <3>1. c = r
      BY <1>7, <1>16, <2>2
    <3>2. Turned(s, c, d) /\ c.stack = b.stack /\ c.dev[d] = q
      BY <1>8, <1>12, <3>1 DEF EndOf
    <3>3. \A e \in Device : c.dev[e].child_count = s.dev[e].child_count
      BY <1>10, <1>12, <3>1 DEF EndOf, Ended
    <3> QED BY <1>2, <1>4, <1>5, <1>6, <1>8, <1>10, <2>2, <3>2, <3>3, EndInv
  <2> QED BY <2>1, <2>2
<1>18. PICK w : w = wake_up_all(c, d)
  OBVIOUS
<1>19. RInv(w, {}, {}) /\ WokenTop(c, w, a, g, d)
  BY <1>2, <1>5, <1>7, <1>8, <1>17, <1>18, EndWake
<1>20. PICK f : f = Top(w, a)
  OBVIOUS
<1>21. /\ w.stack[a] # <<>> /\ f \in CallFrame /\ f.fn = "suspend" /\ f.ret = g.ret /\ ~f.parent /\ f.pc = "returned"
       /\ f.dev = d /\ w \in States
  BY <1>4, <1>6, <1>7, <1>19, <1>20 DEF WokenTop
<1>22. ~Transits(f)
  BY <1>21 DEF Transits
<1>23. ASSUME NEW pc \in {"deferred", "notify"}, pc = "notify" => Parent[d] # NoParent
       PROVE  RInv(At(w, a, pc), {}, {}) /\ AtDone(w, At(w, a, pc), a, pc)
  <2>1. PICK h : h = [f EXCEPT !.pc = pc]
    OBVIOUS
  <2>2. pc \in Places
    BY DEF Places
  <2>3. /\ h \in CallFrame /\ h.fn = f.fn /\ h.dev = f.dev /\ h.flags = f.flags /\ h.ret = f.ret
        /\ h.parent = f.parent /\ h.pc = pc
    BY <1>21, <2>1, <2>2, Moved
  <2>4. ~Transits(h) /\ FrameOK(h) /\ ParentKept(w.dev, h)
    BY <1>4, <1>5, <1>21, <1>23, <2>3 DEF Transits, FrameOK, ParentKept
  <2> QED BY <1>19, <1>20, <1>21, <1>22, <2>1, <2>2, <2>4, GoInv
<1>24. CASE s.dev[d].deferred
  <2>1. PICK m : m = At(w, a, "deferred")
    OBVIOUS
  <2>2. RInv(m, {}, {}) /\ AtDone(w, m, a, "deferred")
    BY <1>23, <2>1
  <2>3. m.stack[a] # <<>> /\ Top(m, a).fn = "suspend" /\ Top(m, a).dev = d /\ Top(m, a).pc = "deferred"
    BY <1>20, <1>21, <2>2 DEF AtDone
  <2>4. PICK z : z = rpm_resume_body(Push(m, a, Frame("resume", d, {}, "suspend")), a)
    OBVIOUS
  <2>5. Above(Frame("resume", d, {}, "suspend"), Top(m, a))
    BY <2>3 DEF Above, Frame
  <2>6. RInv(z, {}, {})
    BY <1>7, <2>2, <2>3, <2>4, <2>5, NestedResume
  <2>7. Set(z)
    BY <1>2, <1>5, <1>6, <1>8, <1>9, <1>11, <1>14, <1>15, <1>16, <1>18, <1>24, <2>1, <2>4 DEF rpm_suspend_done
  <2> QED BY <2>6, <2>7, Becomes
<1>25. CASE ~s.dev[d].deferred /\ Parent[d] # NoParent
  <2>1. Set(At(w, a, "notify"))
    BY <1>2, <1>5, <1>6, <1>8, <1>9, <1>11, <1>14, <1>15, <1>16, <1>18, <1>25 DEF rpm_suspend_done
  <2>2. RInv(At(w, a, "notify"), {}, {})
    BY <1>23, <1>25
  <2> QED BY <2>1, <2>2, Becomes
<1>26. CASE ~s.dev[d].deferred /\ Parent[d] = NoParent
  <2>1. PICK ok : ok = TRUE
    OBVIOUS
  <2>2. Set(Return(w, a, ok))
    BY <1>2, <1>5, <1>6, <1>8, <1>9, <1>11, <1>14, <1>15, <1>16, <1>18, <1>26, <2>1 DEF rpm_suspend_done
  <2>3. RInv(Return(w, a, ok), {}, {})
    BY <1>7, <1>19, <1>20, <1>21, <1>22, ReturnInv
  <2> QED BY <2>2, <2>3, Becomes
<1> QED BY <1>24, <1>25, <1>26

(* The idle notification begins or ends. *)
IdleSet(s, r, d) ==
  /\ DevOnly(s, r, d) /\ r.dev[d].status = s.dev[d].status /\ r.dev[d].child_count = s.dev[d].child_count
  /\ r.dev[d].disable_depth = s.dev[d].disable_depth /\ r.dev[d].usage = s.dev[d].usage
  /\ r.dev[d].pending = s.dev[d].pending /\ r.dev[d].timer = s.dev[d].timer

(* idle_notification is set or reset. *)
LEMMA IdleFields ==
  ASSUME NEW s \in States, NEW d \in Device, NEW b \in BOOLEAN, NEW p, p = [s.dev[d] EXCEPT !.idle = b]
  PROVE  IdleSet(s, With(s, d, p), d) /\ (With(s, d, p).dev[d].idle <=> b)
<1>1. s.dev[d] \in Power
  BY Fields
<1>2. /\ p \in Power /\ p.status = s.dev[d].status /\ p.child_count = s.dev[d].child_count
      /\ p.usage = s.dev[d].usage /\ p.disable_depth = s.dev[d].disable_depth /\ p.pending = s.dev[d].pending
      /\ p.timer = s.dev[d].timer /\ (p.idle <=> b)
  BY <1>1 DEF Power
<1>3. DevOnly(s, With(s, d, p), d) /\ With(s, d, p).dev[d] = p
  BY <1>2, DevSet
<1> QED BY <1>2, <1>3 DEF IdleSet

(* It is set only on a device that is enabled, and reset with a wake-up. *)
LEMMA IdleSetInv ==
  ASSUME NEW s, RInv(s, {}, {}), NEW d \in Device, NEW r, IdleSet(s, r, d), NEW Y,
         r.dev[d].idle => ~(s.dev[d].disable_depth > 0), r.dev[d].idle \/ d \in Y
  PROVE  RInv(r, {}, Y)
<1>1. /\ s \in States /\ Shape(s.stack) /\ UsageInv(s) /\ ChildInv(s) /\ ParentInv(s) /\ HeldInv(s)
      /\ DisabledInv(s, {}) /\ PendingInv(s) /\ SleepInv(s, {}) /\ ChangeInv(s)
  BY Kind
<1>2. /\ r \in States /\ r.stack = s.stack /\ r.work = s.work /\ r.ref = s.ref /\ r.lapsed = s.lapsed
      /\ \A e \in Device : e # d => r.dev[e] = s.dev[e]
  BY DEF IdleSet, DevOnly
<1>3. \A e \in Device : /\ r.dev[e].status = s.dev[e].status /\ r.dev[e].child_count = s.dev[e].child_count
                        /\ r.dev[e].usage = s.dev[e].usage /\ r.dev[e].disable_depth = s.dev[e].disable_depth
                        /\ r.dev[e].pending = s.dev[e].pending /\ r.dev[e].timer = s.dev[e].timer
  BY <1>2 DEF IdleSet
<1>4. UsageInv(r) /\ ChangeInv(r) /\ PendingInv(r)
  BY <1>1, <1>2, <1>3 DEF UsageInv, ChangeInv, PendingInv
<1>5. ChildInv(r)
  <2>1. \A e \in Device : Awake(r.dev, e) = Awake(s.dev, e)
    BY <1>3 DEF Awake
  <2> QED BY <1>1, <1>3, <2>1 DEF ChildInv
<1>6. ParentInv(r)
  <2>1. \A e \in Device : e \notin Used => r.dev[e].disable_depth = 0
    BY <1>1, <1>3 DEF ParentInv
  <2>2. \A c \in Device : Parent[c] \in Device \ Used /\ r.dev[c].status # "SUSPENDED" => r.dev[Parent[c]].status = "ACTIVE"
    BY <1>1, <1>3 DEF ParentInv
  <2>3. \A f : ParentKept(s.dev, f) => ParentKept(r.dev, f)
    BY <1>3 DEF ParentKept
  <2> QED BY <1>1, <1>2, <2>1, <2>2, <2>3 DEF ParentInv
<1>7. HeldInv(r)
  <2>1. ASSUME NEW a \in Actor, NEW i \in Nat, Live(r.stack, a, i) PROVE Promised(r, a, r.stack[a][i])
    <3>1. Promised(s, a, r.stack[a][i]) /\ r.stack[a][i].dev \in Device
      BY <1>1, <1>2, <2>1, Fields, Stacks DEF HeldInv, CallFrame
    <3> QED BY <1>2, <1>3, <3>1 DEF Promised
  <2> QED BY <1>1, <1>2, <1>3, <2>1 DEF HeldInv
<1>8. DisabledInv(r, {})
  <2> SUFFICES ASSUME NEW e \in Device, r.dev[e].disable_depth > 0
               PROVE  /\ r.dev[e].timer = "off"
                      /\ r.dev[e].pending => Cancelling(r.stack, e)
                      /\ ~Quiet(r.dev[e]) => Flushing(r.stack, e)
    BY DEF DisabledInv
  <2>1. s.dev[e].disable_depth > 0 /\ (~Quiet(r.dev[e]) => ~Quiet(s.dev[e]))
    BY <1>2, <1>3 DEF Quiet
  <2> QED BY <1>1, <1>2, <1>3, <2>1 DEF DisabledInv
<1>9. SleepInv(r, Y)
  <2> SUFFICES ASSUME NEW a \in Actor, NEW i \in Nat, Live(r.stack, a, i), r.stack[a][i].dev \notin Y
               PROVE  Waits(r, r.stack[a][i])
    BY DEF SleepInv
  <2>1. Waits(s, r.stack[a][i]) /\ r.stack[a][i].dev \in Device
    BY <1>1, <1>2, Fields, Stacks DEF SleepInv, CallFrame
  <2> QED BY <1>2, <1>3, <2>1 DEF Waits, AwaitsEnd, Quiet
<1> QED BY <1>1, <1>2, <1>4, <1>5, <1>6, <1>7, <1>8, <1>9 DEF RInv

(* rpm_idle() begins. *)
LEMMA IdleKeeps ==
  ASSUME RpmInvariant, NEW a \in Actor, rpm_idle(a)
  PROVE  RpmInvariant'
<1>1. PICK s : Now(s)
  BY NowState
<1>2. PICK g : g = Top(s, a)
  OBVIOUS
<1>3. In(a, "idle", {"repeat"})
  BY DEF rpm_idle
<1>4. Called(s, a, g) /\ RInv(s, {}, {}) /\ g.fn = "idle" /\ g.pc = "repeat"
  BY <1>1, <1>2, <1>3, Calling
<1>5. /\ s = State /\ s.dev = dev /\ Dev(a) = g.dev /\ s.stack[a] # <<>> /\ FrameOK(g) /\ g.dev \in Device /\ s \in States
      /\ g \in CallFrame
  BY <1>1, <1>4 DEF Now, Called
<1>6. PICK d : d = g.dev
  OBVIOUS
<1>7. d \in Device /\ g.ret = "done" /\ ~g.parent /\ ~Transits(g) /\ s.dev[d].disable_depth \in Nat
  BY <1>4, <1>5, <1>6, Fields DEF FrameOK, Transits, Power
<1>8. CASE ~rpm_idle_allowed(s.dev[d])
  <2>1. PICK ok : ok = FALSE
    OBVIOUS
  <2>2. Set(Return(s, a, ok))
    BY <1>5, <1>6, <1>8, <2>1 DEF rpm_idle
  <2>3. RInv(Return(s, a, ok), {}, {})
    BY <1>2, <1>4, <1>5, <1>7, ReturnInv
  <2> QED BY <2>2, <2>3, Becomes
<1>9. PICK r : r = request_none(s, d)
  OBVIOUS
<1>10. /\ Minor(s, r, d) /\ r.dev[d].pending = s.dev[d].pending /\ r.dev[d].timer = s.dev[d].timer
  BY <1>5, <1>7, <1>9, Requests
<1>11. RInv(r, {}, {})
  BY <1>4, <1>7, <1>10, MinorDev
<1>12. r \in States /\ r.stack[a] # <<>> /\ Top(r, a) = g /\ r.dev[d].disable_depth = s.dev[d].disable_depth
  BY <1>2, <1>5, <1>10 DEF Minor, DevOnly, Major, Top
<1>13. rpm_idle_allowed(s.dev[d]) => r.dev[d].disable_depth = 0
  BY <1>7, <1>12 DEF rpm_idle_allowed, rpm_check_suspend_allowed
<1>14. CASE rpm_idle_allowed(s.dev[d]) /\ "ASYNC" \in g.flags
  <2>1. PICK ok : ok = TRUE
    OBVIOUS
  <2>2. PICK u : u = queue_request(r, d, "IDLE")
    OBVIOUS
  <2>3. RInv(u, {}, {}) /\ Queued(r, u, d)
    BY <1>7, <1>11, <1>12, <1>13, <1>14, <2>2, QueueInv, QueueFields
  <2>4. u.stack[a] # <<>> /\ Top(u, a) = g
    BY <1>12, <2>3 DEF Queued, Top
  <2>5. Set(Return(u, a, ok))
    BY <1>2, <1>5, <1>6, <1>9, <1>14, <2>1, <2>2 DEF rpm_idle
  <2>6. RInv(Return(u, a, ok), {}, {})
    BY <1>4, <1>7, <2>3, <2>4, ReturnInv
  <2> QED BY <2>5, <2>6, Becomes
<1>15. CASE rpm_idle_allowed(s.dev[d]) /\ "ASYNC" \notin g.flags
  <2>1. PICK p : p = [r.dev[d] EXCEPT !.idle = TRUE]
    OBVIOUS
  <2>2. PICK u : u = With(r, d, p)
    OBVIOUS
  <2>3. IdleSet(r, u, d) /\ u.dev[d].idle
    BY <1>7, <1>12, <2>1, <2>2, IdleFields
  <2>4. ~(r.dev[d].disable_depth > 0)
    BY <1>13, <1>15
  <2>5. RInv(u, {}, {})
    BY <1>7, <1>11, <2>3, <2>4, IdleSetInv
  <2>6. u.stack[a] # <<>> /\ Top(u, a) = g
    BY <1>12, <2>3 DEF IdleSet, DevOnly, Top
  <2>7. Set(At(u, a, "callback"))
    BY <1>2, <1>5, <1>6, <1>9, <1>15, <2>1, <2>2 DEF rpm_idle
  <2>8. PICK f : f = [g EXCEPT !.pc = "callback"]
    OBVIOUS
  <2>9. "callback" \in Places
    BY DEF Places
  <2>10. /\ f \in CallFrame /\ f.fn = g.fn /\ f.dev = g.dev /\ f.flags = g.flags /\ f.ret = g.ret
         /\ f.parent = g.parent /\ f.pc = "callback"
    BY <1>5, <2>8, <2>9, Moved
  <2>11. ~Transits(f) /\ FrameOK(f) /\ ParentKept(u.dev, f)
    BY <1>4, <1>5, <1>7, <2>10 DEF Transits, FrameOK, ParentKept
  <2>12. RInv(At(u, a, "callback"), {}, {})
    BY <1>4, <1>7, <2>5, <2>6, <2>8, <2>9, <2>11, GoInv
  <2> QED BY <2>7, <2>12, Becomes
<1> QED BY <1>8, <1>14, <1>15

(* The idle callback suspends the device. *)
LEMMA IdleCallbackKeeps ==
  ASSUME RpmInvariant, NEW a \in Actor, idle_callback(a)
  PROVE  RpmInvariant'
<1>1. PICK s : Now(s)
  BY NowState
<1>2. PICK g : g = Top(s, a)
  OBVIOUS
<1>3. In(a, "idle", {"callback"})
  BY DEF idle_callback
<1>4. Called(s, a, g) /\ RInv(s, {}, {}) /\ g.fn = "idle" /\ g.pc = "callback"
  BY <1>1, <1>2, <1>3, Calling
<1>5. s = State /\ Dev(a) = g.dev /\ s.stack[a] # <<>> /\ g.dev \in Device
  BY <1>1, <1>4 DEF Now, Called
<1>6. PICK f : f = Frame("suspend", g.dev, {}, "idle")
  OBVIOUS
<1>7. /\ f \in CallFrame /\ f.fn = "suspend" /\ f.dev = g.dev /\ f.flags = {} /\ f.ret = "idle" /\ ~f.parent
      /\ f.pc = "repeat"
  <2>1. {} \in SUBSET Flags
    OBVIOUS
  <2> QED BY <1>5, <1>6, <2>1, NewFrame
<1>8. FrameOK(f) /\ Above(f, g)
  BY <1>4, <1>7 DEF FrameOK, Above
<1>9. RInv(Push(s, a, f), {}, {})
  BY <1>2, <1>4, <1>5, <1>7, <1>8, PushInv
<1>10. Set(Push(s, a, f))
  BY <1>5, <1>6 DEF idle_callback
<1> QED BY <1>9, <1>10, Becomes

(* The idle callback has returned. *)
LEMMA IdleDoneKeeps ==
  ASSUME RpmInvariant, NEW a \in Actor, rpm_idle_done(a)
  PROVE  RpmInvariant'
<1>1. PICK s : Now(s)
  BY NowState
<1>2. PICK g : g = Top(s, a)
  OBVIOUS
<1>3. In(a, "idle", {"callback", "returned"})
  BY DEF rpm_idle_done
<1>4. Called(s, a, g) /\ RInv(s, {}, {}) /\ g.fn = "idle" /\ g.pc \in {"callback", "returned"}
  BY <1>1, <1>2, <1>3, Calling
<1>5. /\ s = State /\ s.dev = dev /\ Dev(a) = g.dev /\ s.stack[a] # <<>> /\ FrameOK(g) /\ g.dev \in Device /\ s \in States
  BY <1>1, <1>4 DEF Now, Called
<1>6. PICK d : d = g.dev
  OBVIOUS
<1>7. d \in Device /\ g.ret = "done" /\ ~g.parent /\ ~Transits(g)
  BY <1>4, <1>5, <1>6 DEF FrameOK, Transits
<1>8. PICK p : p = [s.dev[d] EXCEPT !.idle = FALSE]
  OBVIOUS
<1>9. PICK r : r = With(s, d, p)
  OBVIOUS
<1>10. IdleSet(s, r, d) /\ ~r.dev[d].idle
  BY <1>5, <1>7, <1>8, <1>9, IdleFields
<1>11. RInv(r, {}, {d})
  BY <1>4, <1>7, <1>10, IdleSetInv
<1>12. PICK w : w = wake_up_all(r, d)
  OBVIOUS
<1>13. RInv(w, {}, {d} \ {d}) /\ {d} \ {d} = {} /\ r \in States
  BY <1>7, <1>11, <1>12, Kind, WakeInv
<1>14. RInv(w, {}, {})
  BY <1>13
<1>15. Woken(r, w, d)
  BY <1>7, <1>12, <1>13, WakeFields
<1>16. r.stack = s.stack /\ Top(r, a) = g
  BY <1>2, <1>10 DEF IdleSet, DevOnly, Top
<1>17. w.stack[a] = r.stack[a]
  BY <1>4, <1>5, <1>15, <1>16 DEF Woken
<1>18. w.stack[a] # <<>> /\ Top(w, a) = g
  BY <1>5, <1>16, <1>17 DEF Top
<1>19. PICK ok : ok = TRUE
  OBVIOUS
<1>20. Set(Return(w, a, ok))
  BY <1>5, <1>6, <1>8, <1>9, <1>12, <1>19 DEF rpm_idle_done
<1>21. RInv(Return(w, a, ok), {}, {})
  BY <1>4, <1>7, <1>14, <1>18, ReturnInv
<1> QED BY <1>20, <1>21, Becomes

(* The item is taken off the queue by somebody who sees to the request. *)
LEMMA DequeueInv ==
  ASSUME NEW s, RInv(s, {}, {}), NEW d \in Device, Working(s.stack, d) \/ Cancelling(s.stack, d)
  PROVE  RInv(dequeue(s, d), {}, {})
<1>1. PICK W : W = [s.work EXCEPT ![d] = FALSE]
  OBVIOUS
<1>2. PICK r : r = [s EXCEPT !.work = W]
  OBVIOUS
<1>3. /\ s \in States /\ PendingInv(s)
  BY Kind
<1>4. W \in [Device -> BOOLEAN] /\ \A e \in Device : e # d => W[e] = s.work[e]
  BY <1>1, <1>3, Fields
<1>5. r \in States /\ r.dev = s.dev /\ r.work = W /\ r.stack = s.stack /\ r.ref = s.ref /\ r.lapsed = s.lapsed
  BY <1>2, <1>3, <1>4 DEF States
<1>6. PendingInv(r)
  BY <1>3, <1>4, <1>5 DEF PendingInv
<1>7. /\ Shape(r.stack) /\ UsageInv(r) /\ ChildInv(r) /\ DisabledInv(r, {}) /\ ChangeInv(r)
  BY <1>5, Kind DEF UsageInv, ChildInv, DisabledInv, ChangeInv
<1>8. ParentInv(r) /\ HeldInv(r) /\ SleepInv(r, {})
  BY <1>5, Kind DEF ParentInv, HeldInv, Promised, SleepInv, Waits
<1>9. dequeue(s, d) = r
  BY <1>1, <1>2 DEF dequeue
<1> QED BY <1>5, <1>6, <1>7, <1>8, <1>9 DEF RInv

(* The worker takes the item. *)
LEMMA ProcessWorkKeeps ==
  ASSUME RpmInvariant, NEW d \in Device, process_one_work(d)
  PROVE  RpmInvariant'
<1>1. PICK s : Now(s)
  BY NowState
<1>2. s = State /\ s.stack[worker(d)] = <<>> /\ RInv(s, {}, {}) /\ worker(d) \in Actor
  BY <1>1 DEF Now, RpmInvariant, process_one_work, Actor
<1>3. PICK f : f = Frame("work", d, {}, "done")
  OBVIOUS
<1>4. /\ f \in CallFrame /\ f.fn = "work" /\ f.dev = d /\ f.ret = "done" /\ ~f.parent /\ f.pc = "repeat"
  <2>1. {} \in SUBSET Flags
    OBVIOUS
  <2> QED BY <1>3, <2>1, NewFrame
<1>5. FrameOK(f)
  BY <1>4 DEF FrameOK
<1>6. PICK r : r = Push(s, worker(d), f)
  OBVIOUS
<1>7. RInv(r, {}, {})
  BY <1>2, <1>4, <1>5, <1>6, PushInv
<1>8. r \in States /\ r.stack[worker(d)] # <<>> /\ Top(r, worker(d)) = f
  BY <1>2, <1>4, <1>6, Kind, PushTop
<1>9. Working(r.stack, d)
  BY <1>2, <1>4, <1>8, TopFrame DEF Working, Works
<1>10. RInv(dequeue(r, d), {}, {})
  BY <1>7, <1>9, DequeueInv
<1>11. Set(dequeue(r, d))
  BY <1>2, <1>3, <1>6 DEF process_one_work
<1> QED BY <1>10, <1>11, Becomes

(* The worker looks at the request. *)
LEMMA WorkKeeps ==
  ASSUME RpmInvariant, NEW a \in Actor, pm_runtime_work(a)
  PROVE  RpmInvariant'
<1>1. PICK s : Now(s)
  BY NowState
<1>2. PICK g : g = Top(s, a)
  OBVIOUS
<1>3. In(a, "work", {"repeat"})
  BY DEF pm_runtime_work
<1>4. Called(s, a, g) /\ RInv(s, {}, {}) /\ g.fn = "work" /\ g.pc = "repeat"
  BY <1>1, <1>2, <1>3, Calling
<1>5. /\ s = State /\ s.dev = dev /\ Dev(a) = g.dev /\ s.stack[a] # <<>> /\ FrameOK(g) /\ g.dev \in Device /\ s \in States
  BY <1>1, <1>4 DEF Now, Called
<1>6. PICK d : d = g.dev
  OBVIOUS
<1>7. d \in Device /\ s.dev[d] \in Power /\ g.ret = "done" /\ ~g.parent /\ ~Transits(g)
  BY <1>4, <1>5, <1>6, Fields DEF FrameOK, Transits
<1>8. PICK p : p = [s.dev[d] EXCEPT !.request = "NONE", !.pending = FALSE]
  OBVIOUS
<1>9. p \in Power /\ Major(s.dev[d], p) /\ ~p.pending /\ p.timer = s.dev[d].timer
  BY <1>7, <1>8 DEF Power, Major
<1>10. PICK r : r = With(s, d, p)
  OBVIOUS
<1>11. Minor(s, r, d) /\ r.dev[d] = p
  BY <1>5, <1>7, <1>9, <1>10, MinorSet
<1>12. RInv(r, {}, {})
  BY <1>4, <1>7, <1>9, <1>11, MinorDev
<1>13. r \in States /\ r.stack[a] # <<>> /\ Top(r, a) = g /\ ~r.dev[d].pending
  BY <1>2, <1>5, <1>9, <1>11 DEF Minor, DevOnly, Top
<1>14. CASE ~s.dev[d].pending \/ s.dev[d].request = "NONE"
  <2>1. PICK ok : ok = TRUE
    OBVIOUS
  <2>2. PICK u : u = IF s.dev[d].pending THEN r ELSE s
    OBVIOUS
  <2>3. Set(Return(u, a, ok))
    BY <1>5, <1>6, <1>8, <1>10, <1>14, <2>1, <2>2 DEF pm_runtime_work
  <2>4. RInv(u, {}, {}) /\ u.stack[a] # <<>> /\ Top(u, a) = g /\ ~u.dev[d].pending
    BY <1>2, <1>4, <1>5, <1>12, <1>13, <2>2
  <2>5. RInv(Return(u, a, ok), {}, {})
    BY <1>4, <1>6, <1>7, <2>4, ReturnInv
  <2> QED BY <2>3, <2>5, Becomes
<1>15. CASE s.dev[d].pending /\ s.dev[d].request # "NONE"
  <2>1. PICK u : u = Pop(r, a)
    OBVIOUS
  <2>2. RInv(u, {}, {})
    BY <1>4, <1>6, <1>7, <1>12, <1>13, <2>1, PopInv
  <2>3. u.stack[a] = <<>>
    <3>1. PICK n : n = Len(r.stack[a])
      OBVIOUS
    <3>2. n \in Nat \ {0} /\ Live(r.stack, a, n) /\ r.stack[a][n] = g
      BY <1>13, <3>1, TopFrame
    <3>3. n > 1 => Above(g, r.stack[a][n - 1])
      BY <1>12, <3>2, Kind DEF Shape
    <3>4. n = 1
      BY <1>7, <3>2, <3>3 DEF Above
    <3>5. u \in States /\ Len(u.stack[a]) = n - 1
      BY <1>13, <2>1, <3>1, PopFields
    <3>6. Len(u.stack[a]) = 0 /\ u.stack[a] \in Seq(CallFrame)
      BY <3>4, <3>5, Fields
    <3> QED BY <3>6, EmptySeq
  <2>4. PICK f : f = Requested(d)
    OBVIOUS
  <2>5. /\ f \in CallFrame /\ f.fn \in {"idle", "suspend", "resume"} /\ f.ret = "done" /\ ~f.parent /\ f.pc = "repeat"
        /\ "ASYNC" \notin f.flags
    <3>1. s.dev[d].request \in {"IDLE", "SUSPEND", "AUTOSUSPEND", "RESUME"}
      BY <1>7, <1>15 DEF Power
    <3>2. {"NOWAIT"} \in SUBSET Flags /\ {"NOWAIT", "AUTO"} \in SUBSET Flags
      BY DEF Flags
    <3>3. PICK fn \in {"idle", "suspend", "resume"}, flags \in {{"NOWAIT"}, {"NOWAIT", "AUTO"}} :
            f = Frame(fn, d, flags, "done")
      BY <1>5, <2>4, <3>1 DEF Requested
    <3>4. flags \in SUBSET Flags /\ "ASYNC" \notin flags
      BY <3>2
    <3> QED BY <1>7, <3>3, <3>4, NewFrame
  <2>6. FrameOK(f)
    BY <2>5 DEF FrameOK
  <2>7. RInv(Push(u, a, f), {}, {})
    BY <2>2, <2>3, <2>5, <2>6, PushInv
  <2>8. Set(Push(u, a, f))
    BY <1>5, <1>6, <1>8, <1>10, <1>15, <2>1, <2>4 DEF pm_runtime_work
  <2> QED BY <2>7, <2>8, Becomes
<1> QED BY <1>14, <1>15

(* The timer expires. *)
LEMMA TimerKeeps ==
  ASSUME RpmInvariant, NEW d \in Device, NEW later \in BOOLEAN, pm_suspend_timer_fn(d, later)
  PROVE  RpmInvariant'
<1>1. PICK s : Now(s)
  BY NowState
<1>2. s = State /\ s.stack[timer(d)] = <<>> /\ RInv(s, {}, {}) /\ timer(d) \in Actor /\ s \in States /\ s.dev = dev
  BY <1>1, Kind DEF Now, RpmInvariant, pm_suspend_timer_fn, Actor
<1>3. PICK r : r = pm_runtime_deactivate_timer(s, d)
  OBVIOUS
<1>4. Minor(s, r, d) /\ r.dev[d].pending = s.dev[d].pending /\ r.dev[d].timer = "off"
  BY <1>2, <1>3, Timers
<1>5. RInv(r, {}, {})
  BY <1>2, <1>4, MinorDev
<1>6. r \in States /\ r.stack[timer(d)] = <<>>
  BY <1>2, <1>4 DEF Minor, DevOnly
<1>7. PICK flags : flags = {"ASYNC"} \cup (IF s.dev[d].timer = "autosuspend" THEN {"AUTO"} ELSE {})
  OBVIOUS
<1>8. flags \in SUBSET Flags
  BY <1>7 DEF Flags
<1>9. PICK f : f = Frame("suspend", d, flags, "done")
  OBVIOUS
<1>10. f \in CallFrame /\ f.fn = "suspend" /\ f.ret = "done" /\ ~f.parent /\ f.pc = "repeat"
  BY <1>8, <1>9, NewFrame
<1>11. FrameOK(f)
  BY <1>10 DEF FrameOK
<1>12. PICK u : u = Push(r, timer(d), f)
  OBVIOUS
<1>13. RInv(u, {}, {})
  BY <1>2, <1>5, <1>6, <1>10, <1>11, <1>12, PushInv
<1>14. u.stack[timer(d)] # <<>> /\ Top(u, timer(d)) = f
  BY <1>2, <1>6, <1>10, <1>12, PushTop
<1>15. PICK z : z = rpm_suspend_body(u, timer(d), later)
  OBVIOUS
<1>16. RInv(z, {}, {})
  BY <1>2, <1>10, <1>13, <1>14, <1>15, SuspendBodyInv
<1>17. Set(z)
  BY <1>2, <1>3, <1>7, <1>9, <1>12, <1>15 DEF pm_suspend_timer_fn
<1> QED BY <1>16, <1>17, Becomes

(* The reference of t to d becomes v. *)
RefSet1(s, r, t, d, v) ==
  /\ RefOnly(s, r, t, d) /\ r.ref[t][d] = v /\ r.dev = s.dev

(* What such an assignment does. *)
LEMMA RefFields ==
  ASSUME NEW s \in States, NEW t \in Task, NEW d \in Device, NEW v \in {"no", "ref", "ok"}
  PROVE  RefSet1(s, [s EXCEPT !.ref[t][d] = v], t, d, v)
<1>1. PICK R : R = [s.ref EXCEPT ![t] = [s.ref[t] EXCEPT ![d] = v]]
  OBVIOUS
<1>2. s.ref \in [Task -> [Device -> {"no", "ref", "ok"}]]
  BY Fields
<1>3. /\ R \in [Task -> [Device -> {"no", "ref", "ok"}]] /\ R[t][d] = v
      /\ \A u \in Task, e \in Device : u # t \/ e # d => R[u][e] = s.ref[u][e]
  BY <1>1, <1>2
<1>4. PICK r : r = [s EXCEPT !.ref = R]
  OBVIOUS
<1>5. r \in States /\ r.dev = s.dev /\ r.stack = s.stack /\ r.work = s.work /\ r.lapsed = s.lapsed /\ r.ref = R
  BY <1>3, <1>4 DEF States
<1>6. [s EXCEPT !.ref[t][d] = v] = r
  BY <1>1, <1>4
<1>7. RefSet1(s, r, t, d, v)
  BY <1>3, <1>5 DEF RefSet1, RefOnly
<1> QED BY <1>6, <1>7

(* A reference of a task comes or goes with the count. *)
LEMMA TaskRefInv ==
  ASSUME NEW s, RInv(s, {}, {}), NEW t \in Task, NEW d \in Device, s.stack[t] = <<>>,
         NEW q, Used1(s, q, d), NEW r, NEW v, RefSet1(q, r, t, d, v),
         \/ s.ref[t][d] = "no" /\ v = "ref" /\ q.dev[d].usage = s.dev[d].usage + 1
         \/ s.ref[t][d] # "no" /\ v = "no" /\ q.dev[d].usage = s.dev[d].usage - 1
  PROVE  RInv(r, {}, {}) /\ r.stack = s.stack
<1>1. /\ q \in States /\ q.stack = s.stack /\ q.work = s.work /\ q.ref = s.ref /\ q.lapsed = s.lapsed
      /\ \A e \in Device : e # d => q.dev[e] = s.dev[e]
      /\ r \in States /\ r.dev = q.dev /\ r.ref[t][d] = v
  BY DEF Used1, DevOnly, RefSet1, RefOnly
<1>2. RefOnly(s, r, t, d)
  BY <1>1 DEF RefSet1, RefOnly
<1>3. SameStatus(s, r)
  BY <1>1 DEF Used1, SameStatus
<1>4. \A e \in Device : r.dev[e].timer = s.dev[e].timer /\ r.dev[e].pending = s.dev[e].pending
  BY <1>1 DEF Used1
<1>5. \A e \in Device : e # d => r.dev[e].usage = s.dev[e].usage
  BY <1>1
<1>6. RInv(r, {}, {})
  BY <1>1, <1>2, <1>3, <1>4, <1>5, RefInv
<1> QED BY <1>2, <1>6 DEF RefOnly

(* A task that makes no call. *)
LEMMA Tasks ==
  ASSUME RpmInvariant, NEW s, Now(s), NEW t \in Task, Idle(t)
  PROVE  /\ s = State /\ s.stack[t] = <<>> /\ RInv(s, {}, {}) /\ t \in Actor /\ s \in States /\ s.dev = dev
         /\ s.ref = ref
<1>1. s = State /\ s.stack[t] = <<>> /\ RInv(s, {}, {}) /\ t \in Actor /\ s.dev = dev /\ s.ref = ref
  BY DEF Now, RpmInvariant, Idle, Actor
<1> QED BY <1>1, Kind

(* A task gets a device, *)
LEMMA GetKeeps ==
  ASSUME RpmInvariant, NEW t \in Task, NEW d \in Device, NEW flags \in {{}, {"ASYNC"}}, pm_runtime_get(t, d, flags)
  PROVE  RpmInvariant'
<1>1. PICK s : Now(s)
  BY NowState
<1>2. Idle(t) /\ ref[t][d] = "no"
  BY DEF pm_runtime_get
<1>3. /\ s = State /\ s.stack[t] = <<>> /\ RInv(s, {}, {}) /\ t \in Actor /\ s \in States /\ s.ref[t][d] = "no"
  BY <1>1, <1>2, Tasks
<1>4. PICK q : q = pm_runtime_get_noresume(s, d)
  OBVIOUS
<1>5. Used1(s, q, d) /\ q.dev[d].usage = s.dev[d].usage + 1
  BY <1>3, <1>4, GetFields
<1>6. PICK r : r = [q EXCEPT !.ref[t][d] = "ref"]
  OBVIOUS
<1>7. RefSet1(q, r, t, d, "ref")
  BY <1>5, <1>6, RefFields DEF Used1, DevOnly
<1>8. RInv(r, {}, {}) /\ r.stack = s.stack
  BY <1>3, <1>5, <1>7, TaskRefInv
<1>9. r.ref[t][d] = "ref"
  BY <1>7 DEF RefSet1
<1>10. PICK ret : ret = IF "ASYNC" \in flags THEN "done" ELSE "get"
  OBVIOUS
<1>11. PICK f : f = Frame("resume", d, flags, ret)
  OBVIOUS
<1>12. /\ f \in CallFrame /\ f.fn = "resume" /\ f.dev = d /\ f.flags = flags /\ f.ret = ret /\ ~f.parent
       /\ f.pc = "repeat"
  <2>1. flags \in SUBSET Flags
    BY DEF Flags
  <2>2. ret \in {"done", "get", "put", "suspend", "idle", "parent", "barrier", "disable"}
    BY <1>10
  <2> QED BY <1>11, <2>1, <2>2, NewFrame
<1>13. FrameOK(f) /\ f.ret \in {"done", "get"}
  BY <1>10, <1>12 DEF FrameOK
<1>14. RInv(Push(r, t, f), {}, {})
  BY <1>3, <1>8, <1>9, <1>12, <1>13, PushInv
<1>15. Set(Push(r, t, f))
  BY <1>3, <1>4, <1>6, <1>10, <1>11 DEF pm_runtime_get, Call
<1> QED BY <1>14, <1>15, Becomes

(* puts it, *)
LEMMA PutKeeps ==
  ASSUME RpmInvariant, NEW t \in Task, NEW d \in Device, NEW fn \in {"idle", "suspend"}, NEW flags \in SUBSET Flags,
         pm_runtime_put(t, d, fn, flags)
  PROVE  RpmInvariant'
<1>1. PICK s : Now(s)
  BY NowState
<1>2. Idle(t) /\ ref[t][d] # "no"
  BY DEF pm_runtime_put
<1>3. /\ s = State /\ s.stack[t] = <<>> /\ RInv(s, {}, {}) /\ t \in Actor /\ s \in States /\ s.ref[t][d] # "no"
  BY <1>1, <1>2, Tasks
<1>4. PICK q : q = get_put(s, d)
  OBVIOUS
<1>5. s.dev[d].usage > 0
  BY <1>3, Kind, InUse
<1>6. Used1(s, q, d) /\ q.dev[d].usage = s.dev[d].usage - 1
  BY <1>3, <1>4, <1>5, PutFields
<1>7. PICK r : r = [q EXCEPT !.ref[t][d] = "no"]
  OBVIOUS
<1>8. RefSet1(q, r, t, d, "no")
  BY <1>6, <1>7, RefFields DEF Used1, DevOnly
<1>9. RInv(r, {}, {}) /\ r.stack = s.stack
  BY <1>3, <1>6, <1>8, TaskRefInv
<1>10. PICK f : f = Frame(fn, d, flags, "done")
  OBVIOUS
<1>11. f \in CallFrame /\ f.fn = fn /\ f.ret = "done" /\ ~f.parent /\ f.pc = "repeat"
  BY <1>10, NewFrame
<1>12. FrameOK(f)
  BY <1>11 DEF FrameOK
<1>13. RInv(Push(r, t, f), {}, {})
  BY <1>3, <1>9, <1>11, <1>12, PushInv
<1>14. CASE r.dev[d].usage = 0
  <2>1. Set(Push(r, t, f))
    BY <1>3, <1>4, <1>7, <1>10, <1>14 DEF pm_runtime_put, Call
  <2> QED BY <1>13, <2>1, Becomes
<1>15. CASE r.dev[d].usage # 0
  <2>1. Set(r)
    BY <1>3, <1>4, <1>7, <1>15 DEF pm_runtime_put
  <2> QED BY <1>9, <2>1, Becomes
<1> QED BY <1>14, <1>15

(* requests its resume, *)
LEMMA RequestKeeps ==
  ASSUME RpmInvariant, NEW t \in Task, NEW d \in Device, pm_request_resume(t, d)
  PROVE  RpmInvariant'
<1>1. PICK s : Now(s)
  BY NowState
<1>2. Idle(t)
  BY DEF pm_request_resume
<1>3. s = State /\ s.stack[t] = <<>> /\ RInv(s, {}, {}) /\ t \in Actor
  BY <1>1, <1>2, Tasks
<1>4. PICK z : z = rpm_resume_body(Push(s, t, Frame("resume", d, {"ASYNC"}, "done")), t)
  OBVIOUS
<1>5. {"ASYNC"} \in SUBSET Flags
  BY DEF Flags
<1>6. RInv(z, {}, {})
  BY <1>3, <1>4, <1>5, NestedResume
<1>7. Set(z)
  BY <1>3, <1>4 DEF pm_request_resume
<1> QED BY <1>6, <1>7, Becomes

(* schedules its suspend, *)
LEMMA ScheduleKeeps ==
  ASSUME RpmInvariant, NEW t \in Task, NEW d \in Device, NEW delay \in BOOLEAN, pm_schedule_suspend(t, d, delay)
  PROVE  RpmInvariant'
<1>1. PICK s : Now(s)
  BY NowState
<1>2. Idle(t)
  BY DEF pm_schedule_suspend
<1>3. s = State /\ s.stack[t] = <<>> /\ RInv(s, {}, {}) /\ t \in Actor /\ s \in States /\ s.dev = dev
  BY <1>1, <1>2, Tasks
<1>4. CASE delay
  <2>1. PICK p : p = [s.dev[d] EXCEPT !.request = "NONE", !.timer = "suspend"]
    OBVIOUS
  <2>2. s.dev[d] \in Power
    BY <1>3, Fields
  <2>3. p \in Power /\ Major(s.dev[d], p) /\ p.pending = s.dev[d].pending
    BY <2>1, <2>2 DEF Power, Major
  <2>4. rpm_check_suspend_allowed(s.dev[d]) = "ok"
    BY <1>3, <1>4 DEF pm_schedule_suspend
  <2>5. ~(s.dev[d].disable_depth > 0)
    BY <2>4 DEF rpm_check_suspend_allowed
  <2>6. RInv(With(s, d, p), {}, {})
    BY <1>3, <2>3, <2>5, MinorStep
  <2>7. Set(With(s, d, p))
    BY <1>3, <1>4, <2>1 DEF pm_schedule_suspend
  <2> QED BY <2>6, <2>7, Becomes
<1>5. CASE ~delay
  <2>1. PICK f : f = Frame("suspend", d, {"ASYNC"}, "done")
    OBVIOUS
  <2>2. {"ASYNC"} \in SUBSET Flags
    BY DEF Flags
  <2>3. f \in CallFrame /\ f.fn = "suspend" /\ f.ret = "done" /\ ~f.parent /\ f.pc = "repeat"
    BY <2>1, <2>2, NewFrame
  <2>4. FrameOK(f)
    BY <2>3 DEF FrameOK
  <2>5. PICK u : u = Push(s, t, f)
    OBVIOUS
  <2>6. RInv(u, {}, {})
    BY <1>3, <2>3, <2>4, <2>5, PushInv
  <2>7. u.stack[t] # <<>> /\ Top(u, t) = f
    BY <1>3, <2>3, <2>5, PushTop
  <2>8. PICK z : z = rpm_suspend_body(u, t, FALSE)
    OBVIOUS
  <2>9. RInv(z, {}, {})
    BY <1>3, <2>3, <2>6, <2>7, <2>8, SuspendBodyInv
  <2>10. Set(z)
    BY <1>3, <1>5, <2>1, <2>5, <2>8 DEF pm_schedule_suspend
  <2> QED BY <2>9, <2>10, Becomes
<1> QED BY <1>4, <1>5

(* The call of a barrier. *)
LEMMA BarrierFrame ==
  ASSUME NEW d \in Used, NEW ret \in {"put", "done"}, NEW f, f = Frame("barrier", d, {}, ret)
  PROVE  /\ f \in CallFrame /\ f.fn = "barrier" /\ f.dev = d /\ f.ret = ret /\ ~f.parent /\ f.pc = "repeat" /\ FrameOK(f)
<1>1. {} \in SUBSET Flags /\ d \in Device
  BY DeviceAssumption
<1>2. f \in CallFrame /\ f.fn = "barrier" /\ f.dev = d /\ f.ret = ret /\ ~f.parent /\ f.pc = "repeat"
  BY <1>1, NewFrame
<1> QED BY <1>2 DEF FrameOK

(* A task flushes a device, *)
LEMMA BarrierKeeps ==
  ASSUME RpmInvariant, NEW t \in Task, NEW d \in Used, pm_runtime_barrier(t, d)
  PROVE  RpmInvariant'
<1>0. d \in Device
  BY DeviceAssumption
<1>1. PICK s : Now(s)
  BY NowState
<1>2. Idle(t)
  BY DEF pm_runtime_barrier
<1>3. s = State /\ s.stack[t] = <<>> /\ RInv(s, {}, {}) /\ t \in Actor /\ s \in States
  BY <1>1, <1>2, Tasks
<1>4. PICK f : f = Frame("barrier", d, {}, "put")
  OBVIOUS
<1>5. f \in CallFrame /\ f.fn = "barrier" /\ f.dev = d /\ f.ret = "put" /\ ~f.parent /\ f.pc = "repeat" /\ FrameOK(f)
  BY <1>4, BarrierFrame
<1>6. PICK q : q = pm_runtime_get_noresume(s, d)
  OBVIOUS
<1>7. PICK r : r = Push(q, t, f)
  OBVIOUS
<1>8. RInv(r, {}, {})
  BY <1>3, <1>5, <1>6, <1>7, PushGetInv
<1>9. q \in States
  BY <1>0, <1>3, <1>6, GetFields DEF Used1, DevOnly
<1>10. r.stack[t] # <<>> /\ Top(r, t) = f
  BY <1>3, <1>5, <1>7, <1>9, PushTop
<1>11. CASE ResumePending(d)
  <2>1. PICK z : z = rpm_resume_body(Push(r, t, Frame("resume", d, {}, "barrier")), t)
    OBVIOUS
  <2>2. Set(z)
    BY <1>3, <1>4, <1>6, <1>7, <1>11, <2>1 DEF pm_runtime_barrier
  <2>3. Above(Frame("resume", d, {}, "barrier"), Top(r, t))
    BY <1>5, <1>10 DEF Above, Frame
  <2>4. RInv(z, {}, {})
    BY <1>0, <1>3, <1>8, <1>10, <2>1, <2>3, NestedResume
  <2> QED BY <2>2, <2>4, Becomes
<1>12. CASE ~ResumePending(d)
  <2>1. Set(__pm_runtime_barrier(r, t))
    BY <1>3, <1>4, <1>6, <1>7, <1>12 DEF pm_runtime_barrier
  <2>2. RInv(r, {f.dev}, {})
    BY <1>8, Exempt
  <2>3. RInv(__pm_runtime_barrier(r, t), {}, {})
    BY <1>3, <1>5, <1>10, <2>2, BarrierInv
  <2> QED BY <2>1, <2>3, Becomes
<1> QED BY <1>11, <1>12

(* disables it, *)
LEMMA DisableKeeps ==
  ASSUME RpmInvariant, NEW t \in Task, NEW d \in Used, __pm_runtime_disable(t, d)
  PROVE  RpmInvariant'
<1>0. d \in Device
  BY DeviceAssumption
<1>1. PICK s : Now(s)
  BY NowState
<1>2. Idle(t)
  BY DEF __pm_runtime_disable
<1>3. s = State /\ s.stack[t] = <<>> /\ RInv(s, {}, {}) /\ t \in Actor /\ s \in States /\ s.dev = dev
  BY <1>1, <1>2, Tasks
<1>4. CASE s.dev[d].disable_depth > 0
  <2>1. PICK p : p = [s.dev[d] EXCEPT !.disable_depth = s.dev[d].disable_depth + 1]
    OBVIOUS
  <2>2. PICK r : r = With(s, d, p)
    OBVIOUS
  <2>3. Set(r)
    BY <1>3, <1>4, <2>1, <2>2 DEF __pm_runtime_disable
  <2>4. s.dev[d].disable_depth + 1 \in Nat
    <3>1. s.dev[d] \in Power
      BY <1>0, <1>3, Fields
    <3> QED BY <3>1 DEF Power
  <2>5. /\ DevOnly(s, r, d) /\ r.dev[d] = p
        /\ p.status = s.dev[d].status /\ p.child_count = s.dev[d].child_count
        /\ p.usage = s.dev[d].usage /\ p.idle = s.dev[d].idle /\ p.pending = s.dev[d].pending
        /\ p.timer = s.dev[d].timer
    BY <1>0, <1>3, <2>1, <2>2, <2>4, Depths
  <2>6. RInv(r, {}, {})
    BY <1>0, <1>3, <1>4, <2>5, DepthInv
  <2> QED BY <2>3, <2>6, Becomes
<1>5. PICK f : f = Frame("barrier", d, {}, "done")
  OBVIOUS
<1>6. f \in CallFrame /\ f.fn = "barrier" /\ f.dev = d /\ f.ret = "done" /\ ~f.parent /\ f.pc = "repeat" /\ FrameOK(f)
  BY <1>5, BarrierFrame
<1>7. PICK r : r = Push(s, t, f)
  OBVIOUS
<1>8. RInv(r, {}, {})
  BY <1>3, <1>6, <1>7, PushInv
<1>9. r.stack[t] # <<>> /\ Top(r, t) = f /\ r \in States
  BY <1>3, <1>6, <1>7, PushTop
<1>10. CASE ~(s.dev[d].disable_depth > 0) /\ ResumePending(d)
  <2>1. PICK h : h = Frame("resume", d, {}, "disable")
    OBVIOUS
  <2>2. /\ h \in CallFrame /\ h.fn = "resume" /\ h.dev = d /\ h.flags = {} /\ h.ret = "disable" /\ ~h.parent
        /\ h.pc = "repeat"
    <3>1. {} \in SUBSET Flags
      OBVIOUS
    <3> QED BY <1>0, <2>1, <3>1, NewFrame
  <2>3. FrameOK(h) /\ Above(h, Top(r, t))
    BY <1>6, <1>9, <2>2 DEF FrameOK, Above
  <2>4. PICK q : q = pm_runtime_get_noresume(r, d)
    OBVIOUS
  <2>5. PICK u : u = Push(q, t, h)
    OBVIOUS
  <2>6. RInv(u, {}, {})
    BY <1>3, <1>8, <1>9, <2>2, <2>3, <2>4, <2>5, PushGetInv
  <2>7. q \in States
    BY <1>0, <1>9, <2>4, GetFields DEF Used1, DevOnly
  <2>8. u.stack[t] # <<>> /\ Top(u, t) = h
    BY <1>3, <2>2, <2>5, <2>7, PushTop
  <2>9. RInv(rpm_resume_body(u, t), {}, {})
    BY <1>3, <2>2, <2>6, <2>8, ResumeBodyInv
  <2>10. Set(rpm_resume_body(u, t))
    BY <1>3, <1>5, <1>7, <1>10, <2>1, <2>4, <2>5 DEF __pm_runtime_disable
  <2> QED BY <2>9, <2>10, Becomes
<1>11. CASE ~(s.dev[d].disable_depth > 0) /\ ~ResumePending(d)
  <2>1. Set(disable_now(r, t))
    BY <1>3, <1>5, <1>7, <1>11 DEF __pm_runtime_disable
  <2>2. RInv(disable_now(r, t), {}, {})
    BY <1>3, <1>6, <1>8, <1>9, DisableInv
  <2> QED BY <2>1, <2>2, Becomes
<1> QED BY <1>4, <1>10, <1>11

(* enables it. *)
LEMMA EnableKeeps ==
  ASSUME RpmInvariant, NEW t \in Task, NEW d \in Used, pm_runtime_enable(t, d)
  PROVE  RpmInvariant'
<1>0. d \in Device
  BY DeviceAssumption
<1>1. PICK s : Now(s)
  BY NowState
<1>2. Idle(t)
  BY DEF pm_runtime_enable
<1>3. s = State /\ RInv(s, {}, {}) /\ s \in States /\ s.dev = dev
  BY <1>1, <1>2, Tasks
<1>4. PICK p : p = [s.dev[d] EXCEPT !.disable_depth = s.dev[d].disable_depth - 1]
  OBVIOUS
<1>5. PICK r : r = With(s, d, p)
  OBVIOUS
<1>6. Set(r) /\ s.dev[d].disable_depth > 0
  BY <1>3, <1>4, <1>5 DEF pm_runtime_enable
<1>7. s.dev[d].disable_depth - 1 \in Nat
  <2>1. s.dev[d] \in Power
    BY <1>0, <1>3, Fields
  <2> QED BY <1>6, <2>1 DEF Power
<1>8. /\ DevOnly(s, r, d) /\ r.dev[d] = p
      /\ p.status = s.dev[d].status /\ p.child_count = s.dev[d].child_count
      /\ p.usage = s.dev[d].usage /\ p.idle = s.dev[d].idle /\ p.pending = s.dev[d].pending
      /\ p.timer = s.dev[d].timer
  BY <1>0, <1>3, <1>4, <1>5, <1>7, Depths
<1>9. RInv(r, {}, {})
  BY <1>0, <1>3, <1>6, <1>8, DepthInv
<1> QED BY <1>6, <1>9, Becomes

(* The barrier takes the work item from the queue, *)
LEMMA CancelKeeps ==
  ASSUME RpmInvariant, NEW a \in Actor, barrier_cancel(a)
  PROVE  RpmInvariant'
<1>1. PICK s : Now(s)
  BY NowState
<1>2. PICK g : g = Top(s, a)
  OBVIOUS
<1>3. In(a, "barrier", {"cancel"})
  BY DEF barrier_cancel
<1>4. Called(s, a, g) /\ RInv(s, {}, {}) /\ g.fn = "barrier" /\ g.pc = "cancel"
  BY <1>1, <1>2, <1>3, Calling
<1>5. /\ s = State /\ Dev(a) = g.dev /\ s.stack[a] # <<>> /\ FrameOK(g) /\ g.dev \in Device /\ s \in States
      /\ g \in CallFrame /\ Promised(s, a, g)
  BY <1>1, <1>4 DEF Now, Called
<1>6. PICK f : f = [g EXCEPT !.pc = "cancelled"]
  OBVIOUS
<1>7. "cancelled" \in Places
  BY DEF Places
<1>8. /\ f \in CallFrame /\ f.fn = g.fn /\ f.dev = g.dev /\ f.flags = g.flags /\ f.ret = g.ret
      /\ f.parent = g.parent /\ f.pc = "cancelled"
  BY <1>5, <1>6, <1>7, Moved
<1>9. FrameOK(f) /\ ParentKept(s.dev, f) /\ Promised(s, a, f) /\ Waits(s, f)
  BY <1>4, <1>5, <1>8 DEF FrameOK, ParentKept, Promised, Waits
<1>10. PICK r : r = At(s, a, "cancelled")
  OBVIOUS
<1>11. RInv(r, {}, {})
  BY <1>2, <1>4, <1>5, <1>6, <1>7, <1>9, <1>10, AtInv
<1>12. AtDone(s, r, a, "cancelled")
  BY <1>5, <1>7, <1>10, AtFields
<1>13. /\ r \in States /\ r.stack[a] # <<>> /\ Top(r, a).fn = "barrier" /\ Top(r, a).dev = g.dev
       /\ Top(r, a).pc = "cancelled"
  BY <1>2, <1>4, <1>12 DEF AtDone
<1>14. Cancelling(r.stack, g.dev)
  BY <1>13, TopFrame DEF Cancelling, Cancels
<1>15. RInv(dequeue(r, g.dev), {}, {})
  BY <1>5, <1>11, <1>14, DequeueInv
<1>16. Set(dequeue(r, g.dev))
  BY <1>5, <1>10 DEF barrier_cancel
<1> QED BY <1>15, <1>16, Becomes

(* has waited for the worker, *)
LEMMA CancelledKeeps ==
  ASSUME RpmInvariant, NEW a \in Actor, barrier_cancelled(a)
  PROVE  RpmInvariant'
<1>1. PICK s : Now(s)
  BY NowState
<1>2. PICK g : g = Top(s, a)
  OBVIOUS
<1>3. In(a, "barrier", {"cancelled"})
  BY DEF barrier_cancelled
<1>4. Called(s, a, g) /\ RInv(s, {}, {}) /\ g.fn = "barrier" /\ g.pc = "cancelled"
  BY <1>1, <1>2, <1>3, Calling
<1>5. /\ s = State /\ s.dev = dev /\ Dev(a) = g.dev /\ s.stack[a] # <<>> /\ g.dev \in Device /\ s \in States
  BY <1>1, <1>4 DEF Now, Called
<1>6. PICK d : d = g.dev
  OBVIOUS
<1>7. d \in Device /\ s.dev[d] \in Power
  BY <1>5, <1>6, Fields
<1>8. PICK p : p = [s.dev[d] EXCEPT !.pending = FALSE]
  OBVIOUS
<1>9. p \in Power /\ Major(s.dev[d], p) /\ ~p.pending /\ p.timer = s.dev[d].timer
  BY <1>7, <1>8 DEF Power, Major
<1>10. PICK r : r = With(s, d, p)
  OBVIOUS
<1>11. Minor(s, r, d) /\ r.dev[d] = p
  BY <1>5, <1>7, <1>9, <1>10, MinorSet
<1>12. RInv(r, {}, {})
  BY <1>4, <1>7, <1>9, <1>11, MinorDev
<1>13. r.stack[a] # <<>> /\ Top(r, a) = g /\ ~r.dev[d].pending
  BY <1>2, <1>5, <1>9, <1>11 DEF Minor, DevOnly, Top
<1>14. RInv(r, {g.dev}, {})
  BY <1>12, Exempt
<1>15. RInv(__pm_runtime_barrier_wait(r, a), {}, {})
  BY <1>4, <1>6, <1>12, <1>13, <1>14, BarrierWaitInv
<1>16. Set(__pm_runtime_barrier_wait(r, a))
  BY <1>5, <1>6, <1>8, <1>10 DEF barrier_cancelled
<1> QED BY <1>15, <1>16, Becomes

(* is woken up. *)
LEMMA BarrierWokenKeeps ==
  ASSUME RpmInvariant, NEW a \in Actor, barrier_woken(a)
  PROVE  RpmInvariant'
<1>1. PICK s : Now(s)
  BY NowState
<1>2. PICK g : g = Top(s, a)
  OBVIOUS
<1>3. In(a, "barrier", {"woken"})
  BY DEF barrier_woken
<1>4. Called(s, a, g) /\ RInv(s, {}, {}) /\ g.fn = "barrier" /\ g.pc = "woken"
  BY <1>1, <1>2, <1>3, Calling
<1>5. s = State /\ s.stack[a] # <<>>
  BY <1>1, <1>4 DEF Now, Called
<1>6. RInv(s, {g.dev}, {})
  BY <1>4, Exempt
<1>7. RInv(__pm_runtime_barrier_wait(s, a), {}, {})
  BY <1>2, <1>4, <1>5, <1>6, BarrierWaitInv
<1>8. Set(__pm_runtime_barrier_wait(s, a))
  BY <1>5 DEF barrier_woken
<1> QED BY <1>7, <1>8, Becomes

(* An empty stack has no live call. *)
LEMMA EmptyStack ==
  ASSUME NEW st, NEW a \in Actor, st[a] = <<>>, NEW i \in Nat
  PROVE  ~Live(st, a, i)
BY DEF Live

(* At the beginning there are no calls, no references and no active device. *)
LEMMA RpmInitially ==
  RpmInit => RpmInvariant
<1> SUFFICES ASSUME RpmInit PROVE RpmInvariant
  OBVIOUS
<1>1. PICK s : Now(s)
  BY NowState
<1>2. /\ s.dev \in [Device -> Power] /\ s.work \in [Device -> BOOLEAN] /\ s.lapsed \in [Device -> BOOLEAN]
      /\ s.ref \in [Task -> [Device -> {"no", "ref", "ok"}]]
  BY <1>1 DEF RpmInit, Now, Power
<1>3. s.stack \in [Actor -> Seq(CallFrame)]
  <2>1. <<>> \in Seq(CallFrame)
    OBVIOUS
  <2> QED BY <1>1, <2>1 DEF RpmInit, Now
<1>4. s \in States
  BY <1>1, <1>2, <1>3 DEF States, Now, State
<1>5. \A a \in Actor, i \in Nat : ~Live(s.stack, a, i)
  <2>1. \A a \in Actor : s.stack[a] = <<>>
    BY <1>1 DEF RpmInit, Now
  <2> QED BY <2>1, EmptyStack
<1>6. \A d \in Device : /\ s.dev[d].status = "SUSPENDED" /\ s.dev[d].usage = 0 /\ s.dev[d].child_count = 0
                        /\ s.dev[d].disable_depth = 0 /\ ~s.dev[d].pending
  BY <1>1 DEF RpmInit, Now
<1>7. \A t \in Task, d \in Device : s.ref[t][d] = "no"
  BY <1>1 DEF RpmInit, Now
<1>8. IsFiniteSet({}) /\ Cardinality({}) = 0
  BY FS_EmptySet
<1>9. UsageInv(s)
  <2> SUFFICES ASSUME NEW d \in Device PROVE UsageOf(s, d)
    BY UsageParts
  <2>1. RefSet(s.ref, d) = {}
    BY <1>7 DEF RefSet
  <2>2. HoldSet(s.stack, d) = {}
    <3>1. \A x \in Actor \X Nat : ~Live(s.stack, x[1], x[2])
      BY <1>5
    <3> QED BY <3>1 DEF HoldSet
  <2> QED BY <1>6, <1>8, <2>1, <2>2 DEF UsageOf
<1>10. ChildInv(s)
  <2> SUFFICES ASSUME NEW d \in Device PROVE s.dev[d].child_count = Cardinality(Awake(s.dev, d))
    BY DEF ChildInv
  <2>1. Awake(s.dev, d) = {}
    BY <1>6 DEF Awake
  <2> QED BY <1>6, <1>8, <2>1
<1>11. Shape(s.stack) /\ ParentInv(s) /\ HeldInv(s)
  BY <1>5, <1>6, <1>7 DEF Shape, ParentInv, HeldInv
<1>12. DisabledInv(s, {}) /\ PendingInv(s) /\ SleepInv(s, {})
  BY <1>5, <1>6 DEF DisabledInv, PendingInv, SleepInv
<1>13. ChangeInv(s)
  BY <1>5, <1>6 DEF ChangeInv, RunInv, RunBy
<1>14. RInv(s, {}, {})
  BY <1>4, <1>9, <1>10, <1>11, <1>12, <1>13 DEF RInv
<1> QED BY <1>1, <1>14 DEF RpmInvariant, Now

(* The invariant is about the variables. *)
LEMMA RpmStutters ==
  RpmInvariant /\ UNCHANGED rpm_vars => RpmInvariant'
<1> SUFFICES ASSUME RpmInvariant, UNCHANGED rpm_vars PROVE RpmInvariant'
  OBVIOUS
<1>1. State' = State
  BY DEF rpm_vars, State
<1> QED BY <1>1 DEF RpmInvariant

(* Every action keeps the invariant. *)
LEMMA RpmStep ==
  RpmInvariant /\ RpmNext => RpmInvariant'
<1> SUFFICES ASSUME RpmInvariant, RpmNext PROVE RpmInvariant'
  OBVIOUS
<1>1. ASSUME NEW a \in Actor, Step(a) PROVE RpmInvariant'
  <2>1. CASE rpm_resume(a)
    BY <2>1, ResumeKeeps
  <2>2. CASE resume_parent(a)
    BY <2>2, ResumeParentKeeps
  <2>3. CASE resume_put_parent(a)
    BY <2>3, PutParentKeeps
  <2>4. CASE suspend_notify_parent(a)
    BY <2>4, NotifyKeeps
  <2>5. CASE rpm_idle(a)
    BY <2>5, IdleKeeps
  <2>6. CASE idle_callback(a)
    BY <2>6, IdleCallbackKeeps
  <2>7. CASE rpm_idle_done(a)
    BY <2>7, IdleDoneKeeps
  <2>8. CASE \E later \in BOOLEAN : rpm_suspend(a, later)
    BY <2>8, SuspendKeeps
  <2>9. CASE pm_runtime_work(a)
    BY <2>9, WorkKeeps
  <2>10. CASE barrier_cancel(a)
    BY <2>10, CancelKeeps
  <2>11. CASE barrier_cancelled(a)
    BY <2>11, CancelledKeeps
  <2>12. CASE barrier_woken(a)
    BY <2>12, BarrierWokenKeeps
  <2> QED BY <1>1, <2>1, <2>2, <2>3, <2>4, <2>5, <2>6, <2>7, <2>8, <2>9, <2>10, <2>11, <2>12 DEF Step
<1>2. ASSUME NEW a \in Actor, Callback(a) PROVE RpmInvariant'
  <2>1. CASE \E ok \in BOOLEAN : rpm_resume_done(a, ok)
    BY <2>1, ResumeDoneKeeps
  <2>2. CASE rpm_suspend_done(a)
    BY <2>2, SuspendDoneKeeps
  <2>3. CASE \E busy, retry, later \in BOOLEAN : rpm_suspend_failed(a, busy, retry, later)
    BY <2>3, SuspendFailedKeeps
  <2> QED BY <1>2, <2>1, <2>2, <2>3 DEF Callback
<1>3. ASSUME NEW d \in Used, NEW t \in User, Use(t, d) PROVE RpmInvariant'
  <2>1. d \in Device /\ t \in Task
    BY DeviceAssumption DEF Task
  <2>2. CASE \E flags \in {{}, {"ASYNC"}} : pm_runtime_get(t, d, flags)
    BY <2>1, <2>2, GetKeeps
  <2>3. CASE \E put \in Puts : pm_runtime_put(t, d, put[1], put[2])
    <3>1. PICK put \in Puts : pm_runtime_put(t, d, put[1], put[2])
      BY <2>3
    <3>2. put[1] \in {"idle", "suspend"} /\ put[2] \in SUBSET Flags
      BY PutsAssumption
    <3> QED BY <2>1, <3>1, <3>2, PutKeeps
  <2> QED BY <1>3, <2>2, <2>3 DEF Use
<1>4. ASSUME NEW d \in Used, NEW t \in Manager, Manage(t, d) PROVE RpmInvariant'
  <2>1. d \in Device /\ t \in Task
    BY DeviceAssumption DEF Task
  <2>2. CASE pm_request_resume(t, d)
    BY <2>1, <2>2, RequestKeeps
  <2>3. CASE \E delay \in BOOLEAN : pm_schedule_suspend(t, d, delay)
    BY <2>1, <2>3, ScheduleKeeps
  <2>4. CASE pm_runtime_barrier(t, d)
    BY <2>1, <2>4, BarrierKeeps
  <2>5. CASE __pm_runtime_disable(t, d)
    BY <2>1, <2>5, DisableKeeps
  <2>6. CASE pm_runtime_enable(t, d)
    BY <2>1, <2>6, EnableKeeps
  <2> QED BY <1>4, <2>2, <2>3, <2>4, <2>5, <2>6 DEF Manage
<1>5. ASSUME NEW d \in Device, Background(d) PROVE RpmInvariant'
  BY <1>5, ProcessWorkKeeps, TimerKeeps DEF Background
<1> QED BY <1>1, <1>2, <1>3, <1>4, <1>5 DEF RpmNext, Busy

(* The invariant of runtime PM, for any tree of devices and any tasks. *)
THEOREM RpmInvariantHolds ==
  RpmSpec => []RpmInvariant
<1>1. RpmInvariant /\ [RpmNext]_rpm_vars => RpmInvariant'
  BY RpmStep, RpmStutters
<1> QED BY <1>1, RpmInitially, PTL DEF RpmSpec

----------------------------------------------------------------------------
(* The properties, from the invariant. *)

(* The parts of the invariant, of the variables. *)
LEMMA NowKind ==
  ASSUME RpmInvariant
  PROVE  /\ State \in States /\ Shape(stack) /\ UsageInv(State) /\ ChildInv(State) /\ ParentInv(State)
         /\ HeldInv(State) /\ DisabledInv(State, {}) /\ ChangeInv(State) /\ PendingInv(State)
         /\ SleepInv(State, {})
         /\ State.dev = dev /\ State.work = work /\ State.stack = stack /\ State.ref = ref /\ State.lapsed = lapsed
<1>1. State.dev = dev /\ State.work = work /\ State.stack = stack /\ State.ref = ref /\ State.lapsed = lapsed
  BY DEF State
<1>2. RInv(State, {}, {})
  BY DEF RpmInvariant
<1> QED BY <1>1, <1>2 DEF RInv

(* Calls are the pairs of an actor and a place on its stack. *)
LEMMA CallsLive ==
  ASSUME State \in States, State.stack = stack
  PROVE  Calls = {x \in Actor \X Nat : Live(stack, x[1], x[2])}
<1>1. \A a \in Actor : stack[a] \in Seq(CallFrame)
  BY DEF States
<1>2. \A a \in Actor : /\ DOMAIN stack[a] = 1..Len(stack[a]) /\ Len(stack[a]) \in Nat
                       /\ (stack[a] = <<>> => Len(stack[a]) = 0)
  BY <1>1
<1>3. \A x : x \in Calls => x \in Actor \X Nat /\ Live(stack, x[1], x[2])
  BY <1>2 DEF Calls, Busy, Live
<1>4. \A x \in Actor \X Nat : Live(stack, x[1], x[2]) => x \in Calls
  <2> SUFFICES ASSUME NEW a \in Actor, NEW i \in Nat, Live(stack, a, i) PROVE <<a, i>> \in Calls
    OBVIOUS
  <2>1. i \in DOMAIN stack[a] /\ a \in Busy
    BY <1>2 DEF Live, Busy
  <2> QED BY <2>1 DEF Calls
<1> QED BY <1>3, <1>4

(* The two ways to name a call. *)
LEMMA LiveCalls ==
  ASSUME State \in States, State.stack = stack
  PROVE  /\ \A x \in Calls : /\ x[1] \in Actor /\ x[2] \in Nat /\ x = <<x[1], x[2]>> /\ Live(stack, x[1], x[2])
                             /\ FrameAt(x) = stack[x[1]][x[2]] /\ FrameAt(x).dev \in Device
         /\ \A a \in Actor, i \in Nat : Live(stack, a, i) => <<a, i>> \in Calls /\ FrameAt(<<a, i>>) = stack[a][i]
<1>1. Calls = {x \in Actor \X Nat : Live(stack, x[1], x[2])}
  BY CallsLive
<1>2. \A a \in Actor : stack[a] \in Seq(CallFrame)
  BY DEF States
<1>3. \A a \in Actor, i \in Nat : Live(stack, a, i) => stack[a][i] \in CallFrame
  BY <1>2 DEF Live
<1>4. \A a \in Actor, i \in Nat : Live(stack, a, i) => stack[a][i].dev \in Device
  BY <1>3 DEF CallFrame
<1>5. \A a \in Actor, i \in Nat : Live(stack, a, i) => <<a, i>> \in Calls /\ FrameAt(<<a, i>>) = stack[a][i]
  BY <1>1 DEF FrameAt
<1>6. \A x \in Calls : x[1] \in Actor /\ x[2] \in Nat /\ x = <<x[1], x[2]>> /\ Live(stack, x[1], x[2])
  BY <1>1
<1>7. \A x \in Calls : FrameAt(x) = stack[x[1]][x[2]] /\ FrameAt(x).dev \in Device
  BY <1>4, <1>6 DEF FrameAt
<1> QED BY <1>5, <1>6, <1>7

(* A device is active from the successful return of pm_runtime_get_sync()  *)
(* to the put, whatever is requested, scheduled, running or failing.       *)
THEOREM RpmHeldIsActive ==
  RpmSpec => []HeldIsActive
<1>1. ASSUME RpmInvariant PROVE HeldIsActive
  <2>1. HeldInv(State) /\ State.ref = ref /\ State.dev = dev
    BY <1>1, NowKind
  <2> QED BY <2>1 DEF HeldInv, HeldIsActive
<1> QED BY <1>1, RpmInvariantHolds, PTL

(* When __pm_runtime_disable() is through, no callback is running, no      *)
(* request is pending and the timer is off.                                *)
THEOREM RpmDisabledIsQuiet ==
  RpmSpec => []DisabledIsQuiet
<1>1. ASSUME RpmInvariant PROVE DisabledIsQuiet
  <2>1. State \in States /\ DisabledInv(State, {}) /\ State.dev = dev /\ State.stack = stack
    BY <1>1, NowKind
  <2> SUFFICES ASSUME NEW d \in Device, dev[d].disable_depth > 0, Frames("barrier", d) = {}
               PROVE  Quiet(dev[d]) /\ ~dev[d].pending /\ dev[d].timer = "off"
    BY DEF DisabledIsQuiet
  <2>2. \A a \in Actor, i \in Nat : Live(stack, a, i) => ~(stack[a][i].fn = "barrier" /\ stack[a][i].dev = d)
    <3> SUFFICES ASSUME NEW a \in Actor, NEW i \in Nat, Live(stack, a, i), stack[a][i].fn = "barrier",
                        stack[a][i].dev = d
                 PROVE  FALSE
      OBVIOUS
    <3>1. <<a, i>> \in Calls /\ FrameAt(<<a, i>>) = stack[a][i]
      BY <2>1, LiveCalls
    <3>2. <<a, i>> \in Frames("barrier", d)
      BY <3>1 DEF Frames
    <3> QED BY <3>2
  <2>3. ~Flushing(stack, d) /\ ~Cancelling(stack, d)
    BY <2>2 DEF Flushing, Cancelling, Flushes, Cancels
  <2>4. /\ dev[d].timer = "off" /\ (dev[d].pending => Cancelling(stack, d))
        /\ (~Quiet(dev[d]) => Flushing(stack, d))
    BY <2>1 DEF DisabledInv
  <2> QED BY <2>3, <2>4
<1> QED BY <1>1, RpmInvariantHolds, PTL

(* usage_count is the number of references of tasks and calls, child_count *)
(* that of the children that are not suspended, and a parent that tasks do *)
(* not disable is active while a child is active or changing.              *)
THEOREM RpmCountsExact ==
  RpmSpec => []CountsExact
<1>1. ASSUME RpmInvariant PROVE CountsExact
  <2>1. /\ State \in States /\ UsageInv(State) /\ ChildInv(State) /\ ParentInv(State) 
        /\ State.dev = dev /\ State.stack = stack /\ State.ref = ref
    BY <1>1, NowKind
  <2>2. RpmTypeOK
    BY <2>1 DEF RpmTypeOK
  <2>3. ASSUME NEW d \in Device
        PROVE  dev[d].usage = Cardinality({t \in Task : ref[t][d] # "no"})
                                + Cardinality({x \in Calls : Holds(FrameAt(x), d)})
    <3>1. {t \in Task : ref[t][d] # "no"} = RefSet(ref, d)
      BY DEF RefSet
    <3>2. {x \in Calls : Holds(FrameAt(x), d)} = HoldSet(stack, d)
      <4>1. Calls = {x \in Actor \X Nat : Live(stack, x[1], x[2])}
        BY <2>1, CallsLive
      <4> QED BY <4>1, Zenon DEF HoldSet, FrameAt
    <3>3. dev[d].usage = Cardinality(RefSet(ref, d)) + Cardinality(HoldSet(stack, d))
      BY <2>1 DEF UsageInv
    <3> QED BY <3>1, <3>2, <3>3
  <2>4. ASSUME NEW d \in Device
        PROVE  dev[d].child_count = Cardinality({c \in Children(d) : dev[c].status \in {"ACTIVE", "SUSPENDING"}})
    <3>1. {c \in Children(d) : dev[c].status \in {"ACTIVE", "SUSPENDING"}} = Awake(dev, d)
      BY DEF Awake, Children
    <3>2. dev[d].child_count = Cardinality(Awake(dev, d))
      BY <2>1 DEF ChildInv
    <3> QED BY <3>1, <3>2
  <2>5. ASSUME NEW d \in Device, d \notin Used, NEW c \in Children(d), dev[c].status # "SUSPENDED"
        PROVE  dev[d].status = "ACTIVE"
    BY <2>1, <2>5 DEF ParentInv, Children
  <2> QED BY <2>2, <2>3, <2>4, <2>5 DEF CountsExact
<1> QED BY <1>1, RpmInvariantHolds, PTL

(* As many calls are running the callback as there are changes, 1 or 0. *)
LEMMA OneRuns ==
  ASSUME State \in States, State.stack = stack, NEW fn, NEW d \in Device, NEW on \in BOOLEAN, RunInv(stack, fn, d, on)
  PROVE  Cardinality(Transition(fn, d)) = (IF on THEN 1 ELSE 0)
<1>1. \A x \in Transition(fn, d) : /\ x[1] \in Actor /\ x[2] \in Nat /\ x = <<x[1], x[2]>>
                                   /\ RunBy(stack, fn, d, x[1], x[2])
  BY LiveCalls DEF Transition, RunBy, Runs
<1>2. \A a \in Actor, i \in Nat : RunBy(stack, fn, d, a, i) => <<a, i>> \in Transition(fn, d)
  BY LiveCalls DEF Transition, RunBy, Runs
<1>3. CASE on
  <2>1. PICK a \in Actor, i \in Nat : RunBy(stack, fn, d, a, i)
    BY <1>3 DEF RunInv
  <2>2. \A x \in Transition(fn, d) : x[1] = a /\ x[2] = i
    BY <1>1, <2>1 DEF RunInv
  <2>3. \A x \in Transition(fn, d) : x = <<a, i>>
    BY <1>1, <2>2
  <2>4. Transition(fn, d) = {<<a, i>>}
    BY <1>2, <2>1, <2>3
  <2>5. Cardinality({<<a, i>>}) = 1
    BY FS_Singleton
  <2> QED BY <1>3, <2>4, <2>5
<1>4. CASE ~on
  <2>1. Transition(fn, d) = {}
    BY <1>1, <1>4 DEF RunInv
  <2> QED BY <1>4, <2>1, FS_EmptySet
<1> QED BY <1>3, <1>4

(* A device that changes is being changed by exactly one call, a pending   *)
(* request has somebody who sees to it, and nobody sleeps on for a change  *)
(* that is over, unless rpm_suspend() has started over.                    *)
THEOREM RpmChangesEnd ==
  RpmSpec => []ChangesEnd
<1>1. ASSUME RpmInvariant PROVE ChangesEnd
  <2>1. /\ State \in States /\ ChangeInv(State) /\ PendingInv(State) /\ SleepInv(State, {})
        /\ State.dev = dev /\ State.stack = stack /\ State.work = work /\ State.lapsed = lapsed
    BY <1>1, NowKind
  <2>2. ASSUME NEW d \in Device
        PROVE  /\ Cardinality(Transition("suspend", d)) = (IF dev[d].status = "SUSPENDING" THEN 1 ELSE 0)
               /\ Cardinality(Transition("resume", d)) = (IF dev[d].status = "RESUMING" THEN 1 ELSE 0)
    <3>1. /\ RunInv(stack, "suspend", d, dev[d].status = "SUSPENDING")
          /\ RunInv(stack, "resume", d, dev[d].status = "RESUMING")
      BY <2>1 DEF ChangeInv
    <3> QED BY <2>1, <3>1, OneRuns
  <2>3. ASSUME NEW d \in Device, dev[d].pending
        PROVE  \/ work[d] \/ Frames("work", d) # {}
               \/ \E x \in Frames("barrier", d) : FrameAt(x).pc \in {"cancel", "cancelled"}
    <3>1. work[d] \/ Working(stack, d) \/ Cancelling(stack, d)
      BY <2>1, <2>3 DEF PendingInv
    <3>2. CASE Working(stack, d)
      <4>1. PICK a \in Actor, i \in Nat : Live(stack, a, i) /\ Works(stack[a][i], d)
        BY <3>2 DEF Working
      <4>2. <<a, i>> \in Frames("work", d)
        BY <2>1, <4>1, LiveCalls DEF Frames, Works
      <4> QED BY <4>2
    <3>3. CASE Cancelling(stack, d)
      <4>1. PICK a \in Actor, i \in Nat : Live(stack, a, i) /\ Cancels(stack[a][i], d)
        BY <3>3 DEF Cancelling
      <4>2. <<a, i>> \in Frames("barrier", d) /\ FrameAt(<<a, i>>).pc \in {"cancel", "cancelled"}
        BY <2>1, <4>1, LiveCalls DEF Frames, Cancels
      <4> QED BY <4>2
    <3> QED BY <3>1, <3>2, <3>3
  <2>4. ASSUME NEW x \in Sleeping PROVE WaitsFor(FrameAt(x)) \/ lapsed[FrameAt(x).dev]
    <3>1. /\ x \in Calls /\ FrameAt(x).pc = "sleep" /\ FrameAt(x).fn \in {"suspend", "resume", "barrier"}
      BY <2>4 DEF Sleeping
    <3>2. x[1] \in Actor /\ x[2] \in Nat /\ Live(stack, x[1], x[2]) /\ FrameAt(x) = stack[x[1]][x[2]]
      BY <2>1, <3>1, LiveCalls
    <3>3. Waits(State, FrameAt(x))
      BY <2>1, <3>2 DEF SleepInv
    <3>4. AwaitsEnd(dev[FrameAt(x).dev], FrameAt(x)) \/ lapsed[FrameAt(x).dev]
      BY <2>1, <3>1, <3>3 DEF Waits
    <3> QED BY <3>1, <3>4 DEF AwaitsEnd, WaitsFor
  <2> QED BY <2>2, <2>3, <2>4 DEF ChangesEnd
<1> QED BY <1>1, RpmInvariantHolds, PTL

=============================================================================
