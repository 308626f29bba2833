----------------------------- MODULE LibProofs -----------------------------
(***************************************************************************)
(* Lemmas that the proofs about the components share: what the operations  *)
(* on a list of waiters do to who is on it, powers of two and arithmetic   *)
(* modulo one, as counters of fixed width do it, and sums over finite      *)
(* sets.  Induction over sets is by a counterexample of least size.        *)
(***************************************************************************)
EXTENDS WaitList, FiniteSetTheorems, FiniteSetsExt, SequenceTheorems, TLAPS

(* list_del() takes off the waiter it is given and no other, wherever it   *)
(* stands.                                                                 *)
LEMMA ListDel ==
  ASSUME NEW S, NEW s \in Seq(S), NEW w, OnList(s, w), OnceEach(s)
  PROVE  /\ list_del(s, w) \in Seq(S)
         /\ Len(list_del(s, w)) = Len(s) - 1
         /\ ~OnList(list_del(s, w), w)
         /\ \A v : v # w => (OnList(list_del(s, w), v) <=> OnList(s, v))
         /\ OnceEach(list_del(s, w))
<1> DEFINE k == CHOOSE i \in 1..Len(s) : s[i] = w
           l == list_del(s, w)
<1>1. k \in 1..Len(s) /\ s[k] = w
  BY DEF OnList
<1>2. l = [i \in 1..(Len(s) - 1) |-> IF i < k THEN s[i] ELSE s[i + 1]]
  BY DEF list_del
<1> HIDE DEF k, l
<1>3. \A i \in 1..Len(s) : s[i] = w => i = k
  BY <1>1 DEF OnceEach
<1>4. Len(s) \in Nat /\ Len(s) - 1 \in Nat
  BY <1>1
<1>5. l \in Seq(S) /\ Len(l) = Len(s) - 1
  BY <1>1, <1>2, <1>4
<1>6. \A i \in 1..Len(l) : l[i] = IF i < k THEN s[i] ELSE s[i + 1]
  BY <1>2, <1>5
<1>7. ~OnList(l, w)
  BY <1>1, <1>3, <1>5, <1>6 DEF OnList
<1>8. ASSUME NEW v, v # w PROVE OnList(l, v) <=> OnList(s, v)
  <2>1. OnList(l, v) => OnList(s, v)
    BY <1>1, <1>5, <1>6 DEF OnList
  <2>2. ASSUME OnList(s, v) PROVE OnList(l, v)
    <3>1. PICK i \in 1..Len(s) : s[i] = v
      BY <2>2 DEF OnList
    <3>2. i < k \/ i > k
      BY <1>1, <1>8, <3>1
    <3>3. CASE i < k
      <4>1. i \in 1..Len(l) /\ l[i] = v
        BY <1>1, <1>5, <1>6, <3>1, <3>3
      <4> QED BY <4>1 DEF OnList
    <3>4. CASE i > k
      <4>1. i - 1 \in 1..Len(l) /\ l[i - 1] = v
        BY <1>1, <1>5, <1>6, <3>1, <3>4
      <4> QED BY <4>1 DEF OnList
    <3> QED BY <3>2, <3>3, <3>4
  <2> QED BY <2>1, <2>2
<1>9. OnceEach(l)
  <2> SUFFICES ASSUME NEW i \in 1..Len(l), NEW j \in 1..Len(l), l[i] = l[j]
               PROVE  i = j
    BY DEF OnceEach
  <2> DEFINE at(n) == IF n < k THEN n ELSE n + 1
  <2>1. /\ at(i) \in 1..Len(s) /\ l[i] = s[at(i)]
        /\ at(j) \in 1..Len(s) /\ l[j] = s[at(j)]
    BY <1>1, <1>5, <1>6
  <2>2. at(i) = at(j)
    BY <2>1 DEF OnceEach
  <2> QED BY <1>1, <1>5, <2>2
<1> QED BY <1>5, <1>7, <1>8, <1>9 DEF l

(* A waiter that is added at the tail is on the list, and nobody else is   *)
(* who was not; it is there once if it was not on the list before.         *)
LEMMA ListAddTail ==
  ASSUME NEW S, NEW s \in Seq(S), NEW w \in S, ~OnList(s, w), OnceEach(s)
  PROVE  /\ list_add_tail(s, w) \in Seq(S)
         /\ OnList(list_add_tail(s, w), w)
         /\ \A v : v # w => (OnList(list_add_tail(s, w), v) <=> OnList(s, v))
         /\ OnceEach(list_add_tail(s, w))
<1> DEFINE l == list_add_tail(s, w)
<1>1. /\ l \in Seq(S) /\ Len(l) = Len(s) + 1 /\ Len(s) \in Nat
      /\ \A i \in 1..Len(s) : l[i] = s[i]
      /\ l[Len(s) + 1] = w
  BY DEF list_add_tail
<1> HIDE DEF l
<1>2. OnList(l, w)
  <2>1. Len(s) + 1 \in 1..Len(l)
    BY <1>1
  <2> QED BY <1>1, <2>1 DEF OnList
<1>3. ASSUME NEW v, v # w PROVE OnList(l, v) <=> OnList(s, v)
  <2>1. ASSUME NEW i \in 1..Len(l), l[i] = v PROVE i \in 1..Len(s) /\ s[i] = v
    BY <1>1, <1>3, <2>1
  <2>2. ASSUME NEW i \in 1..Len(s), s[i] = v PROVE i \in 1..Len(l) /\ l[i] = v
    BY <1>1, <2>2
  <2> QED BY <2>1, <2>2 DEF OnList
<1>4. OnceEach(l)
  <2> SUFFICES ASSUME NEW i \in 1..Len(l), NEW j \in 1..Len(l), l[i] = l[j]
               PROVE  i = j
    BY DEF OnceEach
  <2>1. CASE i \in 1..Len(s) /\ j \in 1..Len(s)
    BY <1>1, <2>1 DEF OnceEach
  <2>2. CASE i = Len(s) + 1 /\ j \in 1..Len(s)
    BY <1>1, <2>2 DEF OnList
  <2>3. CASE i \in 1..Len(s) /\ j = Len(s) + 1
    BY <1>1, <2>3 DEF OnList
  <2> QED BY <1>1, <2>1, <2>2, <2>3
<1> QED BY <1>1, <1>2, <1>3, <1>4 DEF l

(* The tail of a list without repetitions is the list without its first.   *)
LEMMA ListDelFirst ==
  ASSUME NEW S, NEW s \in Seq(S), s # <<>>, OnceEach(s)
  PROVE  /\ Head(s) \in S /\ OnList(s, Head(s))
         /\ Tail(s) \in Seq(S)
         /\ ~OnList(Tail(s), Head(s))
         /\ \A v : v # Head(s) => (OnList(Tail(s), v) <=> OnList(s, v))
         /\ OnceEach(Tail(s))
<1> DEFINE l == Tail(s)
           h == Head(s)
<1>1. /\ Len(s) \in Nat /\ Len(s) >= 1
      /\ h = s[1] /\ h \in S
      /\ l \in Seq(S) /\ Len(l) = Len(s) - 1
      /\ \A i \in 1..Len(l) : l[i] = s[i + 1]
  OBVIOUS
<1> HIDE DEF l, h
<1>2. 1 \in 1..Len(s) /\ OnList(s, h)
  BY <1>1 DEF OnList
<1>3. ~OnList(l, h)
  <2> SUFFICES ASSUME NEW i \in 1..Len(l), l[i] = h PROVE FALSE
    BY DEF OnList
  <2>1. i + 1 \in 1..Len(s) /\ s[i + 1] = s[1]
    BY <1>1
  <2>2. i + 1 = 1
    BY <1>2, <2>1 DEF OnceEach
  <2> QED BY <1>1, <2>2
<1>4. ASSUME NEW v, v # h PROVE OnList(l, v) <=> OnList(s, v)
  <2>1. ASSUME NEW i \in 1..Len(l), l[i] = v PROVE i + 1 \in 1..Len(s) /\ s[i + 1] = v
    BY <1>1, <2>1
  <2>2. ASSUME NEW i \in 1..Len(s), s[i] = v PROVE i - 1 \in 1..Len(l) /\ l[i - 1] = v
    <3>1. i # 1
      BY <1>1, <1>4, <2>2
    <3> QED BY <1>1, <2>2, <3>1
  <2> QED BY <2>1, <2>2 DEF OnList
<1>5. OnceEach(l)
  <2> SUFFICES ASSUME NEW i \in 1..Len(l), NEW j \in 1..Len(l), l[i] = l[j]
               PROVE  i = j
    BY DEF OnceEach
  <2>1. /\ i + 1 \in 1..Len(s) /\ j + 1 \in 1..Len(s)
        /\ s[i + 1] = s[j + 1]
    BY <1>1
  <2>2. i + 1 = j + 1
    BY <2>1 DEF OnceEach
  <2> QED BY <1>1, <2>2
<1> QED BY <1>1, <1>2, <1>3, <1>4, <1>5 DEF l, h

(* The first n elements of a list are n different ones. *)
LEMMA ListFront ==
  ASSUME NEW S, NEW s \in Seq(S), NEW n \in 0..Len(s), OnceEach(s),
         NEW front, front = {s[i] : i \in 1..n}
  PROVE  front \subseteq S /\ IsFiniteSet(front) /\ Cardinality(front) = n
<1> DEFINE f == [i \in 1..n |-> s[i]]
<1>1. Len(s) \in Nat /\ n \in Nat /\ n <= Len(s)
  OBVIOUS
<1>2. front \subseteq S
  BY <1>1
<1>3. f \in [1..n -> front] /\ \A i \in 1..n : f[i] = s[i]
  OBVIOUS
<1>4. \A i, j \in 1..n : f[i] = f[j] => i = j
  BY <1>1, <1>3 DEF OnceEach
<1>5. \A v \in front : \E i \in 1..n : f[i] = v
  BY <1>3
<1>6. f \in Bijection(1..n, front)
  BY <1>3, <1>4, <1>5 DEF Bijection, Injection, IsInjective, Surjection
<1>7. ExistsBijection(1..n, front)
  BY <1>6 DEF ExistsBijection
<1>8. IsFiniteSet(1..n) /\ Cardinality(1..n) = n
  BY <1>1, FS_Interval
<1> QED BY <1>2, <1>7, <1>8, FS_Bijection

(* Taking the first n waiters off the front leaves the others, in their    *)
(* order; those taken off are n different ones.                            *)
LEMMA ListDelFront ==
  ASSUME NEW S, NEW s \in Seq(S), NEW n \in 0..Len(s), OnceEach(s)
  PROVE  LET l     == SubSeq(s, n + 1, Len(s))
             front == {s[i] : i \in 1..n}
         IN  /\ l \in Seq(S) /\ Len(l) = Len(s) - n
             /\ \A i \in 1..Len(l) : l[i] = s[i + n]
             /\ OnceEach(l)
             /\ front \subseteq S /\ IsFiniteSet(front) /\ Cardinality(front) = n
             /\ \A v : OnList(s, v) <=> (OnList(l, v) \/ v \in front)
             /\ \A v \in front : ~OnList(l, v)
<1> DEFINE l     == SubSeq(s, n + 1, Len(s))
           front == {s[i] : i \in 1..n}
<1>1. Len(s) \in Nat /\ n \in Nat /\ n <= Len(s)
  OBVIOUS
<1>2. \A i \in (n + 1)..Len(s) : s[i] \in S
  BY <1>1
<1>3. /\ l \in Seq(S)
      /\ Len(l) = IF n + 1 <= Len(s) THEN Len(s) - (n + 1) + 1 ELSE 0
      /\ \A i \in 1..(Len(s) - (n + 1) + 1) : l[i] = s[(n + 1) + i - 1]
  BY <1>1, <1>2, SubSeqProperties
<1> HIDE DEF l
<1>4. Len(l) = Len(s) - n /\ \A i \in 1..Len(l) : i + n \in 1..Len(s) /\ l[i] = s[i + n]
  BY <1>1, <1>3
<1>5. OnceEach(l)
  <2> SUFFICES ASSUME NEW i \in 1..Len(l), NEW j \in 1..Len(l), l[i] = l[j]
               PROVE  i = j
    BY DEF OnceEach
  <2>1. i + n = j + n
    BY <1>4 DEF OnceEach
  <2> QED BY <1>1, <1>4, <2>1
<1>6. front \subseteq S
  BY <1>1, ListFront
<1>7. IsFiniteSet(front) /\ Cardinality(front) = n
  BY <1>1, ListFront
<1>8. ASSUME NEW v PROVE OnList(s, v) <=> (OnList(l, v) \/ v \in front)
  <2>1. ASSUME NEW i \in 1..Len(l), l[i] = v PROVE OnList(s, v)
    BY <1>4, <2>1 DEF OnList
  <2>2. ASSUME NEW i \in 1..n, s[i] = v PROVE OnList(s, v)
    BY <1>1, <2>2 DEF OnList
  <2>3. ASSUME NEW i \in 1..Len(s), s[i] = v PROVE OnList(l, v) \/ v \in front
    <3>1. CASE i <= n
      BY <1>1, <2>3, <3>1
    <3>2. CASE i > n
      <4>1. i - n \in 1..Len(l) /\ l[i - n] = v
        BY <1>1, <1>4, <2>3, <3>2
      <4> QED BY <4>1 DEF OnList
    <3> QED BY <1>1, <3>1, <3>2
  <2> QED BY <2>1, <2>2, <2>3 DEF OnList
<1>9. ASSUME NEW v \in front PROVE ~OnList(l, v)
  <2> SUFFICES ASSUME NEW j \in 1..Len(l), l[j] = v PROVE FALSE
    BY DEF OnList
  <2>1. PICK i \in 1..n : v = s[i]
    OBVIOUS
  <2>2. j + n = i
    BY <1>1, <1>4, <2>1 DEF OnceEach
  <2> QED BY <1>1, <1>4, <2>2
<1> QED BY <1>3, <1>4, <1>5, <1>6, <1>7, <1>8, <1>9 DEF l

----------------------------------------------------------------------------
(* Powers of two: a set of n members has 2^n subsets, so there is at least *)
(* one, and one more member doubles their number.                          *)
LEMMA SubsetsOf ==
  ASSUME NEW n \in Nat
  PROVE  IsFiniteSet(SUBSET (1..n)) /\ Cardinality(SUBSET (1..n)) = 2^n
<1>1. IsFiniteSet(1..n) /\ Cardinality(1..n) = n
  BY FS_Interval
<1> QED BY <1>1, FS_SUBSET

LEMMA PowerPositive ==
  ASSUME NEW n \in Nat
  PROVE  2^n \in Nat /\ 2^n > 0
<1>1. IsFiniteSet(SUBSET (1..n)) /\ Cardinality(SUBSET (1..n)) = 2^n
  BY SubsetsOf
<1>2. Cardinality(SUBSET (1..n)) \in Nat /\ Cardinality(SUBSET (1..n)) # 0
  BY <1>1, FS_CardinalityType, FS_EmptySet
<1> QED BY <1>1, <1>2

LEMMA PowerDouble ==
  ASSUME NEW n \in Nat
  PROVE  2^(n + 1) = 2 * 2^n
<1> DEFINE A == SUBSET (1..n)
           B == {s \cup {n + 1} : s \in A}
           f == [s \in A |-> s \cup {n + 1}]
<1>1. IsFiniteSet(A) /\ Cardinality(A) = 2^n /\ 2^n \in Nat
  BY SubsetsOf, PowerPositive
<1>2. \A s \in A : n + 1 \notin s
  OBVIOUS
<1>3. f \in Bijection(A, B)
  <2>1. f \in [A -> B] /\ \A s \in A : f[s] = s \cup {n + 1}
    OBVIOUS
  <2>2. \A s, t \in A : f[s] = f[t] => s = t
    <3> SUFFICES ASSUME NEW s \in A, NEW t \in A, s \cup {n + 1} = t \cup {n + 1}
                 PROVE  s = t
      BY <2>1
    <3>1. s = (s \cup {n + 1}) \ {n + 1} /\ t = (t \cup {n + 1}) \ {n + 1}
      BY <1>2
    <3> QED BY <3>1
  <2>3. \A v \in B : \E s \in A : f[s] = v
    BY <2>1
  <2> QED BY <2>1, <2>2, <2>3 DEF Bijection, Injection, IsInjective, Surjection
<1>4. IsFiniteSet(B) /\ Cardinality(B) = 2^n
  <2>1. ExistsBijection(A, B)
    BY <1>3 DEF ExistsBijection
  <2> QED BY <1>1, <2>1, FS_Bijection
<1>5. SUBSET (1..(n + 1)) = A \cup B
  <2>1. ASSUME NEW s \in SUBSET (1..(n + 1)) PROVE s \in A \cup B
    <3>1. CASE n + 1 \notin s
      BY <2>1, <3>1
    <3>2. CASE n + 1 \in s
      <4>1. s \ {n + 1} \in A /\ s = (s \ {n + 1}) \cup {n + 1}
        BY <2>1, <3>2
      <4> QED BY <4>1
    <3> QED BY <3>1, <3>2
  <2>2. ASSUME NEW s \in A \cup B PROVE s \in SUBSET (1..(n + 1))
    BY <2>2
  <2> QED BY <2>1, <2>2
<1>6. A \cap B = {}
  BY <1>2
<1> HIDE DEF A, B
<1>7. Cardinality(A \cup B) = Cardinality(A) + Cardinality(B) - Cardinality(A \cap B)
  BY <1>1, <1>4, FS_Union
<1>8. Cardinality(A \cap B) = 0
  BY <1>6, FS_EmptySet
<1>9. Cardinality(SUBSET (1..(n + 1))) = 2^(n + 1)
  BY SubsetsOf
<1>10. Cardinality(A \cup B) = 2^(n + 1)
  BY <1>5, <1>9
<1>11. Cardinality(A \cup B) = 2^n + 2^n
  BY <1>1, <1>4, <1>7, <1>8
<1> HIDE DEF f
<1> QED BY <1>1, <1>10, <1>11


(* Arithmetic modulo m, as the counters of the kernel do it. *)
LEMMA ModDivision ==
  ASSUME NEW m \in Nat \ {0}, NEW a \in Int
  PROVE  /\ a % m \in 0..(m - 1) /\ a \div m \in Int
         /\ a = (m * (a \div m)) + (a % m)
OBVIOUS

LEMMA ModUnique ==
  ASSUME NEW m \in Nat \ {0}, NEW a \in Int, NEW q \in Int, NEW r \in 0..(m - 1),
         a = (m * q) + r
  PROVE  a % m = r
OBVIOUS

LEMMA ModSmall ==
  ASSUME NEW m \in Nat \ {0}, NEW a \in 0..(m - 1)
  PROVE  a % m = a
OBVIOUS

LEMMA ModShift ==
  ASSUME NEW m \in Nat \ {0}, NEW a \in Int, NEW q \in Int
  PROVE  (a + (m * q)) % m = a % m
<1>1. /\ a % m \in 0..(m - 1) /\ a \div m \in Int
      /\ a = (m * (a \div m)) + (a % m)
  BY ModDivision
<1>2. (a \div m) + q \in Int /\ a + (m * q) \in Int
  BY <1>1
<1>3. m * ((a \div m) + q) = (m * (a \div m)) + (m * q)
  BY <1>1
<1>4. a + (m * q) = (m * ((a \div m) + q)) + (a % m)
  BY <1>1, <1>3
<1> QED BY <1>1, <1>2, <1>4, ModUnique

LEMMA ModSame ==
  ASSUME NEW m \in Nat \ {0}, NEW a \in Int, NEW b \in Int, NEW x \in Int, a % m = b % m
  PROVE  (a + x) % m = (b + x) % m
<1> DEFINE q == (a \div m) - (b \div m)
<1>1. /\ a \div m \in Int /\ b \div m \in Int /\ a % m \in Int
      /\ a = (m * (a \div m)) + (a % m) /\ b = (m * (b \div m)) + (b % m)
  BY ModDivision
<1>2. q \in Int /\ m * q = (m * (a \div m)) - (m * (b \div m))
  BY <1>1
<1>3. a + x = (b + x) + (m * q)
  BY <1>1, <1>2
<1>4. b + x \in Int
  OBVIOUS
<1> HIDE DEF q
<1>5. ((b + x) + (m * q)) % m = (b + x) % m
  BY <1>2, <1>4, ModShift
<1> QED BY <1>3, <1>5

LEMMA ModAdd ==
  ASSUME NEW m \in Nat \ {0}, NEW a \in Int, NEW b \in Int
  PROVE  ((a % m) + b) % m = (a + b) % m
<1>1. a % m \in 0..(m - 1)
  BY ModDivision
<1>2. (a % m) % m = a % m /\ a % m \in Int
  BY <1>1, ModSmall
<1> QED BY <1>2, ModSame

(* Parity survives a wrap round modulo an even number. *)
LEMMA ModParity ==
  ASSUME NEW k \in Nat \ {0}, NEW a \in Int
  PROVE  (a % (2 * k)) % 2 = a % 2
<1> DEFINE m == 2 * k
<1>0. m \in Nat \ {0} /\ m = 2 * k
  OBVIOUS
<1> HIDE DEF m
<1>1. /\ a % m \in 0..(m - 1) /\ a \div m \in Int
      /\ a = (m * (a \div m)) + (a % m)
  BY <1>0, ModDivision
<1>2. m * (a \div m) = 2 * (k * (a \div m)) /\ k * (a \div m) \in Int
  BY <1>0, <1>1
<1>3. a = (a % m) + (2 * (k * (a \div m))) /\ a % m \in Int
  BY <1>1, <1>2
<1>4. ((a % m) + (2 * (k * (a \div m)))) % 2 = (a % m) % 2
  BY <1>2, <1>3, ModShift
<1>5. a % 2 = (a % m) % 2
  BY <1>3, <1>4
<1> QED BY <1>5 DEF m

----------------------------------------------------------------------------
(* A set of naturals that is not empty has a least member. *)
LEMMA LeastNat ==
  ASSUME NEW T \in SUBSET Nat, T # {}
  PROVE  \E n \in T : \A m \in T : n <= m
<1>1. PICK n \in T : \A m \in T : ~(<<m, n>> \in OpToRel(<, Nat))
  BY NatLessThanWellFounded, WFMin, Zenon
<1>2. \A m \in T : ~(m < n)
  BY <1>1, Zenon DEF OpToRel
<1> QED BY <1>2

(* 2^(m + n) = 2^m * 2^n, by a least n for which it fails. *)
LEMMA PowerAdd ==
  ASSUME NEW m \in Nat
  PROVE  \A n \in Nat : 2^(m + n) = 2^m * 2^n
<1> DEFINE Bad == {n \in Nat : 2^(m + n) # 2^m * 2^n}
<1>1. SUFFICES ASSUME Bad # {} PROVE FALSE
  OBVIOUS
<1>2. PICK n \in Bad : \A i \in Bad : n <= i
  BY <1>1, LeastNat
<1>3. 2^m \in Nat
  BY PowerPositive
<1>4. n # 0
  <2>1. 2^0 = 1
    <3>1. IsFiniteSet(1..0) /\ Cardinality(1..0) = 0 /\ 1..0 = {}
      BY FS_EmptySet
    <3>2. Cardinality(SUBSET (1..0)) = 2^0
      BY <3>1, FS_SUBSET
    <3>3. SUBSET (1..0) = {{}}
      BY <3>1
    <3>4. Cardinality({{}}) = 1
      BY FS_Singleton
    <3> QED BY <3>2, <3>3, <3>4
  <2>2. m + 0 = m /\ 2^m * 1 = 2^m
    BY <1>3
  <2> QED BY <1>2, <2>1, <2>2
<1>5. n \in Nat /\ n - 1 \in Nat /\ n - 1 \notin Bad
  BY <1>2, <1>4
<1>6. 2^(m + (n - 1)) = 2^m * 2^(n - 1)
  BY <1>5
<1>7. 2^((m + (n - 1)) + 1) = 2 * 2^(m + (n - 1))
  <2>1. m + (n - 1) \in Nat
    BY <1>5
  <2> QED BY <2>1, PowerDouble
<1>8. 2^((n - 1) + 1) = 2 * 2^(n - 1) /\ 2^(n - 1) \in Nat
  BY <1>5, PowerDouble, PowerPositive
<1>9. (m + (n - 1)) + 1 = m + n /\ (n - 1) + 1 = n
  BY <1>5
<1>10. 2^(m + n) = 2 * (2^m * 2^(n - 1)) /\ 2^n = 2 * 2^(n - 1)
  BY <1>6, <1>7, <1>8, <1>9
<1>11. 2 * (2^m * 2^(n - 1)) = 2^m * (2 * 2^(n - 1))
  BY <1>3, <1>8
<1> QED BY <1>2, <1>10, <1>11

(* A word of two halves with P values each: its halves, one more in the    *)
(* lower half, and one less in the lower half with one more in the upper.  *)
LEMMA Halves ==
  ASSUME NEW P \in Nat \ {0}, NEW q \in 0..(P - 1), NEW i \in 0..(P - 1)
  PROVE  /\ (P * q) + i \in 0..((P * P) - 1)
         /\ ((P * q) + i) \div P = q /\ ((P * q) + i) % P = i
<1>1. P * P = (P * (P - 1)) + P /\ P * q \in Nat
  OBVIOUS
<1>2. P * (P - 1) = (P * q) + (P * ((P - 1) - q)) /\ P * ((P - 1) - q) \in Nat
  <2>1. (P - 1) - q \in Nat
    OBVIOUS
  <2>2. P * ((P - 1) - q) \in Nat
    BY <2>1
  <2> QED BY <2>2
<1>3. (P * q) + i \in 0..((P * P) - 1)
  BY <1>1, <1>2
<1> QED BY <1>3

LEMMA SplitWord ==
  ASSUME NEW P \in Nat \ {0}, NEW w \in 0..((P * P) - 1)
  PROVE  /\ w \div P \in 0..(P - 1) /\ w % P \in 0..(P - 1)
         /\ w = (P * (w \div P)) + (w % P)
<1> DEFINE q == w \div P
           i == w % P
<1>1. w \in Int /\ P * P \in Nat
  OBVIOUS
<1>2. q \in Int /\ i \in 0..(P - 1) /\ w = (P * q) + i
  BY <1>1, ModDivision
<1> HIDE DEF q, i
<1>3. q < P
  <2> SUFFICES ASSUME q >= P PROVE FALSE
    BY <1>2
  <2>1. q - P \in Nat
    BY <1>2
  <2>2. P * (q - P) \in Nat /\ P * q = (P * (q - P)) + (P * P)
    BY <1>2, <2>1
  <2> QED BY <1>1, <1>2, <2>2
<1>4. q >= 0
  <2> SUFFICES ASSUME q < 0 PROVE FALSE
    BY <1>2
  <2>1. 0 - (q + 1) \in Nat
    BY <1>2
  <2>2. P * (0 - (q + 1)) \in Nat /\ P * q = (0 - (P * (0 - (q + 1)))) - P
    BY <1>2, <2>1
  <2> QED BY <1>1, <1>2, <2>2
<1> QED BY <1>2, <1>3, <1>4 DEF q, i

Pick(s) == CHOOSE x \in s : TRUE

(* g[T] is the sum of f over T, for every subset T of S. *)
IsSum(g, f, S) ==
  g = [s \in SUBSET S |-> IF s = {} THEN 0 ELSE f[Pick(s)] + g[s \ {Pick(s)}]]

(* The sum of the values of f on S. *)
SetSum(f, S) == MapThenSumSet(LAMBDA x : f[x], S)

LEMMA PickIn ==
  ASSUME NEW s, s # {}
  PROVE  Pick(s) \in s
BY DEF Pick

LEMMA SmallerSet ==
  ASSUME NEW S, IsFiniteSet(S), NEW x \in S
  PROVE  /\ IsFiniteSet(S \ {x}) /\ Cardinality(S \ {x}) = Cardinality(S) - 1
         /\ Cardinality(S) \in Nat /\ Cardinality(S) > 0
<1>1. IsFiniteSet(S \ {x}) /\ Cardinality(S \ {x}) = Cardinality(S) - 1
  BY FS_RemoveElement
<1>2. Cardinality(S) \in Nat /\ Cardinality(S) # 0
  BY FS_CardinalityType, FS_EmptySet
<1> QED BY <1>1, <1>2

(* The recursive definition of the sum defines something. *)
LEMMA SumExists ==
  ASSUME NEW S, IsFiniteSet(S), NEW f
  PROVE  \E g : IsSum(g, f, S)
<1> DEFINE Upto(n) == {s \in SUBSET S : Cardinality(s) <= n}
           Val(g, s) == IF s = {} THEN 0 ELSE f[Pick(s)] + g[s \ {Pick(s)}]
           Good(n) == \E g : g = [s \in Upto(n) |-> Val(g, s)]
           Bad == {n \in Nat : ~Good(n)}
<1>1. \A s \in SUBSET S : IsFiniteSet(s) /\ Cardinality(s) \in Nat
  BY FS_Subset, FS_CardinalityType
<1>2. Good(0)
  <2> DEFINE g == [s \in Upto(0) |-> 0]
  <2>1. \A s \in Upto(0) : s = {}
    BY <1>1, FS_EmptySet
  <2>2. g = [s \in Upto(0) |-> Val(g, s)]
    BY <2>1
  <2> QED BY <2>2
<1>3. ASSUME NEW n \in Nat, Good(n) PROVE Good(n + 1)
  <2>1. PICK g : g = [s \in Upto(n) |-> Val(g, s)]
    BY <1>3
  <2> DEFINE h == [s \in Upto(n + 1) |-> Val(g, s)]
  <2>2. \A s \in Upto(n) : s \in Upto(n + 1) /\ g[s] = Val(g, s)
    <3>1. \A s \in Upto(n) : g[s] = Val(g, s)
      <4> HIDE DEF Upto, Val
      <4> QED BY <2>1
    <3> QED BY <1>1, <3>1
  <2>3. \A s \in Upto(n) : h[s] = g[s]
    <3> HIDE DEF Upto, Val
    <3> QED BY <2>2
  <2>4. ASSUME NEW s \in Upto(n + 1) PROVE Val(h, s) = Val(g, s)
    <3>1. CASE s = {}
      BY <3>1
    <3>2. CASE s # {}
      <4>1. s \ {Pick(s)} \in Upto(n)
        <5>1. Pick(s) \in s /\ IsFiniteSet(s) /\ s \in SUBSET S /\ Cardinality(s) <= n + 1
          BY <1>1, <3>2, PickIn
        <5>2. Cardinality(s \ {Pick(s)}) = Cardinality(s) - 1 /\ Cardinality(s) \in Nat
          BY <5>1, SmallerSet
        <5> QED BY <5>1, <5>2
      <4>2. h[s \ {Pick(s)}] = g[s \ {Pick(s)}]
        <5> HIDE DEF h, Upto
        <5> QED BY <2>3, <4>1
      <4> HIDE DEF h
      <4> QED BY <3>2, <4>2
    <3> QED BY <3>1, <3>2
  <2>5. h = [s \in Upto(n + 1) |-> Val(h, s)]
    <3> HIDE DEF Upto, Val
    <3> QED BY <2>4
  <2> QED BY <2>5
<1>4. Bad = {}
  <2> SUFFICES ASSUME Bad # {} PROVE FALSE
    OBVIOUS
  <2> HIDE DEF Good
  <2>1. PICK n \in Bad : \A m \in Bad : n <= m
    BY LeastNat
  <2>2. n # 0 /\ n \in Nat /\ n - 1 \in Nat
    BY <1>2, <2>1
  <2>3. Good(n - 1)
    BY <2>1, <2>2
  <2>4. Good((n - 1) + 1)
    BY <1>3, <2>2, <2>3
  <2> QED BY <2>1, <2>2, <2>4
<1>5. Good(Cardinality(S))
  <2>1. Cardinality(S) \in Nat
    BY FS_CardinalityType
  <2> HIDE DEF Good
  <2> QED BY <1>4, <2>1
<1>6. Upto(Cardinality(S)) = SUBSET S
  BY FS_Subset
<1>7. PICK g : g = [s \in SUBSET S |-> Val(g, s)]
  <2> HIDE DEF Upto, Val
  <2> QED BY <1>5, <1>6
<1> QED BY <1>7 DEF IsSum

(* What a sum is, spelled out. *)
LEMMA SumStep ==
  ASSUME NEW S, NEW f, NEW g, IsSum(g, f, S)
  PROVE  /\ g[{}] = 0
         /\ \A s \in SUBSET S : s # {} => g[s] = f[Pick(s)] + g[s \ {Pick(s)}]
<1>1. \A s \in SUBSET S : g[s] = IF s = {} THEN 0 ELSE f[Pick(s)] + g[s \ {Pick(s)}]
  BY DEF IsSum
<1>2. {} \in SUBSET S
  OBVIOUS
<1> QED BY <1>1, <1>2

(* A sum depends only on the values that are added up. *)
LEMMA SumAgree ==
  ASSUME NEW S, NEW f, NEW g, IsSum(g, f, S), IsFiniteSet(S),
         NEW R, NEW e, NEW h, IsSum(h, e, R),
         NEW T, T \subseteq S, T \subseteq R, \A x \in T : f[x] = e[x]
  PROVE  g[T] = h[T]
<1> DEFINE Bad == {n \in Nat : \E s \in SUBSET T : Cardinality(s) = n /\ g[s] # h[s]}
<1>1. \A s \in SUBSET T : IsFiniteSet(s) /\ Cardinality(s) \in Nat
  BY FS_Subset, FS_CardinalityType
<1>2. /\ g[{}] = 0 /\ \A s \in SUBSET S : s # {} => g[s] = f[Pick(s)] + g[s \ {Pick(s)}]
      /\ h[{}] = 0 /\ \A s \in SUBSET R : s # {} => h[s] = e[Pick(s)] + h[s \ {Pick(s)}]
  BY SumStep
<1>3. Bad = {}
  <2> SUFFICES ASSUME Bad # {} PROVE FALSE
    OBVIOUS
  <2>1. PICK n \in Bad : \A m \in Bad : n <= m
    BY LeastNat
  <2>2. PICK s \in SUBSET T : Cardinality(s) = n /\ g[s] # h[s]
    BY <2>1
  <2>3. s # {} /\ s \in SUBSET S /\ s \in SUBSET R
    BY <1>2, <2>2
  <2> DEFINE x == Pick(s)
  <2>4. x \in s /\ x \in T
    BY <2>3, PickIn
  <2>5. g[s] = f[x] + g[s \ {x}] /\ h[s] = e[x] + h[s \ {x}]
    BY <1>2, <2>3
  <2> HIDE DEF x
  <2>6. Cardinality(s \ {x}) = n - 1 /\ n \in Nat /\ n > 0
    BY <1>1, <2>2, <2>4, SmallerSet
  <2>7. s \ {x} \in SUBSET T /\ n - 1 \in Nat /\ n - 1 \notin Bad
    BY <2>1, <2>6
  <2>8. g[s \ {x}] = h[s \ {x}]
    BY <2>6, <2>7
  <2> QED BY <2>2, <2>4, <2>5, <2>8
<1>4. T \in SUBSET T /\ Cardinality(T) \in Nat
  BY <1>1
<1> QED BY <1>3, <1>4

(* A sum of integers is an integer. *)
LEMMA SumType ==
  ASSUME NEW S, IsFiniteSet(S), NEW f, \A x \in S : f[x] \in Int, NEW g, IsSum(g, f, S)
  PROVE  \A T \in SUBSET S : g[T] \in Int
<1> DEFINE Bad == {n \in Nat : \E s \in SUBSET S : Cardinality(s) = n /\ g[s] \notin Int}
<1>1. \A s \in SUBSET S : IsFiniteSet(s) /\ Cardinality(s) \in Nat
  BY FS_Subset, FS_CardinalityType
<1>2. g[{}] = 0 /\ \A s \in SUBSET S : s # {} => g[s] = f[Pick(s)] + g[s \ {Pick(s)}]
  BY SumStep
<1>3. Bad = {}
  <2> SUFFICES ASSUME Bad # {} PROVE FALSE
    OBVIOUS
  <2>1. PICK n \in Bad : \A m \in Bad : n <= m
    BY LeastNat
  <2>2. PICK s \in SUBSET S : Cardinality(s) = n /\ g[s] \notin Int
    BY <2>1
  <2>3. s # {}
    <3>1. s = {} => g[s] = 0
      BY <1>2
    <3> QED BY <2>2, <3>1
  <2> DEFINE x == Pick(s)
  <2>4. x \in s
    BY <2>3, PickIn
  <2>5. g[s] = f[x] + g[s \ {x}]
    BY <1>2, <2>3
  <2> HIDE DEF x
  <2>6. Cardinality(s \ {x}) = n - 1 /\ n \in Nat /\ n > 0
    BY <1>1, <2>2, <2>4, SmallerSet
  <2>7. s \ {x} \in SUBSET S /\ n - 1 \in Nat /\ n - 1 \notin Bad
    BY <2>1, <2>6
  <2>8. g[s \ {x}] \in Int
    BY <2>6, <2>7
  <2> QED BY <2>2, <2>4, <2>5, <2>8
<1> QED BY <1>1, <1>3

(* A sum of zeros is zero. *)
LEMMA SumZero ==
  ASSUME NEW S, IsFiniteSet(S), NEW f, \A x \in S : f[x] = 0, NEW g, IsSum(g, f, S)
  PROVE  g[S] = 0
<1> DEFINE h == [s \in SUBSET S |-> 0]
<1>1. \A s \in SUBSET S : s # {} => f[Pick(s)] = 0 /\ s \ {Pick(s)} \in SUBSET S
  BY PickIn
<1>2. IsSum(h, f, S)
  BY <1>1 DEF IsSum
<1>3. g[S] = h[S]
  <2> HIDE DEF h
  <2> QED BY <1>2, SumAgree
<1> QED BY <1>3

(* The order in which a sum is added up does not matter: one more summand  *)
(* adds its value.                                                         *)
LEMMA SumAdd ==
  ASSUME NEW S, IsFiniteSet(S), NEW f, \A x \in S : f[x] \in Int, NEW g, IsSum(g, f, S)
  PROVE  \A T \in SUBSET S, y \in S : y \notin T => g[T \cup {y}] = g[T] + f[y]
<1> DEFINE Wrong(s, z) == z \notin s /\ g[s \cup {z}] # g[s] + f[z]
           Bad == {n \in Nat : \E s \in SUBSET S, z \in S : Cardinality(s) = n /\ Wrong(s, z)}
<1>1. \A s \in SUBSET S : IsFiniteSet(s) /\ Cardinality(s) \in Nat /\ g[s] \in Int
  BY FS_Subset, FS_CardinalityType, SumType
<1>2. g[{}] = 0 /\ \A s \in SUBSET S : s # {} => g[s] = f[Pick(s)] + g[s \ {Pick(s)}]
  BY SumStep
<1>3. Bad = {}
  <2> SUFFICES ASSUME Bad # {} PROVE FALSE
    OBVIOUS
  <2>1. PICK n \in Bad : \A m \in Bad : n <= m
    BY LeastNat
  <2>2. PICK s \in SUBSET S, z \in S : Cardinality(s) = n /\ Wrong(s, z)
    BY <2>1
  <2> DEFINE t == s \cup {z}
             x == Pick(t)
  <2>3. t # {} /\ t \in SUBSET S /\ x \in t
    BY <2>2, PickIn
  <2>4. g[t] = f[x] + g[t \ {x}]
    BY <1>2, <2>3
  <2> HIDE DEF x
  <2>5. CASE x = z
    <3>1. t \ {x} = s
      BY <2>2, <2>5
    <3>2. g[t] = f[z] + g[s]
      BY <2>4, <2>5, <3>1
    <3> QED BY <1>1, <2>2, <3>2
  <2>6. CASE x \in s
    <3> DEFINE u == s \ {x}
    <3>1. /\ u \in SUBSET S /\ x \in S /\ x \notin u /\ z \notin u /\ x # z
          /\ u \cup {x} = s /\ t \ {x} = u \cup {z}
      BY <2>2, <2>6
    <3>2. Cardinality(u) = n - 1 /\ n \in Nat /\ n > 0
      BY <1>1, <2>2, <2>6, SmallerSet
    <3> HIDE DEF u, Wrong
    <3>3. n - 1 \notin Bad /\ n - 1 \in Nat
      BY <2>1, <3>2
    <3>4. ~Wrong(u, x) /\ ~Wrong(u, z)
      BY <3>1, <3>2, <3>3
    <3>5. g[s] = g[u] + f[x] /\ g[t \ {x}] = g[u] + f[z]
      BY <3>1, <3>4 DEF Wrong
    <3>6. g[t] = g[s] + f[z]
      <4>1. g[u] \in Int /\ f[x] \in Int /\ f[z] \in Int
        BY <1>1, <3>1
      <4> HIDE DEF t
      <4> QED BY <2>4, <3>5, <4>1
    <3> QED BY <2>2, <3>6 DEF Wrong
  <2> QED BY <2>3, <2>5, <2>6
<1>4. \A T \in SUBSET S, y \in S : ~Wrong(T, y)
  <2> HIDE DEF Wrong
  <2> QED BY <1>1, <1>3
<1> QED BY <1>4

(* The sum of the community modules is such a sum. *)
LEMMA SetSumIsSum ==
  ASSUME NEW S, IsFiniteSet(S), NEW f
  PROVE  \E g : IsSum(g, f, S) /\ SetSum(f, S) = g[S]
<1> DEFINE P(g) == g = [s \in SUBSET S |-> IF s = {} THEN 0 ELSE f[Pick(s)] + g[s \ {Pick(s)}]]
           g == CHOOSE h : P(h)
<1>1. SetSum(f, S) = g[S]
  BY DEF SetSum, MapThenSumSet, MapThenFoldSet, Pick
<1>2. \E h : P(h)
  <2>1. PICK h : IsSum(h, f, S)
    BY SumExists
  <2>2. P(h)
    BY <2>1 DEF IsSum
  <2> HIDE DEF P
  <2> QED BY <2>2
<1>3. P(g)
  <2> HIDE DEF P
  <2> QED BY <1>2
<1>4. IsSum(g, f, S)
  BY <1>3 DEF IsSum
<1> QED BY <1>1, <1>4

(* SetSum() of nothing, of one more, and of other functions.               *)
LEMMA SetSumEmpty ==
  ASSUME NEW f
  PROVE  SetSum(f, {}) = 0
BY SetSumIsSum, SumStep, FS_EmptySet

LEMMA SetSumSame ==
  ASSUME NEW S, IsFiniteSet(S), NEW f, NEW e, \A x \in S : f[x] = e[x]
  PROVE  SetSum(f, S) = SetSum(e, S)
<1>1. PICK g : IsSum(g, f, S) /\ SetSum(f, S) = g[S]
  BY SetSumIsSum
<1>2. PICK h : IsSum(h, e, S) /\ SetSum(e, S) = h[S]
  BY SetSumIsSum
<1>3. g[S] = h[S]
  BY <1>1, <1>2, SumAgree
<1> QED BY <1>1, <1>2, <1>3

LEMMA SetSumType ==
  ASSUME NEW S, IsFiniteSet(S), NEW f, \A x \in S : f[x] \in Int
  PROVE  SetSum(f, S) \in Int
<1>1. PICK g : IsSum(g, f, S) /\ SetSum(f, S) = g[S]
  BY SetSumIsSum
<1> QED BY <1>1, SumType

LEMMA SetSumRemove ==
  ASSUME NEW S, IsFiniteSet(S), NEW f, \A x \in S : f[x] \in Int, NEW y \in S
  PROVE  SetSum(f, S) = SetSum(f, S \ {y}) + f[y]
<1> DEFINE R == S \ {y}
<1>1. IsFiniteSet(R) /\ R \in SUBSET S /\ R \cup {y} = S /\ y \in S \ R
  BY FS_RemoveElement
<1>2. PICK g : IsSum(g, f, S) /\ SetSum(f, S) = g[S]
  BY SetSumIsSum
<1> HIDE DEF R
<1>3. PICK h : IsSum(h, f, R) /\ SetSum(f, R) = h[R]
  BY <1>1, SetSumIsSum
<1>4. g[R] = h[R]
  BY <1>1, <1>2, <1>3, SumAgree
<1>5. \A T \in SUBSET S, z \in S : z \notin T => g[T \cup {z}] = g[T] + f[z]
  BY <1>2, SumAdd
<1>6. g[R \cup {y}] = g[R] + f[y]
  BY <1>1, <1>5
<1> QED BY <1>1, <1>2, <1>3, <1>4, <1>6 DEF R

=============================================================================
