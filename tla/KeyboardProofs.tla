--------------------------- MODULE KeyboardProofs ---------------------------
(***************************************************************************)
(* Proofs about the keyboard, whatever the number of keys and of slots:    *)
(* the circular buffer of module HostKeyRing is the bounded queue of       *)
(* module HostKeys; the VIA's interrupt line is right and its timers are   *)
(* exact, whatever a guest does with the registers; every edge reaches a   *)
(* guest that polls once and in order, and the guest comes to agree with   *)
(* the host.                                                               *)
(***************************************************************************)
EXTENDS Keyboard, FiniteSetTheorems, WellFoundedInduction, TLAPS

(***************************************************************************)
(* Induction, and functions defined by it.  A set that contains 0 and the  *)
(* successor of each of its numbers contains every number; and a value is  *)
(* reached by n steps of a given function from a given start.              *)
(***************************************************************************)
LEMMA SetInduction ==
  ASSUME NEW S, 0 \in S, \A n \in Nat : n \in S => n + 1 \in S
  PROVE  Nat \subseteq S
  <1> DEFINE T == Nat \ S
             R == OpToRel(<, Nat)
  <1> SUFFICES ASSUME T # {} PROVE FALSE
    OBVIOUS
  <1>1. IsWellFoundedOn(R, Nat)
    BY NatLessThanWellFounded
  <1>2. \A x, y \in T : <<y, x>> \in R <=> y < x
    BY DEF OpToRel
  <1> HIDE DEF R
  <1>3. PICK n \in T : \A m \in T : ~ (<<m, n>> \in R)
    BY <1>1, WFMin
  <1>4. \A m \in T : ~(m < n)
    BY <1>2, <1>3
  <1>5. n # 0 /\ n - 1 \in Nat /\ n - 1 \notin T
    BY <1>4
  <1> QED BY <1>5, (n - 1) + 1 = n

Steps(f, N, b, step) == f[0] = b /\ \A n \in 1 .. N : f[n] = step[<<n, f[n - 1]>>]

LEMMA StepsExist ==
  ASSUME NEW N \in Nat, NEW S, NEW b \in S, NEW step \in [(1 .. N) \X S -> S]
  PROVE  \E f \in [0 .. N -> S] : Steps(f, N, b, step)
  <1> DEFINE Good == {n \in Nat : n <= N =>
                        \E f \in [0 .. n -> S] :
                            f[0] = b /\ \A i \in 1 .. n : f[i] = step[<<i, f[i - 1]>>]}
  <1>1. 0 \in Good
    <2> DEFINE f == [i \in 0 .. 0 |-> b]
    <2>1. f \in [0 .. 0 -> S] /\ f[0] = b /\ \A i \in 1 .. 0 : FALSE
      OBVIOUS
    <2> QED BY <2>1
  <1>2. ASSUME NEW n \in Nat, n \in Good PROVE n + 1 \in Good
    <2> SUFFICES ASSUME n + 1 <= N
                 PROVE  \E f \in [0 .. n + 1 -> S] :
                          f[0] = b /\ \A i \in 1 .. n + 1 : f[i] = step[<<i, f[i - 1]>>]
      OBVIOUS
    <2>1. PICK g \in [0 .. n -> S] : g[0] = b /\ \A i \in 1 .. n : g[i] = step[<<i, g[i - 1]>>]
      BY <1>2
    <2>2. step[<<n + 1, g[n]>>] \in S
      OBVIOUS
    <2> DEFINE f == [i \in 0 .. n + 1 |-> IF i = n + 1 THEN step[<<n + 1, g[n]>>] ELSE g[i]]
    <2>3. f \in [0 .. n + 1 -> S] /\ f[0] = b
      BY <2>1, <2>2
    <2>4. ASSUME NEW i \in 1 .. n + 1 PROVE f[i] = step[<<i, f[i - 1]>>]
      <3>1. i - 1 \in 0 .. n /\ f[i - 1] = g[i - 1]
        OBVIOUS
      <3>2. CASE i = n + 1
        <4>1. f[n + 1] = step[<<n + 1, g[n]>>]
          OBVIOUS
        <4>2. f[i - 1] = g[n]
          BY <3>1, <3>2
        <4> HIDE DEF f
        <4> QED BY <3>2, <4>1, <4>2
      <3>3. CASE i # n + 1
        BY <2>1, <3>1, <3>3
      <3> QED BY <3>2, <3>3
    <2> QED BY <2>3, <2>4
  <1> HIDE DEF Good
  <1>3. N \in Good
    BY <1>1, <1>2, SetInduction
  <1> QED BY <1>3 DEF Good, Steps
----------------------------------------------------------------------------
(***************************************************************************)
(* The buffer as a queue.                                                  *)
(***************************************************************************)
Rings == [slots : [Index -> KeyEvent], head : Index, tail : Index]
QueueOf(r) == [i \in 1 .. Count(r) |-> At(r, i - 1)]

\* One lap past its end an index loses the size of the buffer.
LEMMA WrapIs ==
  ASSUME NEW x \in 0 .. 2 * QueueSize - 1
  PROVE  /\ x % QueueSize = IF x < QueueSize THEN x ELSE x - QueueSize
         /\ x % QueueSize \in Index
  <1> DEFINE Q == QueueSize
             q == x \div Q
             m == x % Q
  <1>0. Q \in Nat \ {0} /\ x \in 0 .. 2 * Q - 1
    BY HostKeyRingConstants
  <1>1. x = Q * q + m /\ m \in 0 .. Q - 1 /\ q \in Int
    <2> HIDE DEF Q
    <2> QED BY <1>0
  <1> HIDE DEF Q, q, m
  <1>2. q < 2
    <2> SUFFICES ASSUME q >= 2 PROVE FALSE
      BY <1>1
    <2>1. Q * q >= Q * 2
      BY <1>0, <1>1
    <2> QED BY <1>0, <1>1, <2>1
  <1>3. q >= 0
    <2> SUFFICES ASSUME q <= -1 PROVE FALSE
      BY <1>1
    <2>1. Q * q <= Q * (-1)
      BY <1>0, <1>1
    <2> QED BY <1>0, <1>1, <2>1
  <1>4. CASE q = 0
    BY <1>0, <1>1, <1>4 DEF Index, m, Q
  <1>5. CASE q = 1
    BY <1>0, <1>1, <1>5 DEF Index, m, Q
  <1> QED BY <1>1, <1>2, <1>3, <1>4, <1>5

LEMMA CountIs ==
  ASSUME NEW r \in Rings
  PROVE  /\ Count(r) = IF r.head >= r.tail THEN r.head - r.tail ELSE r.head - r.tail + QueueSize
         /\ Count(r) \in Index /\ r.head \in Index /\ r.tail \in Index
  <1>1. r.head \in Index /\ r.tail \in Index
    BY DEF Rings
  <1>2. r.head - r.tail + QueueSize \in 0 .. 2 * QueueSize - 1
    BY <1>1, HostKeyRingConstants DEF Index
  <1> QED BY <1>1, <1>2, WrapIs, HostKeyRingConstants DEF Count, Index

LEMMA NextIs ==
  ASSUME NEW i \in Index
  PROVE  Next1(i) = (IF i = QueueSize - 1 THEN 0 ELSE i + 1) /\ Next1(i) \in Index
  <1>1. i + 1 \in 0 .. 2 * QueueSize - 1
    BY HostKeyRingConstants DEF Index
  <1> QED BY <1>1, WrapIs, HostKeyRingConstants DEF Next1, Index

LEMMA FullIs ==
  ASSUME NEW r \in Rings
  PROVE  QueueIsFull(r) <=> Count(r) = QueueSize - 1
  BY CountIs, NextIs, HostKeyRingConstants DEF QueueIsFull, Index

\* Where the i-th slot from the tail is.
Place(r, i) == (r.tail + i) % QueueSize

LEMMA PlaceIs ==
  ASSUME NEW r \in Rings, NEW i \in Index
  PROVE  /\ Place(r, i) = IF r.tail + i < QueueSize THEN r.tail + i ELSE r.tail + i - QueueSize
         /\ Place(r, i) \in Index /\ At(r, i) = r.slots[Place(r, i)] /\ At(r, i) \in KeyEvent
  <1>1. r.tail \in Index /\ r.slots \in [Index -> KeyEvent]
    BY DEF Rings
  <1>2. r.tail + i \in 0 .. 2 * QueueSize - 1
    BY <1>1, HostKeyRingConstants DEF Index
  <1>3. Place(r, i) = (IF r.tail + i < QueueSize THEN r.tail + i ELSE r.tail + i - QueueSize)
        /\ Place(r, i) \in Index
    BY <1>1, <1>2, WrapIs, HostKeyRingConstants DEF Place, Index
  <1>4. At(r, i) = r.slots[Place(r, i)]
    BY DEF At, Place
  <1> QED BY <1>1, <1>3, <1>4
LEMMA PlaceFacts ==
  ASSUME NEW r \in Rings
  PROVE  /\ \A i, j \in Index : Place(r, i) = Place(r, j) => i = j
         /\ \A i \in Index : i + 1 \in Index => Next1(Place(r, i)) = Place(r, i + 1)
         /\ Place(r, Count(r)) = r.head
  <1> DEFINE Q == QueueSize
             t == r.tail
             h == r.head
  <1>0. Q \in Nat /\ Q >= 2 /\ t \in 0 .. Q - 1 /\ h \in 0 .. Q - 1 /\ Index = 0 .. Q - 1
    BY CountIs, HostKeyRingConstants DEF Index
  <1> HIDE DEF t, h
  <1>1. \A i \in Index : /\ Place(r, i) = IF t + i < Q THEN t + i ELSE t + i - Q
                         /\ Place(r, i) \in Index
    BY PlaceIs DEF t
  <1>2. ASSUME NEW i \in Index, NEW j \in Index, Place(r, i) = Place(r, j) PROVE i = j
    BY <1>0, <1>1, <1>2
  <1>3. ASSUME NEW i \in Index, i + 1 \in Index PROVE Next1(Place(r, i)) = Place(r, i + 1)
    <2>1. Next1(Place(r, i)) = IF Place(r, i) = Q - 1 THEN 0 ELSE Place(r, i) + 1
      BY <1>1, NextIs
    <2>2. /\ Place(r, i) = IF t + i < Q THEN t + i ELSE t + i - Q
          /\ Place(r, i + 1) = IF t + (i + 1) < Q THEN t + (i + 1) ELSE t + (i + 1) - Q
      BY <1>1, <1>3
    <2>3. i \in 0 .. Q - 1 /\ i + 1 \in 0 .. Q - 1
      BY <1>0, <1>3
    <2> QED BY <1>0, <2>1, <2>2, <2>3
  <1>4. Place(r, Count(r)) = h
    <2>1. Count(r) \in Index /\ Count(r) = IF h >= t THEN h - t ELSE h - t + Q
      BY CountIs DEF h, t
    <2> QED BY <1>0, <1>1, <2>1
  <1> QED BY <1>2, <1>3, <1>4 DEF h

LEMMA QueueIs ==
  ASSUME NEW r \in Rings
  PROVE  /\ QueueOf(r) \in Seq(KeyEvent) /\ Len(QueueOf(r)) = Count(r)
         /\ \A i \in 1 .. Count(r) : QueueOf(r)[i] = At(r, i - 1) /\ i - 1 \in Index
  <1>1. Count(r) \in Nat /\ Count(r) <= QueueSize - 1
    BY CountIs, HostKeyRingConstants DEF Index
  <1>2. \A i \in 1 .. Count(r) : i - 1 \in Index
    BY <1>1, HostKeyRingConstants DEF Index
  <1>3. \A i \in 1 .. Count(r) : At(r, i - 1) \in KeyEvent
    BY <1>2, PlaceIs
  <1> QED BY <1>1, <1>2, <1>3 DEF QueueOf

\* Sequences of equal lengths and elements are equal.
LEMMA SameSequence ==
  ASSUME NEW S, NEW s \in Seq(S), NEW t \in Seq(S), Len(s) = Len(t),
         \A i \in 1 .. Len(s) : s[i] = t[i]
  PROVE  s = t
  OBVIOUS

LEMMA StoreIs ==
  ASSUME NEW r \in Rings, NEW e \in KeyEvent, ~QueueIsFull(r)
  PROVE  Store(r, e) \in Rings /\ QueueOf(Store(r, e)) = Append(QueueOf(r), e)
  <1> DEFINE n == Count(r)
             s == Store(r, e)
  <1>1. /\ r.slots \in [Index -> KeyEvent] /\ r.head \in Index /\ r.tail \in Index
        /\ n \in Index /\ Next1(r.head) \in Index
    BY CountIs, NextIs DEF Rings
  <1>2. /\ s.slots = [r.slots EXCEPT ![r.head] = e] /\ s.head = Next1(r.head) /\ s.tail = r.tail
        /\ s \in Rings
    BY <1>1 DEF Store, Rings
  <1> HIDE DEF s
  <1>3. n < QueueSize - 1 /\ n \in Nat /\ n + 1 \in Index
    BY <1>1, FullIs, HostKeyRingConstants DEF Index
  <1>4. Count(s) = n + 1
    <2>1. s.head = IF r.head = QueueSize - 1 THEN 0 ELSE r.head + 1
      BY <1>1, <1>2, NextIs
    <2> QED BY <1>1, <1>2, <1>3, <2>1, CountIs, HostKeyRingConstants DEF Index
  <1>5. \A i \in Index : Place(s, i) = Place(r, i) /\ At(s, i) = s.slots[Place(s, i)]
    BY <1>2, PlaceIs DEF Place
  <1>6. At(s, n) = e
    BY <1>1, <1>2, <1>5, PlaceFacts
  <1>7. ASSUME NEW i \in Index, i # n PROVE At(s, i) = At(r, i)
    <2>1. Place(r, i) # r.head /\ Place(r, i) \in Index /\ At(r, i) = r.slots[Place(r, i)]
      BY <1>1, <1>7, PlaceFacts, PlaceIs
    <2> QED BY <1>1, <1>2, <1>5, <2>1
  <1>8. QueueOf(s) \in Seq(KeyEvent) /\ Len(QueueOf(s)) = n + 1
        /\ \A i \in 1 .. n + 1 : QueueOf(s)[i] = At(s, i - 1) /\ i - 1 \in Index
    BY <1>2, <1>4, QueueIs
  <1>9. QueueOf(r) \in Seq(KeyEvent) /\ Len(QueueOf(r)) = n
        /\ \A i \in 1 .. n : QueueOf(r)[i] = At(r, i - 1) /\ i - 1 \in Index
    BY QueueIs
  <1> DEFINE q == Append(QueueOf(r), e)
  <1>10. q \in Seq(KeyEvent) /\ Len(q) = n + 1 /\ q[n + 1] = e
         /\ \A i \in 1 .. n : q[i] = QueueOf(r)[i]
    BY <1>9
  <1> HIDE DEF q, n
  <1>11. \A i \in 1 .. n + 1 : QueueOf(s)[i] = q[i]
    <2> SUFFICES ASSUME NEW i \in 1 .. n + 1 PROVE QueueOf(s)[i] = q[i]
      OBVIOUS
    <2>1. CASE i = n + 1
      BY <1>3, <1>6, <1>8, <1>10, <2>1
    <2>2. CASE i # n + 1
      <3>1. i \in 1 .. n /\ i - 1 \in Index /\ i - 1 # n
        <4>1. n \in Nat /\ i \in 1 .. n + 1 /\ i # n + 1
          BY <1>3, <2>2
        <4>2. i \in 1 .. n /\ i - 1 # n
          BY <4>1
        <4> QED BY <1>8, <4>2
      <3> QED BY <1>7, <1>8, <1>9, <1>10, <3>1
    <2> QED BY <2>1, <2>2
  <1>12. QueueOf(s) = q
    BY <1>8, <1>10, <1>11, SameSequence
  <1> QED BY <1>2, <1>12 DEF s, q
\* A set of numbers that is not empty has a least one.
LEMMA NatMin ==
  ASSUME NEW T, T \subseteq Nat, T # {}
  PROVE  \E n \in T : \A m \in T : n <= m
  <1> DEFINE R == OpToRel(<, Nat)
  <1>1. IsWellFoundedOn(R, Nat)
    BY NatLessThanWellFounded
  <1>2. \A x, y \in T : <<y, x>> \in R <=> y < x
    BY DEF OpToRel
  <1> HIDE DEF R
  <1>3. PICK n \in T : \A m \in T : ~ (<<m, n>> \in R)
    BY <1>1, WFMin
  <1>4. \A m \in T : ~(m < n)
    BY <1>2, <1>3
  <1>5. \A m \in T : n <= m
    BY <1>4
  <1> QED BY <1>5

\* The oldest press of the buffer is that of the queue.
LEMMA OldestIs ==
  ASSUME NEW r \in Rings
  PROVE  \/ OldestPress(r) = {} /\ Abstract!Presses(QueueOf(r)) = {}
         \/ \E p \in 0 .. Count(r) - 1 :
               /\ OldestPress(r) = {p}
               /\ Abstract!Presses(QueueOf(r)) # {}
               /\ Abstract!Min(Abstract!Presses(QueueOf(r))) = p + 1
  <1> DEFINE n == Count(r)
             q == QueueOf(r)
             P == {i \in 0 .. n - 1 : ~At(r, i).isRelease}
             A == Abstract!Presses(q)
  <1>1. n \in Nat /\ Len(q) = n /\ \A i \in 1 .. n : q[i] = At(r, i - 1)
    BY QueueIs, CountIs, HostKeyRingConstants DEF Index
  <1>2. A = {i \in 1 .. n : ~At(r, i - 1).isRelease}
    BY <1>1 DEF Abstract!Presses
  <1>3. OldestPress(r) = {i \in P : \A j \in 0 .. i - 1 : At(r, j).isRelease}
    BY DEF OldestPress
  <1> HIDE DEF n, q, A
  <1>4. \A i \in P : i + 1 \in A
    BY <1>1, <1>2
  <1>5. \A i \in A : i - 1 \in P
    BY <1>1, <1>2
  <1>6. CASE P = {}
    BY <1>3, <1>5, <1>6 DEF A, q
  <1>7. CASE P # {}
    <2>1. P \subseteq Nat
      BY <1>1
    <2>2. PICK p \in P : \A m \in P : p <= m
      BY <1>7, <2>1, NatMin
    <2>3. p \in 0 .. n - 1
      OBVIOUS
    <2>4. \A j \in 0 .. p - 1 : At(r, j).isRelease
      BY <1>1, <2>2, <2>3
    <2>5. \A i \in P : (\A j \in 0 .. i - 1 : At(r, j).isRelease) => i = p
      BY <1>1, <2>2, <2>3
    <2>6. OldestPress(r) = {p}
      BY <1>3, <2>4, <2>5
    <2>7. p + 1 \in A /\ \A y \in A : p + 1 <= y
      BY <1>1, <1>2, <1>4, <1>5, <2>2, <2>3
    <2>8. Abstract!Min(A) \in A /\ \A y \in A : Abstract!Min(A) <= y
      BY <2>7 DEF Abstract!Min
    <2>9. A \subseteq Nat
      BY <1>1, <1>2
    <2>10. Abstract!Min(A) = p + 1
      <3> DEFINE m == Abstract!Min(A)
      <3>1. m \in Nat /\ m <= p + 1 /\ p + 1 <= m
        BY <2>7, <2>8, <2>9
      <3>2. p \in Nat
        BY <1>1, <2>3
      <3> HIDE DEF m
      <3>3. m = p + 1
        BY <3>1, <3>2
      <3> QED BY <3>3 DEF m
    <2> QED BY <2>3, <2>6, <2>7, <2>10 DEF A, q, n
  <1> QED BY <1>6, <1>7

LEMMA ConcatIs ==
  ASSUME NEW S, NEW u \in Seq(S), NEW v \in Seq(S)
  PROVE  /\ u \o v \in Seq(S) /\ Len(u \o v) = Len(u) + Len(v)
         /\ \A i \in 1 .. Len(u) : (u \o v)[i] = u[i]
         /\ \A i \in Len(u) + 1 .. Len(u) + Len(v) : (u \o v)[i] = v[i - Len(u)]
  OBVIOUS

\* A sequence with one element taken out.
LEMMA RemoveIs ==
  ASSUME NEW q \in Seq(KeyEvent), NEW p \in 1 .. Len(q)
  PROVE  /\ Abstract!RemoveAt(q, p) \in Seq(KeyEvent) /\ Len(Abstract!RemoveAt(q, p)) = Len(q) - 1
         /\ \A i \in 1 .. Len(q) - 1 :
               Abstract!RemoveAt(q, p)[i] = IF i < p THEN q[i] ELSE q[i + 1]
  <1> DEFINE n == Len(q)
             m == p - 1
             u == SubSeq(q, 1, p - 1)
             v == SubSeq(q, p + 1, n)
             a == Abstract!RemoveAt(q, p)
  <1>0. n \in Nat /\ p \in 1 .. n /\ m \in 0 .. n - 1 /\ m = p - 1
    OBVIOUS
  <1>1. u \in Seq(KeyEvent) /\ Len(u) = m /\ \A i \in 1 .. m : u[i] = q[i]
    BY <1>0
  <1>2. v \in Seq(KeyEvent) /\ Len(v) = n - p /\ \A i \in 1 .. n - p : v[i] = q[p + i]
    BY <1>0
  <1>3. a = u \o v
    BY DEF Abstract!RemoveAt
  <1> HIDE DEF u, v, a, n, m
  <1>4. a \in Seq(KeyEvent) /\ Len(a) = n - 1 /\ (\A i \in 1 .. m : a[i] = u[i])
        /\ \A i \in m + 1 .. n - 1 : a[i] = v[i - m]
    <2>1. n - p = n - 1 - m
      BY <1>0
    <2> DEFINE k == Len(v)
    <2>2. k \in Nat /\ m \in Nat /\ m + k = n - 1
      BY <1>0, <1>2, <2>1
    <2>3. u \in Seq(KeyEvent) /\ v \in Seq(KeyEvent) /\ Len(u) = m /\ Len(v) = k
      BY <1>1, <1>2
    <2> HIDE DEF k
    <2>4. /\ a \in Seq(KeyEvent) /\ Len(a) = m + k /\ (\A i \in 1 .. m : a[i] = u[i])
          /\ \A i \in m + 1 .. m + k : a[i] = v[i - m]
      BY <1>3, <2>3, ConcatIs
    <2> QED BY <2>2, <2>4
  <1>5. ASSUME NEW i \in m + 1 .. n - 1 PROVE a[i] = q[i + 1]
    <2>1. i - m \in 1 .. n - p /\ p + (i - m) = i + 1
      BY <1>0
    <2> QED BY <1>2, <1>4, <2>1
  <1>6. ASSUME NEW i \in 1 .. n - 1 PROVE a[i] = IF i < p THEN q[i] ELSE q[i + 1]
    <2>1. CASE i < p
      BY <1>0, <1>1, <1>4, <2>1
    <2>2. CASE ~(i < p)
      BY <1>0, <1>5, <2>2
    <2> QED BY <2>1, <2>2
  <1> QED BY <1>4, <1>6 DEF a, n

LEMMA DropIs ==
  ASSUME NEW r \in Rings
  PROVE  /\ DropOldestPressForRelease(r) \in Rings
         /\ QueueOf(DropOldestPressForRelease(r)) = Abstract!DropOldestPressForRelease(QueueOf(r))
  <1>1. CASE OldestPress(r) = {}
    <2>1. Abstract!Presses(QueueOf(r)) = {}
      BY <1>1, OldestIs
    <2> QED BY <1>1, <2>1 DEF DropOldestPressForRelease, Abstract!DropOldestPressForRelease
  <1>2. CASE OldestPress(r) # {}
    <2> DEFINE n == Count(r)
               Q == QueueSize
               q == QueueOf(r)
               d == DropOldestPressForRelease(r)
    <2>1. PICK p \in 0 .. n - 1 : /\ OldestPress(r) = {p}
                                  /\ Abstract!Presses(q) # {}
                                  /\ Abstract!Min(Abstract!Presses(q)) = p + 1
      BY <1>2, OldestIs
    <2>2. (CHOOSE i \in OldestPress(r) : TRUE) = p
      BY <2>1
    <2> DEFINE moved == {Place(r, i) : i \in p .. n - 2}
               head == (r.head + Q - 1) % Q
    <2>3. /\ Q \in Nat /\ Q >= 2 /\ Index = 0 .. Q - 1 /\ n \in 0 .. Q - 1 /\ p \in 0 .. n - 1
          /\ r.head \in 0 .. Q - 1 /\ r.tail \in 0 .. Q - 1 /\ r.slots \in [Index -> KeyEvent]
      BY CountIs, HostKeyRingConstants DEF Index, Rings
    <2>4. d = [slots |-> [s \in Index |-> IF s \in moved THEN r.slots[Next1(s)] ELSE r.slots[s]],
               head |-> head, tail |-> r.tail]
      <3>1. r = [slots |-> r.slots, head |-> r.head, tail |-> r.tail]
        BY DEF Rings
      <3> QED BY <1>2, <2>2, <3>1 DEF DropOldestPressForRelease, Place
    <2>5. head \in Index /\ head = IF r.head = 0 THEN Q - 1 ELSE r.head - 1
      <3> DEFINE x == r.head + Q - 1
      <3>1. x \in 0 .. 2 * QueueSize - 1 /\ x = r.head + Q - 1 /\ x \in Nat
        BY <2>3
      <3>2. head = x % QueueSize
        OBVIOUS
      <3> HIDE DEF x, head
      <3>3. x % QueueSize = (IF x < QueueSize THEN x ELSE x - QueueSize) /\ x % QueueSize \in Index
        BY <3>1, WrapIs
      <3>4. CASE r.head = 0
        BY <2>3, <3>1, <3>2, <3>3, <3>4
      <3>5. CASE r.head # 0
        <4>1. x >= QueueSize /\ x - QueueSize = r.head - 1
          BY <2>3, <3>1, <3>5
        <4>2. head = x - QueueSize
          BY <2>3, <3>1, <3>2, <3>3, <4>1
        <4> QED BY <3>2, <3>3, <3>5, <4>1, <4>2
      <3> QED BY <3>4, <3>5
    <2>6. d \in Rings
      <3>1. \A s \in Index : Next1(s) \in Index
        BY NextIs
      <3>2. [s \in Index |-> IF s \in moved THEN r.slots[Next1(s)] ELSE r.slots[s]]
              \in [Index -> KeyEvent]
        BY <2>3, <3>1
      <3> QED BY <2>3, <2>4, <2>5, <3>2 DEF Rings, Index
    <2>7. /\ d.tail = r.tail /\ d.head = head
          /\ \A s \in Index : d.slots[s] = IF s \in moved THEN r.slots[Next1(s)] ELSE r.slots[s]
      BY <2>4
    <2> HIDE DEF d, head
    <2>8. Count(d) = n - 1
      <3>1. n = IF r.head >= r.tail THEN r.head - r.tail ELSE r.head - r.tail + Q
        BY CountIs
      <3>2. Count(d) = IF head >= r.tail THEN head - r.tail ELSE head - r.tail + Q
        BY <2>6, <2>7, CountIs
      <3>3. Q - 1 \in Int /\ Q \in Nat /\ n \in Nat /\ p \in 0 .. n - 1 /\ n >= 1
        BY <2>3
      <3> DEFINE h == r.head
                 t == r.tail
      <3>4. h \in 0 .. Q - 1 /\ t \in 0 .. Q - 1 /\ Count(d) \in Int
        BY <2>3, <3>2, <2>5, CountIs, <2>6, HostKeyRingConstants DEF Index
      <3>5. n = (IF h >= t THEN h - t ELSE h - t + Q)
            /\ Count(d) = (IF head >= t THEN head - t ELSE head - t + Q)
            /\ head = (IF h = 0 THEN Q - 1 ELSE h - 1)
        BY <2>5, <3>1, <3>2
      <3> HIDE DEF n, h, t
      <3>6. CASE h = 0
        BY <3>3, <3>4, <3>5, <3>6
      <3>7. CASE h # 0
        BY <3>3, <3>4, <3>5, <3>7
      <3> QED BY <3>6, <3>7
    <2>9. \A i \in Index : Place(d, i) = Place(r, i) /\ At(d, i) = d.slots[Place(r, i)]
                           /\ At(r, i) = r.slots[Place(r, i)] /\ Place(r, i) \in Index
      BY <2>6, <2>7, PlaceIs DEF Place
    <2>10. ASSUME NEW i \in 0 .. n - 2
           PROVE  At(d, i) = IF i < p THEN At(r, i) ELSE At(r, i + 1)
      <3>1. i \in Index /\ i + 1 \in Index /\ \A j \in p .. n - 2 : j \in Index
        BY <2>3
      <3>2. CASE i < p
        <4>1. Place(r, i) \notin moved
          BY <2>3, <3>1, <3>2, PlaceFacts
        <4> QED BY <2>7, <2>9, <3>1, <3>2, <4>1
      <3>3. CASE i >= p
        <4>1. Place(r, i) \in moved
          BY <2>3, <3>3
        <4>2. Next1(Place(r, i)) = Place(r, i + 1)
          BY <3>1, PlaceFacts
        <4>3. At(d, i) = r.slots[Next1(Place(r, i))]
          BY <2>7, <2>9, <3>1, <4>1
        <4>4. At(r, i + 1) = r.slots[Place(r, i + 1)]
          BY <2>9, <3>1
        <4>5. At(d, i) = At(r, i + 1)
          BY <4>2, <4>3, <4>4
        <4>6. ~(i < p)
          BY <2>3, <3>3
        <4> QED BY <4>5, <4>6
      <3>4. i \in Int /\ p \in Int
        BY <2>3
      <3>5. i < p \/ i >= p
        BY <3>4
      <3> QED BY <3>2, <3>3, <3>5
    <2>11. QueueOf(d) \in Seq(KeyEvent) /\ Len(QueueOf(d)) = n - 1
           /\ \A i \in 1 .. n - 1 : QueueOf(d)[i] = At(d, i - 1)
      BY <2>6, <2>8, QueueIs
    <2>12. q \in Seq(KeyEvent) /\ Len(q) = n /\ \A i \in 1 .. n : q[i] = At(r, i - 1)
      BY QueueIs
    <2> DEFINE a == Abstract!RemoveAt(q, p + 1)
    <2>14. /\ a \in Seq(KeyEvent) /\ Len(a) = n - 1
           /\ \A i \in 1 .. n - 1 : a[i] = IF i <= p THEN q[i] ELSE q[i + 1]
      <3>1. p + 1 \in 1 .. Len(q) /\ q \in Seq(KeyEvent)
        BY <2>3, <2>12
      <3>2. \A i \in Int : i < p + 1 <=> i <= p
        BY <2>3
      <3>3. Len(q) = n
        BY <2>12
      <3>4. /\ a \in Seq(KeyEvent) /\ Len(a) = Len(q) - 1
            /\ \A i \in 1 .. Len(q) - 1 : a[i] = IF i < p + 1 THEN q[i] ELSE q[i + 1]
        BY <3>1, RemoveIs
      <3> HIDE DEF q, n, a
      <3>5. \A i \in 1 .. n - 1 : a[i] = IF i < p + 1 THEN q[i] ELSE q[i + 1]
        BY <3>3, <3>4
      <3> QED BY <3>2, <3>3, <3>4, <3>5
    <2> HIDE DEF q, n, a
    <2>15. \A i \in 1 .. n - 1 : QueueOf(d)[i] = a[i]
      <3> SUFFICES ASSUME NEW i \in 1 .. n - 1 PROVE QueueOf(d)[i] = a[i]
        OBVIOUS
      <3>1. i - 1 \in 0 .. n - 2 /\ i \in 1 .. n /\ i + 1 \in 1 .. n /\ (i <= p <=> i - 1 < p)
            /\ (i - 1) + 1 = i /\ (i + 1) - 1 = i
        BY <2>3
      <3>2. At(d, i - 1) = IF i <= p THEN At(r, i - 1) ELSE At(r, i)
        BY <2>10, <3>1
      <3> QED BY <2>11, <2>12, <2>14, <3>1, <3>2
    <2>16. QueueOf(d) = a
      BY <2>11, <2>14, <2>15, SameSequence
    <2>17. Abstract!DropOldestPressForRelease(QueueOf(r)) = a
      BY <2>1 DEF Abstract!DropOldestPressForRelease, a, q
    <2> QED BY <2>6, <2>16, <2>17 DEF d
  <1> QED BY <1>1, <1>2
LEMMA FullMatches ==
  ASSUME NEW r \in Rings
  PROVE  Abstract!QueueIsFull(QueueOf(r)) <=> QueueIsFull(r)
  BY FullIs, QueueIs DEF Abstract!QueueIsFull

LEMMA EnqueueIs ==
  ASSUME NEW r \in Rings, NEW e \in KeyEvent
  PROVE  /\ EnqueueKeyEvent(r, e) \in Rings
         /\ QueueOf(EnqueueKeyEvent(r, e)) = Abstract!EnqueueKeyEvent(QueueOf(r), e)
  <1> DEFINE room == IF QueueIsFull(r) /\ e.isRelease THEN DropOldestPressForRelease(r) ELSE r
             left == IF Abstract!QueueIsFull(QueueOf(r)) /\ e.isRelease
                     THEN Abstract!DropOldestPressForRelease(QueueOf(r)) ELSE QueueOf(r)
  <1>1. room \in Rings /\ QueueOf(room) = left
    BY DropIs, FullMatches
  <1>2. EnqueueKeyEvent(r, e) = IF QueueIsFull(room) THEN room ELSE Store(room, e)
    BY DEF EnqueueKeyEvent
  <1>3. Abstract!EnqueueKeyEvent(QueueOf(r), e)
          = IF Abstract!QueueIsFull(left) THEN left ELSE Append(left, e)
    BY DEF Abstract!EnqueueKeyEvent
  <1> HIDE DEF room, left
  <1> QED BY <1>1, <1>2, <1>3, FullMatches, StoreIs

(***************************************************************************)
(* Releasing all keys: both modules queue the releases one by one.  The    *)
(* recursive functions exist because the steps do, and they agree at every *)
(* number of keys by induction.                                            *)
(***************************************************************************)
LEMMA QueueOfRing == keyQueue = QueueOf(ring)
  BY DEF keyQueue, QueueOf

LEMMA ReleasedIs ==
  ASSUME ring \in Rings, keyDown \in [Key -> BOOLEAN]
  PROVE  /\ \A n \in 0 .. NumKeys :
              released[n] \in Rings /\ QueueOf(released[n]) = Abstract!released[n]
         /\ Abstract!released[0] = keyQueue
         /\ \A n \in 1 .. NumKeys : Abstract!released[n] =
              IF keyDown[n - 1]
              THEN Abstract!EnqueueKeyEvent(Abstract!released[n - 1], Edge(n - 1, TRUE))
              ELSE Abstract!released[n - 1]
  <1> DEFINE N == NumKeys
             step == [x \in (1 .. N) \X Rings |->
                        IF keyDown[x[1] - 1] THEN EnqueueKeyEvent(x[2], Edge(x[1] - 1, TRUE))
                        ELSE x[2]]
  <1>1. N \in Nat /\ \A n \in 1 .. N : n - 1 \in Key /\ n - 1 \in 0 .. N
    BY HostKeyRingConstants DEF Key
  <1>2. \A n \in 1 .. N : Edge(n - 1, TRUE) \in KeyEvent
    BY <1>1 DEF Edge, KeyEvent
  <1>3. step \in [(1 .. N) \X Rings -> Rings]
    <2> SUFFICES ASSUME NEW n \in 1 .. N, NEW r \in Rings
                 PROVE  (IF keyDown[n - 1] THEN EnqueueKeyEvent(r, Edge(n - 1, TRUE)) ELSE r) \in Rings
      OBVIOUS
    <2> QED BY <1>2, EnqueueIs
  <1>4. \A n \in 1 .. N, r \in Rings : step[<<n, r>>]
            = IF keyDown[n - 1] THEN EnqueueKeyEvent(r, Edge(n - 1, TRUE)) ELSE r
    OBVIOUS
  <1> HIDE DEF step, N
  <1>5. PICK f \in [0 .. N -> Rings] : f[0] = ring /\ \A n \in 1 .. N : f[n] = step[<<n, f[n - 1]>>]
    <2>1. N \in Nat /\ ring \in Rings
      BY <1>1
    <2>2. \E f \in [0 .. N -> Rings] : Steps(f, N, ring, step)
      BY <1>3, <2>1, StepsExist
    <2> QED BY <2>2 DEF Steps
  <1>6. \A n \in 1 .. N : f[n - 1] \in Rings
          /\ f[n] = IF keyDown[n - 1] THEN EnqueueKeyEvent(f[n - 1], Edge(n - 1, TRUE)) ELSE f[n - 1]
    BY <1>1, <1>4, <1>5
  <1> DEFINE g == [n \in 0 .. N |-> QueueOf(f[n])]
  <1>7. \A n \in 1 .. N : g[n] = IF keyDown[n - 1]
                                 THEN Abstract!EnqueueKeyEvent(g[n - 1], Edge(n - 1, TRUE))
                                 ELSE g[n - 1]
    <2> SUFFICES ASSUME NEW n \in 1 .. N
                 PROVE  g[n] = IF keyDown[n - 1]
                               THEN Abstract!EnqueueKeyEvent(g[n - 1], Edge(n - 1, TRUE))
                               ELSE g[n - 1]
      OBVIOUS
    <2>1. g[n] = QueueOf(f[n]) /\ g[n - 1] = QueueOf(f[n - 1])
      BY <1>1
    <2>2. f[n - 1] \in Rings /\ Edge(n - 1, TRUE) \in KeyEvent
      BY <1>2, <1>6
    <2>3. QueueOf(EnqueueKeyEvent(f[n - 1], Edge(n - 1, TRUE)))
            = Abstract!EnqueueKeyEvent(QueueOf(f[n - 1]), Edge(n - 1, TRUE))
      BY <2>2, EnqueueIs
    <2> HIDE DEF g
    <2> QED BY <1>6, <2>1, <2>3
  <1>8. g[0] = QueueOf(ring)
    BY <1>1, <1>5
  <1>9. f = [n \in 0 .. N |-> IF n = 0 THEN ring
                ELSE IF keyDown[n - 1] THEN EnqueueKeyEvent(f[n - 1], Edge(n - 1, TRUE))
                ELSE f[n - 1]]
    <2>1. f = [n \in 0 .. N |-> f[n]]
      BY <1>5
    <2>2. ASSUME NEW n \in 0 .. N
          PROVE  f[n] = IF n = 0 THEN ring
                        ELSE IF keyDown[n - 1] THEN EnqueueKeyEvent(f[n - 1], Edge(n - 1, TRUE))
                        ELSE f[n - 1]
      <3>1. n = 0 \/ n \in 1 .. N
        BY <1>1
      <3>2. \A i \in 1 .. N : i # 0
        OBVIOUS
      <3> HIDE DEF ring
      <3> QED BY <1>5, <1>6, <3>1, <3>2
    <2> QED BY <2>1, <2>2, Zenon
  <1>10. released = [n \in 0 .. N |-> IF n = 0 THEN ring
                ELSE IF keyDown[n - 1] THEN EnqueueKeyEvent(released[n - 1], Edge(n - 1, TRUE))
                ELSE released[n - 1]]
    BY <1>9 DEF released, N
  <1>11. g = [n \in 0 .. N |-> IF n = 0 THEN QueueOf(ring)
                ELSE IF keyDown[n - 1] THEN Abstract!EnqueueKeyEvent(g[n - 1], Edge(n - 1, TRUE))
                ELSE g[n - 1]]
    <2>1. g = [n \in 0 .. N |-> g[n]]
      OBVIOUS
    <2> HIDE DEF g
    <2>2. ASSUME NEW n \in 0 .. N
          PROVE  g[n] = IF n = 0 THEN QueueOf(ring)
                        ELSE IF keyDown[n - 1]
                        THEN Abstract!EnqueueKeyEvent(g[n - 1], Edge(n - 1, TRUE))
                        ELSE g[n - 1]
      <3>1. n = 0 \/ n \in 1 .. N
        BY <1>1
      <3>2. \A i \in 1 .. N : i # 0
        OBVIOUS
      <3> QED BY <1>7, <1>8, <3>1, <3>2
    <2> QED BY <2>1, <2>2, Zenon
  <1>12. Abstract!released = [n \in 0 .. N |-> IF n = 0 THEN QueueOf(ring)
                ELSE IF keyDown[n - 1]
                THEN Abstract!EnqueueKeyEvent(Abstract!released[n - 1], Edge(n - 1, TRUE))
                ELSE Abstract!released[n - 1]]
    BY <1>11 DEF Abstract!released, N, keyQueue, QueueOf, Abstract!Edge, Edge
  <1> DEFINE Good == {n \in Nat : n <= N => released[n] \in Rings
                                            /\ QueueOf(released[n]) = Abstract!released[n]}
  <1>13. 0 \in Good
    BY <1>1, <1>10, <1>12
  <1>14. ASSUME NEW n \in Nat, n \in Good PROVE n + 1 \in Good
    <2> SUFFICES ASSUME n + 1 <= N
                 PROVE  released[n + 1] \in Rings
                        /\ QueueOf(released[n + 1]) = Abstract!released[n + 1]
      OBVIOUS
    <2>1. n + 1 \in 1 .. N /\ n + 1 \in 0 .. N /\ (n + 1) - 1 = n /\ n + 1 # 0
      BY <1>1
    <2>2. released[n] \in Rings /\ QueueOf(released[n]) = Abstract!released[n]
      BY <1>1, <1>14
    <2>3. Edge(n, TRUE) \in KeyEvent
      BY <1>2, <2>1
    <2>4. released[n + 1] = IF keyDown[n] THEN EnqueueKeyEvent(released[n], Edge(n, TRUE))
                            ELSE released[n]
      BY <1>10, <2>1
    <2>5. Abstract!released[n + 1] = IF keyDown[n]
                THEN Abstract!EnqueueKeyEvent(Abstract!released[n], Edge(n, TRUE))
                ELSE Abstract!released[n]
      BY <1>12, <2>1
    <2> QED BY <2>2, <2>3, <2>4, <2>5, EnqueueIs
  <1> HIDE DEF Good
  <1>15. Nat \subseteq Good
    BY <1>13, <1>14, SetInduction
  <1>16. \A n \in 0 .. N : released[n] \in Rings /\ QueueOf(released[n]) = Abstract!released[n]
    BY <1>1, <1>15 DEF Good
  <1>17. Abstract!released[0] = keyQueue
    BY <1>1, <1>12, QueueOfRing
  <1>18. \A n \in 1 .. N : Abstract!released[n] =
              IF keyDown[n - 1]
              THEN Abstract!EnqueueKeyEvent(Abstract!released[n - 1], Edge(n - 1, TRUE))
              ELSE Abstract!released[n - 1]
    <2>1. \A n \in 1 .. N : n \in 0 .. N /\ n # 0
      BY <1>1
    <2> QED BY <1>12, <2>1
  <1> QED BY <1>16, <1>17, <1>18 DEF N
LEMMA PopIs ==
  ASSUME NEW r \in Rings, NEW s \in Rings, r.head # r.tail,
         s.slots = r.slots, s.head = r.head, s.tail = Next1(r.tail)
  PROVE  QueueOf(r) # <<>> /\ QueueOf(s) = Tail(QueueOf(r))
  <1> DEFINE n == Count(r)
             q == QueueOf(r)
             Q == QueueSize
  <1>1. /\ Q \in Nat /\ Index = 0 .. Q - 1 /\ r.head \in 0 .. Q - 1 /\ r.tail \in 0 .. Q - 1
        /\ n \in 0 .. Q - 1
        /\ s.tail = IF r.tail = Q - 1 THEN 0 ELSE r.tail + 1
    BY CountIs, NextIs, HostKeyRingConstants DEF Index
  <1>2. n = IF r.head >= r.tail THEN r.head - r.tail ELSE r.head - r.tail + Q
    BY CountIs
  <1>3. Count(s) = IF r.head >= s.tail THEN r.head - s.tail ELSE r.head - s.tail + Q
    BY CountIs
  <1>4. n >= 1 /\ Count(s) = n - 1
    <2> DEFINE h == r.head
               t == r.tail
               u == s.tail
    <2>1. h \in 0 .. Q - 1 /\ t \in 0 .. Q - 1 /\ h # t /\ u = IF t = Q - 1 THEN 0 ELSE t + 1
      BY <1>1
    <2>2. /\ n = IF h >= t THEN h - t ELSE h - t + Q
          /\ Count(s) = IF h >= u THEN h - u ELSE h - u + Q
      BY <1>2, <1>3
    <2> HIDE DEF h, t, u, n
    <2>3. CASE t = Q - 1
      BY <1>1, <2>1, <2>2, <2>3
    <2>4. CASE t # Q - 1
      BY <1>1, <2>1, <2>2, <2>4
    <2> QED BY <2>3, <2>4
  <1>5. q \in Seq(KeyEvent) /\ Len(q) = n /\ \A i \in 1 .. n : q[i] = At(r, i - 1) /\ i - 1 \in Index
    BY QueueIs
  <1>6. QueueOf(s) \in Seq(KeyEvent) /\ Len(QueueOf(s)) = n - 1
        /\ \A i \in 1 .. n - 1 : QueueOf(s)[i] = At(s, i - 1) /\ i - 1 \in Index
    BY <1>4, QueueIs
  <1>7. \A i \in Index : i + 1 \in Index => At(s, i) = At(r, i + 1)
    <2> SUFFICES ASSUME NEW i \in Index, i + 1 \in Index PROVE At(s, i) = At(r, i + 1)
      OBVIOUS
    <2>1. /\ Place(s, i) = IF s.tail + i < Q THEN s.tail + i ELSE s.tail + i - Q
          /\ Place(r, i + 1) = IF r.tail + (i + 1) < Q THEN r.tail + (i + 1) ELSE r.tail + (i + 1) - Q
          /\ At(s, i) = r.slots[Place(s, i)] /\ At(r, i + 1) = r.slots[Place(r, i + 1)]
      BY PlaceIs
    <2> DEFINE t == r.tail
               u == s.tail
    <2>2. /\ i \in 0 .. Q - 1 /\ i + 1 \in 0 .. Q - 1 /\ t \in 0 .. Q - 1
          /\ u = IF t = Q - 1 THEN 0 ELSE t + 1
      BY <1>1
    <2>3. /\ Place(s, i) = IF u + i < Q THEN u + i ELSE u + i - Q
          /\ Place(r, i + 1) = IF t + (i + 1) < Q THEN t + (i + 1) ELSE t + (i + 1) - Q
      BY <2>1
    <2> HIDE DEF t, u
    <2>4. Place(s, i) = Place(r, i + 1)
      <3>1. CASE t = Q - 1
        BY <1>1, <2>2, <2>3, <3>1
      <3>2. CASE t # Q - 1
        BY <1>1, <2>2, <2>3, <3>2
      <3> QED BY <3>1, <3>2
    <2> QED BY <2>1, <2>4
  <1>8. q # <<>>
    BY <1>1, <1>4, <1>5
  <1> HIDE DEF q, n
  <1>9. Tail(q) \in Seq(KeyEvent) /\ Len(Tail(q)) = n - 1 /\ \A i \in 1 .. n - 1 : Tail(q)[i] = q[i + 1]
    BY <1>1, <1>4, <1>5, <1>8
  <1>10. \A i \in 1 .. n - 1 : QueueOf(s)[i] = Tail(q)[i]
    <2> SUFFICES ASSUME NEW i \in 1 .. n - 1 PROVE QueueOf(s)[i] = Tail(q)[i]
      OBVIOUS
    <2>1. i + 1 \in 1 .. n /\ (i + 1) - 1 = i /\ (i - 1) + 1 = i
      BY <1>1
    <2> QED BY <1>5, <1>6, <1>7, <1>9, <2>1
  <1>11. QueueOf(s) = Tail(q)
    BY <1>6, <1>9, <1>10, SameSequence
  <1> QED BY <1>8, <1>11 DEF q

(***************************************************************************)
(* The refinement, step by step.                                           *)
(***************************************************************************)
LEMMA TypesAreRings == HostKeysTypeOK <=> keyDown \in [Key -> BOOLEAN] /\ ring \in Rings
  BY DEF HostKeysTypeOK, ring, Rings

LEMMA Reaches ==
  ASSUME NEW r \in Rings, Becomes(r)
  PROVE  ring' = r /\ keyQueue' = QueueOf(r)
  <1>1. r = [slots |-> r.slots, head |-> r.head, tail |-> r.tail]
    BY DEF Rings
  <1>2. ring' = r
    BY <1>1 DEF Becomes, ring
  <1> QED BY <1>2 DEF keyQueue, QueueOf

LEMMA KeysStart == HostKeysInit => HostKeysTypeOK /\ Abstract!HostKeysInit
  <1> SUFFICES ASSUME HostKeysInit PROVE HostKeysTypeOK /\ Abstract!HostKeysInit
    OBVIOUS
  <1>1. 0 \in Key /\ 0 \in Index
    BY HostKeyRingConstants DEF Key, Index
  <1>2. HostKeysTypeOK
    BY <1>1 DEF HostKeysInit, HostKeysTypeOK, Edge, KeyEvent
  <1>3. Count(ring) = 0
    BY <1>2, CountIs, TypesAreRings DEF HostKeysInit, ring
  <1>4. keyQueue = <<>>
    BY <1>3 DEF keyQueue
  <1> QED BY <1>2, <1>4 DEF HostKeysInit, Abstract!HostKeysInit, Key, Abstract!Key

\* What each critical section does to the queue and the keys.
LEMMA KeysMove ==
  ASSUME HostKeysTypeOK
  PROVE  /\ \A k \in Key, down \in BOOLEAN : HostKey(k, down) =>
              HostKeysTypeOK' /\ keyQueue' = Abstract!EnqueueKeyEvent(keyQueue, Edge(k, ~down))
         /\ HostReleaseAllKeys => HostKeysTypeOK' /\ keyQueue' = Abstract!released[NumKeys]
         /\ HostPopKeyEvent => /\ HostKeysTypeOK' /\ keyDown' = keyDown
                               /\ keyQueue # <<>> /\ keyQueue' = Tail(keyQueue)
         /\ HostReset => HostKeysTypeOK' /\ keyQueue' = <<>>
         /\ UNCHANGED hostKeysVars => HostKeysTypeOK' /\ keyDown' = keyDown /\ keyQueue' = keyQueue
  <1>1. keyDown \in [Key -> BOOLEAN] /\ ring \in Rings /\ keyQueue = QueueOf(ring)
    BY TypesAreRings, QueueOfRing
  <1>2. HostKeysTypeOK' <=> keyDown' \in [Key -> BOOLEAN] /\ ring' \in Rings
    BY DEF HostKeysTypeOK, ring, Rings
  <1>3. ASSUME NEW k \in Key, NEW down \in BOOLEAN, HostKey(k, down)
        PROVE  HostKeysTypeOK' /\ keyQueue' = Abstract!EnqueueKeyEvent(keyQueue, Edge(k, ~down))
    <2> DEFINE r == EnqueueKeyEvent(ring, Edge(k, ~down))
    <2>1. Edge(k, ~down) \in KeyEvent
      BY DEF Edge, KeyEvent
    <2>2. r \in Rings /\ QueueOf(r) = Abstract!EnqueueKeyEvent(keyQueue, Edge(k, ~down))
      BY <1>1, <2>1, EnqueueIs
    <2>3. ring' = r /\ keyQueue' = QueueOf(r)
      BY <1>3, <2>2, Reaches DEF HostKey
    <2>4. HostKeysTypeOK'
      BY <1>1, <1>2, <1>3, <2>2, <2>3 DEF HostKey
    <2> QED BY <2>2, <2>3, <2>4
  <1>4. ASSUME HostReleaseAllKeys PROVE HostKeysTypeOK' /\ keyQueue' = Abstract!released[NumKeys]
    <2>1. released[NumKeys] \in Rings /\ QueueOf(released[NumKeys]) = Abstract!released[NumKeys]
      <3>1. NumKeys \in 0 .. NumKeys
        BY HostKeyRingConstants
      <3> QED BY <1>1, <3>1, ReleasedIs
    <2>2. ring' = released[NumKeys] /\ keyQueue' = QueueOf(released[NumKeys])
      BY <1>4, <2>1, Reaches DEF HostReleaseAllKeys
    <2> QED BY <1>2, <1>4, <2>1, <2>2 DEF HostReleaseAllKeys
  <1>5. ASSUME HostPopKeyEvent
        PROVE  HostKeysTypeOK' /\ keyDown' = keyDown /\ keyQueue # <<>> /\ keyQueue' = Tail(keyQueue)
    <2>1. keyTail \in Index /\ Next1(keyTail) \in Index
      BY NextIs DEF HostKeysTypeOK
    <2>2. /\ ring' \in Rings /\ keyDown' = keyDown
          /\ ring'.slots = ring.slots /\ ring'.head = ring.head /\ ring'.tail = Next1(ring.tail)
          /\ ring.head # ring.tail
      BY <1>5, <2>1 DEF HostPopKeyEvent, HostKeysTypeOK, ring, Rings
    <2>3. QueueOf(ring) # <<>> /\ QueueOf(ring') = Tail(QueueOf(ring))
      BY <1>1, <2>2, PopIs
    <2>4. keyQueue' = QueueOf(ring')
      BY DEF keyQueue, QueueOf
    <2> QED BY <1>1, <1>2, <2>2, <2>3, <2>4
  <1>6. ASSUME HostReset PROVE HostKeysTypeOK' /\ keyQueue' = <<>>
    <2>1. 0 \in Index
      BY HostKeyRingConstants DEF Index
    <2>2. ring' \in Rings /\ ring'.head = 0 /\ ring'.tail = 0
      BY <1>6, <2>1 DEF HostReset, HostKeysTypeOK, ring, Rings
    <2>3. Count(ring') = 0
      BY <2>1, <2>2, CountIs
    <2>4. keyQueue' = <<>>
      BY <2>3 DEF keyQueue
    <2>5. keyDown' \in [Key -> BOOLEAN]
      BY <1>6 DEF HostReset
    <2> QED BY <1>2, <2>2, <2>4, <2>5
  <1>7. ASSUME UNCHANGED hostKeysVars
        PROVE  HostKeysTypeOK' /\ keyDown' = keyDown /\ keyQueue' = keyQueue
    <2>1. ring' = ring /\ keyDown' = keyDown
      BY <1>7 DEF hostKeysVars, ring
    <2>2. keyQueue' = keyQueue
      BY <2>1 DEF keyQueue
    <2> QED BY <1>1, <1>2, <2>1, <2>2
  <1> QED BY <1>3, <1>4, <1>5, <1>6, <1>7

LEMMA KeysStep ==
  ASSUME HostKeysTypeOK, [HostKeysNext]_hostKeysVars
  PROVE  HostKeysTypeOK' /\ [Abstract!HostKeysNext]_(Abstract!hostKeysVars)
  <1>1. ASSUME NEW k \in Key, NEW down \in BOOLEAN, HostKey(k, down)
        PROVE  HostKeysTypeOK' /\ Abstract!HostKeysNext
    <2>1. HostKeysTypeOK' /\ keyQueue' = Abstract!EnqueueKeyEvent(keyQueue, Edge(k, ~down))
      BY <1>1, KeysMove
    <2>2. Abstract!HostKey(k, down)
      BY <1>1, <2>1 DEF HostKey, Abstract!HostKey, Edge, Abstract!Edge
    <2> QED BY <2>1, <2>2 DEF Abstract!HostKeysNext, Key, Abstract!Key
  <1>2. ASSUME HostReleaseAllKeys PROVE HostKeysTypeOK' /\ Abstract!HostKeysNext
    BY <1>2, KeysMove
       DEF HostReleaseAllKeys, Abstract!HostReleaseAllKeys, Key, Abstract!Key, Abstract!HostKeysNext
  <1>3. ASSUME HostPopKeyEvent PROVE HostKeysTypeOK' /\ Abstract!HostKeysNext
    BY <1>3, KeysMove DEF Abstract!HostKeysNext, Abstract!HostPopKeyEvent
  <1>4. ASSUME HostReset PROVE HostKeysTypeOK' /\ Abstract!HostKeysNext
    BY <1>4, KeysMove DEF HostReset, Abstract!HostKeysNext, Abstract!HostReset, Key, Abstract!Key
  <1>5. ASSUME UNCHANGED hostKeysVars PROVE HostKeysTypeOK' /\ UNCHANGED Abstract!hostKeysVars
    BY <1>5, KeysMove DEF Abstract!hostKeysVars
  <1> QED BY <1>1, <1>2, <1>3, <1>4, <1>5 DEF HostKeysNext
----------------------------------------------------------------------------
(***************************************************************************)
(* The VIA.  ViaActs are its operations, with whatever arguments a guest   *)
(* passes; the guest that polls its keyboard (KeyboardNext) and the one    *)
(* that uses every register (ViaNext) perform nothing else.                *)
(***************************************************************************)
LoadT1 == \E b \in Byte : WriteT1Low(b) \/ WriteT1LatchHigh(b) \/ WriteT1High(b)
LoadT2 == \E b \in Byte : WriteT2Low(b) \/ WriteT2High(b)
Modeset == \E a \in [pb7 : BOOLEAN, free : BOOLEAN, shift : 0 .. 7] : WriteACR(a)
Step == \E n \in StepTicks : ViaStep(n)
Ack == \/ \E timer \in {"T1", "T2"} : ReadCounter(timer)
       \/ ReadSR
       \/ \E c1, c2 \in Line : AccessPort(c1, c2)
       \/ \E flags \in SUBSET Source : WriteIFR(flags)
Ports == \/ \E modes : WritePCR(modes)
         \/ \E line \in Line, level \in {0, 1} : ControlWrite(line, level)
Enables == \E flags \in SUBSET Source, enable \in BOOLEAN : WriteIER(flags, enable)
Command == \E c \in Commands \cup {"Inquiry", "Instant"} : WriteSR(c)

ViaActs == \/ HostInput \/ LoadT1 \/ LoadT2 \/ Modeset \/ Step \/ Ack \/ Ports
           \/ Enables \/ Command \/ ViaReset

LEMMA ViaNextActs == [ViaNext]_allViaVars => [ViaActs]_allViaVars
  <1>1. ASSUME NEW uses \in {Groups}, TimerAccess(uses) PROVE ViaActs
    BY <1>1 DEF TimerAccess, ViaActs, LoadT1, LoadT2, Ack
  <1>2. ASSUME Access(Groups) PROVE ViaActs
    <2>1. \A g : InUse(g) \subseteq Source
      BY DEF InUse
    <2>2. \A flags \in SUBSET InUse(Groups) : flags \in SUBSET Source
      BY <2>1
    <2>3. [pb7 : BOOLEAN, free : BOOLEAN, shift : ShiftModes]
            \subseteq [pb7 : BOOLEAN, free : BOOLEAN, shift : 0 .. 7]
      BY DEF ShiftModes
    <2>4. "CA1" \in Line /\ "CA2" \in Line /\ "CB1" \in Line /\ "CB2" \in Line
      BY DEF Line
    <2>5. CASE TimerAccess(Groups)
      BY <1>1, <2>5
    <2>6. CASE \/ "ports" \in Groups /\ (\/ AccessPort("CA1", "CA2") \/ AccessPort("CB1", "CB2")
                      \/ \E m1 \in Modes["CA1"], m2 \in Modes["CA2"] :
                            WritePCR([pcr EXCEPT !["CA1"] = m1, !["CA2"] = m2]))
      BY <2>4, <2>6 DEF ViaActs, Ack, Ports
    <2>7. CASE (\E c \in Commands : WriteSR(c)) \/ ReadSR
      BY <2>7 DEF ViaActs, Command, Ack
    <2>8. CASE \E a \in [pb7 : BOOLEAN, free : BOOLEAN, shift : ShiftModes] : WriteACR(a)
      BY <2>3, <2>8 DEF ViaActs, Modeset
    <2>9. CASE \E flags \in SUBSET InUse(Groups) :
                 WriteIFR(flags) \/ \E enable \in BOOLEAN : WriteIER(flags, enable)
      BY <2>2, <2>9 DEF ViaActs, Ack, Enables
    <2> QED BY <1>2, <2>5, <2>6, <2>7, <2>8, <2>9 DEF Access
  <1>3. ASSUME Emulator PROVE ViaActs
    <2>1. "CA1" \in Line /\ "CA2" \in Line
      BY DEF Line
    <2> QED BY <1>3, <2>1 DEF Emulator, ViaActs, Step, Ports
  <1> QED BY <1>2, <1>3 DEF ViaNext, ViaActs

LEMMA KeyboardNextActs == [KeyboardNext]_keyboardVars => [ViaActs]_allViaVars
  <1>1. ASSUME Rom PROVE ViaActs
    <2>1. Shift(7) \in [pb7 : BOOLEAN, free : BOOLEAN, shift : 0 .. 7]
          /\ Shift(3) \in [pb7 : BOOLEAN, free : BOOLEAN, shift : 0 .. 7]
      BY DEF Shift
    <2> QED BY <1>1, <2>1 DEF Rom, RomTransmitMode, RomCommand, RomReceiveMode, RomReceive,
                              ViaActs, Modeset, Command, Ack
  <1>2. ASSUME TimePasses PROVE ViaActs
    BY <1>2 DEF TimePasses, ViaActs, Step
  <1>3. ASSUME Client PROVE ViaActs
    BY <1>3 DEF Client, ViaActs, HostInput
  <1>4. ASSUME MachineReset PROVE ViaActs
    BY <1>4 DEF MachineReset, ViaActs
  <1>5. ASSUME UNCHANGED keyboardVars PROVE UNCHANGED allViaVars
    BY <1>5 DEF keyboardVars
  <1> QED BY <1>1, <1>2, <1>3, <1>4, <1>5 DEF KeyboardNext

\* What the operations do to the key buffer.
LEMMA ActsOnKeys == [ViaActs]_allViaVars => [HostKeysNext]_hostKeysVars
  <1>1. ASSUME HostInput PROVE HostKeysNext
    BY <1>1 DEF HostInput, HostKeysNext
  <1>2. ASSUME NEW a, WriteACR(a) PROVE [HostKeysNext]_hostKeysVars
    BY <1>2 DEF WriteACR, StartSrReceive, HostKeysNext
  <1>3. ASSUME NEW n, ViaStep(n) PROVE [HostKeysNext]_hostKeysVars
    BY <1>3 DEF ViaStep, StepShiftRegister, HostKeysNext
  <1>4. ASSUME NEW c, WriteSR(c) PROVE [HostKeysNext]_hostKeysVars
    BY <1>4 DEF WriteSR, RespondToCommand, HostKeysNext
  <1>5. ASSUME ViaReset PROVE HostKeysNext
    BY <1>5 DEF ViaReset, HostKeysNext
  <1>6. ASSUME LoadT1 \/ LoadT2 \/ Ack \/ Ports \/ Enables PROVE UNCHANGED hostKeysVars
    BY <1>6 DEF LoadT1, LoadT2, Ack, Ports, Enables, WriteT1Low, WriteT1LatchHigh, WriteT1High,
                WriteT2Low, WriteT2High, ReadCounter, ReadSR, AccessPort, WriteIFR, WritePCR,
                ControlWrite, WriteIER
  <1>7. ASSUME UNCHANGED allViaVars PROVE UNCHANGED hostKeysVars
    BY <1>7 DEF allViaVars
  <1> QED BY <1>1, <1>2, <1>3, <1>4, <1>5, <1>6, <1>7 DEF ViaActs, Modeset, Step, Command

\* The circular buffer is the bounded queue, for the host alone.
THEOREM HostBufferIsQueue == HostKeysSpec => ImplementsHostKeys
  <1>1. HostKeysInit => HostKeysTypeOK /\ Abstract!HostKeysInit
    BY KeysStart
  <1>2. HostKeysTypeOK /\ [HostKeysNext]_hostKeysVars
          => HostKeysTypeOK' /\ [Abstract!HostKeysNext]_(Abstract!hostKeysVars)
    BY KeysStep
  <1> QED BY <1>1, <1>2, PTL DEF HostKeysSpec, ImplementsHostKeys, Abstract!HostKeysSpec

\* It is that queue, too, under a VIA and a guest that polls it.
THEOREM KeyBufferIsQueue == KeyboardSpec => ImplementsHostKeys
  <1>1. KeyboardInit => HostKeysTypeOK /\ Abstract!HostKeysInit
    BY KeysStart DEF KeyboardInit, ViaStart
  <1>2. HostKeysTypeOK /\ [KeyboardNext]_keyboardVars
          => HostKeysTypeOK' /\ [Abstract!HostKeysNext]_(Abstract!hostKeysVars)
    BY KeysStep, KeyboardNextActs, ActsOnKeys
  <1> QED BY <1>1, <1>2, PTL DEF KeyboardSpec, ImplementsHostKeys, Abstract!HostKeysSpec

(***************************************************************************)
(* The interrupt line.                                                     *)
(***************************************************************************)
LEMMA IrqStep == IrqMatchesFlags /\ [ViaActs]_allViaVars => IrqMatchesFlags'
  <1> SUFFICES ASSUME IrqMatchesFlags, [ViaActs]_allViaVars PROVE IrqMatchesFlags'
    OBVIOUS
  <1>1. ASSUME NEW new, CheckIrq(new, ier') PROVE IrqMatchesFlags'
    BY <1>1 DEF CheckIrq, IrqMatchesFlags
  <1>2. ASSUME UNCHANGED <<irqs, ier>> PROVE IrqMatchesFlags'
    BY <1>2 DEF irqs, IrqMatchesFlags
  <1>3. ASSUME NEW flags, ClearFlags(flags), ier' = ier PROVE IrqMatchesFlags'
    BY <1>1, <1>3 DEF ClearFlags
  <1>4. CASE HostInput
    BY <1>2, <1>4 DEF HostInput, viaVars
  <1>5. CASE LoadT1 \/ LoadT2
    BY <1>2, <1>3, <1>5 DEF LoadT1, LoadT2, WriteT1Low, WriteT1LatchHigh, WriteT1High,
                            WriteT2Low, WriteT2High
  <1>6. CASE Modeset
    <2>1. PICK a : WriteACR(a)
      BY <1>6 DEF Modeset
    <2>2. CASE StartSrReceive
      BY <1>1, <2>1, <2>2 DEF WriteACR, StartSrReceive
    <2>3. CASE UNCHANGED irqs
      BY <1>2, <2>1, <2>3 DEF WriteACR
    <2> QED BY <2>1, <2>2, <2>3 DEF WriteACR
  <1>7. CASE Step
    BY <1>1, <1>7 DEF Step, ViaStep
  <1>8. CASE Ack
    BY <1>3, <1>8 DEF Ack, ReadCounter, ReadSR, AccessPort, WriteIFR
  <1>9. CASE Ports
    BY <1>1, <1>2, <1>9 DEF Ports, WritePCR, ControlWrite
  <1>10. CASE Enables
    BY <1>1, <1>10 DEF Enables, WriteIER
  <1>11. CASE Command
    BY <1>3, <1>11 DEF Command, WriteSR
  <1>12. CASE ViaReset
    BY <1>12 DEF ViaReset, IrqMatchesFlags
  <1>13. CASE UNCHANGED allViaVars
    BY <1>2, <1>13 DEF allViaVars, viaVars
  <1> QED BY <1>4, <1>5, <1>6, <1>7, <1>8, <1>9, <1>10, <1>11, <1>12, <1>13 DEF ViaActs
\* Whatever the guest does with the registers, the line is right.
THEOREM ViaIrqIsRight == ViaSpec => []IrqMatchesFlags
  <1>1. ViaStart => IrqMatchesFlags
    BY DEF ViaStart, IrqMatchesFlags
  <1>2. IrqMatchesFlags /\ [ViaNext]_allViaVars => IrqMatchesFlags'
    BY ViaNextActs, IrqStep
  <1> QED BY <1>1, <1>2, PTL DEF ViaSpec

\* It is right under a guest that polls its keyboard.
THEOREM KeyboardIrqIsRight == KeyboardSpec => []IrqMatchesFlags
  <1>1. KeyboardInit => IrqMatchesFlags
    BY DEF KeyboardInit, ViaStart, IrqMatchesFlags
  <1>2. IrqMatchesFlags /\ [KeyboardNext]_keyboardVars => IrqMatchesFlags'
    BY KeyboardNextActs, IrqStep
  <1> QED BY <1>1, <1>2, PTL DEF KeyboardSpec

(***************************************************************************)
(* The timers.  What n single cycles give has a closed form, which the     *)
(* arithmetic of viaStep computes: it satisfies the recursion, one cycle   *)
(* at a time.                                                              *)
(***************************************************************************)
Timer1 == [value : Int, active : BOOLEAN, pb7 : BOOLEAN, latch : 0 .. Full - 1]
Timer2 == [value : Int, running : BOOLEAN, armed : BOOLEAN, latch : 0 .. Full - 1]
Counting(t) == t.active => t.value >= 1
Wrapped(t) == t.running => t.value \in 1 .. Full
TimersOK ==
    /\ t1 \in Timer1 /\ Counting(t1)
    /\ t2 \in Timer2 /\ Wrapped(t2)
    /\ acr \in [pb7 : BOOLEAN, free : BOOLEAN, shift : 0 .. 7]

LEMMA FullIsPositive == Full \in Nat \ {0}
  <1>1. ByteSize \in Nat /\ ByteSize >= 1
    BY ViaConstants
  <1>2. ByteSize * ByteSize >= 1 * ByteSize
    BY <1>1
  <1> QED BY <1>1, <1>2 DEF Full

LEMMA PeriodIs == ASSUME NEW l \in 0 .. Full - 1 PROVE Period(l) \in 1 .. Full
  BY FullIsPositive DEF Period

\* A quotient and a remainder of the next number.
LEMMA NextQuotient ==
  ASSUME NEW x \in Int, NEW p \in Nat \ {0}
  PROVE  /\ x \div p \in Int /\ x % p \in 0 .. p - 1 /\ x = p * (x \div p) + (x % p)
         /\ (x + 1) \div p = IF x % p < p - 1 THEN x \div p ELSE (x \div p) + 1
         /\ (x + 1) % p = IF x % p < p - 1 THEN (x % p) + 1 ELSE 0
  <1> DEFINE q == x \div p
             m == x % p
             a == (x + 1) \div p
             b == (x + 1) % p
  <1>1. q \in Int /\ m \in 0 .. p - 1 /\ x = p * q + m
    OBVIOUS
  <1>2. a \in Int /\ b \in 0 .. p - 1 /\ x + 1 = p * a + b
    OBVIOUS
  <1> HIDE DEF q, m, a, b
  <1>3. p * (a - q) = m + 1 - b
    BY <1>1, <1>2
  <1>4. a - q <= 1
    <2> SUFFICES ASSUME a - q >= 2 PROVE FALSE
      BY <1>1, <1>2
    <2>1. p * (a - q) >= p * 2
      BY <1>1, <1>2
    <2> QED BY <1>1, <1>2, <1>3, <2>1
  <1>5. a - q >= 0
    <2> SUFFICES ASSUME a - q <= -1 PROVE FALSE
      BY <1>1, <1>2
    <2>1. p * (a - q) <= p * (-1)
      BY <1>1, <1>2
    <2> QED BY <1>1, <1>2, <1>3, <2>1
  <1>6. CASE a = q
    <2>1. b = m + 1
      BY <1>1, <1>2, <1>6
    <2> QED BY <1>1, <1>2, <1>6, <2>1 DEF q, m, a, b
  <1>7. CASE a = q + 1
    <2>1. p * (a - q) = p
      BY <1>1, <1>7
    <2>2. b = m + 1 - p
      BY <1>1, <1>2, <1>3, <2>1
    <2> QED BY <1>1, <1>2, <1>7, <2>2 DEF q, m, a, b
  <1> QED BY <1>1, <1>2, <1>4, <1>5, <1>6, <1>7
\* How often timer 1 underflows in n cycles.
Underflows(t, n) == IF t.value > n THEN 0 ELSE 1 + ((n - t.value) \div Period(t.latch))
Remaining(t, n) == t.value - n + Underflows(t, n) * Period(t.latch)

LEMMA UnderflowsNext ==
  ASSUME NEW t \in Timer1, t.active, Counting(t), NEW n \in Nat
  PROVE  /\ Underflows(t, n) \in Nat /\ Remaining(t, n) \in Nat \ {0}
         /\ Underflows(t, n + 1) = IF Remaining(t, n) > 1 THEN Underflows(t, n)
                                   ELSE Underflows(t, n) + 1
         /\ Remaining(t, n + 1) = IF Remaining(t, n) > 1 THEN Remaining(t, n) - 1
                                  ELSE Period(t.latch)
  <1> DEFINE p == Period(t.latch)
             v == t.value
             k == Underflows(t, n)
             l == Underflows(t, n + 1)
  <1>1. p \in Nat \ {0} /\ v \in Nat /\ v >= 1
    BY PeriodIs, FullIsPositive DEF Timer1, Counting
  <1> DEFINE q == (n - v) \div p
             m == (n - v) % p
  <1>2. /\ k = IF v > n THEN 0 ELSE 1 + q
        /\ l = IF v > n + 1 THEN 0 ELSE 1 + (((n + 1) - v) \div p)
        /\ Remaining(t, n) = v - n + k * p /\ Remaining(t, n + 1) = v - (n + 1) + l * p
    <2>1. k = (IF v > n THEN 0 ELSE 1 + q) /\ l = (IF v > n + 1 THEN 0 ELSE 1 + (((n + 1) - v) \div p))
      BY DEF Underflows
    <2>2. Remaining(t, n) = v - n + k * p /\ Remaining(t, n + 1) = v - (n + 1) + l * p
      BY DEF Remaining
    <2> HIDE DEF p, v, k, l, q
    <2> QED BY <2>1, <2>2
  <1>3. /\ q \in Int /\ m \in 0 .. p - 1 /\ n - v = p * q + m
        /\ ((n + 1) - v) \div p = IF m < p - 1 THEN q ELSE q + 1
    <2>1. n - v \in Int /\ (n - v) + 1 = (n + 1) - v
      BY <1>1
    <2> HIDE DEF p
    <2> QED BY <1>1, <2>1, NextQuotient
  <1> HIDE DEF p, v, k, l, q, m
  <1>4. CASE v > n + 1
    <2>1. k = 0 /\ l = 0 /\ v > n
      BY <1>1, <1>2, <1>4
    <2>2. Remaining(t, n) = v - n /\ Remaining(t, n + 1) = v - (n + 1)
      BY <1>1, <1>2, <2>1
    <2> QED BY <1>1, <1>4, <2>1, <2>2 DEF k, l, p
  <1>5. CASE v = n + 1
    <2>1. k = 0 /\ n - v = -1
      BY <1>1, <1>2, <1>5
    <2>2. p * q + m = -1
      BY <1>3, <2>1
    <2>3. q = -1 /\ m = p - 1
      <3>1. q < 0
        <4> SUFFICES ASSUME q >= 0 PROVE FALSE
          BY <1>3
        <4>1. p * q >= p * 0
          BY <1>1, <1>3
        <4> QED BY <1>1, <1>3, <2>2, <4>1
      <3>2. q > -2
        <4> SUFFICES ASSUME q <= -2 PROVE FALSE
          BY <1>3
        <4>1. p * q <= p * (-2)
          BY <1>1, <1>3
        <4> QED BY <1>1, <1>3, <2>2, <4>1
      <3>3. q = -1
        BY <1>3, <3>1, <3>2
      <3> QED BY <1>1, <1>3, <2>2, <3>3
    <2>4. ((n + 1) - v) \div p = 0
      BY <1>1, <1>3, <2>3
    <2>5. l = 1
      BY <1>1, <1>2, <1>5, <2>4
    <2>6. Remaining(t, n) = 1 /\ Remaining(t, n + 1) = p
      BY <1>1, <1>2, <1>5, <2>1, <2>5
    <2> QED BY <2>1, <2>5, <2>6 DEF k, l, p
  <1>6. CASE v <= n
    <2>1. k = 1 + q /\ l = 1 + (((n + 1) - v) \div p)
      BY <1>1, <1>2, <1>6
    <2>2. q >= 0
      <3> SUFFICES ASSUME q <= -1 PROVE FALSE
        BY <1>3
      <3>1. p * q <= p * (-1)
        BY <1>1, <1>3
      <3> QED BY <1>1, <1>3, <1>6, <3>1
    <2>3. k * p = p * q + p
      BY <1>1, <1>3, <2>1
    <2>4. Remaining(t, n) = p - m
      BY <1>1, <1>2, <1>3, <2>3
    <2>5. CASE m < p - 1
      <3>1. l = k
        BY <1>3, <2>1, <2>5
      <3>2. Remaining(t, n + 1) = p - m - 1
        BY <1>1, <1>2, <1>3, <2>3, <3>1
      <3>3. k \in Nat /\ p - m > 1
        BY <1>1, <1>3, <2>1, <2>2, <2>5
      <3> QED BY <1>1, <1>3, <2>4, <3>1, <3>2, <3>3 DEF k, l
    <2>6. CASE m = p - 1
      <3>1. l = k + 1
        BY <1>3, <2>1, <2>6
      <3>2. l * p = p * q + p + p
        BY <1>1, <1>3, <2>1, <3>1
      <3>3. Remaining(t, n) = 1 /\ Remaining(t, n + 1) = p
        BY <1>1, <1>2, <1>3, <2>4, <2>6, <3>2
      <3>4. k \in Nat
        BY <1>3, <2>1, <2>2
      <3> QED BY <3>1, <3>3, <3>4 DEF k, l, p
    <2> QED BY <1>1, <1>3, <2>5, <2>6
  <1> QED BY <1>1, <1>4, <1>5, <1>6

LEMMA Timer1Except ==
  ASSUME NEW t, NEW v, NEW a, NEW b, NEW l, NEW w, NEW c, NEW u,
         t = [value |-> v, active |-> a, pb7 |-> b, latch |-> l]
  PROVE  /\ u = [t EXCEPT !.value = w, !.pb7 = c]
               => u = [value |-> w, active |-> a, pb7 |-> c, latch |-> l]
         /\ u = [t EXCEPT !.value = w, !.active = FALSE, !.pb7 = c]
               => u = [value |-> w, active |-> FALSE, pb7 |-> c, latch |-> l]
  <1>1. ASSUME u = [t EXCEPT !.value = w, !.pb7 = c]
        PROVE  u = [value |-> w, active |-> a, pb7 |-> c, latch |-> l]
    BY <1>1
  <1>2. ASSUME u = [t EXCEPT !.value = w, !.active = FALSE, !.pb7 = c]
        PROVE  u = [value |-> w, active |-> FALSE, pb7 |-> c, latch |-> l]
    BY <1>2
  <1> QED BY <1>1, <1>2

\* Timer 1 when it runs freely.
LEMMA FreeTimer1 ==
  ASSUME NEW t \in Timer1, Counting(t), NEW n \in Nat, acr.free
  PROVE  Timer1After(t, n) =
           IF t.active THEN [t EXCEPT !.value = Remaining(t, n),
                                      !.pb7 = IF acr.pb7 /\ Underflows(t, n) % 2 = 1 THEN ~@ ELSE @]
           ELSE t
  <1>0. t.value \in Int /\ Period(t.latch) \in Int /\ t.pb7 \in BOOLEAN
    BY PeriodIs, FullIsPositive DEF Timer1
  <1>1. CASE ~t.active
    BY <1>1 DEF Timer1After, Timer1
  <1>2. CASE t.active /\ t.value > n
    <2>1. Underflows(t, n) = 0 /\ Remaining(t, n) = t.value - n
      BY <1>0, <1>2 DEF Underflows, Remaining
    <2>2. t.value - n > 0 /\ ~(0 % 2 = 1)
      BY <1>0, <1>2
    <2> QED BY <1>2, <2>1, <2>2 DEF Timer1After, Timer1
  <1>3. CASE t.active /\ ~(t.value > n)
    <2>1. ~(t.value - n > 0) /\ -(t.value - n) = n - t.value
      BY <1>0, <1>3
    <2>2. Underflows(t, n) = 1 + ((-(t.value - n)) \div Period(t.latch))
      BY <1>3, <2>1 DEF Underflows
    <2>3. Timer1After(t, n) =
            [t EXCEPT !.value = t.value - n + Underflows(t, n) * Period(t.latch),
                      !.pb7 = IF acr.pb7 /\ Underflows(t, n) % 2 = 1 THEN ~@ ELSE @]
      BY <1>3, <2>1, <2>2, Zenon DEF Timer1After
    <2> QED BY <1>3, <2>3 DEF Remaining
  <1> QED BY <1>1, <1>2, <1>3
\* Timer 1 after n single cycles: a timer that does not run freely stops at zero.
Stopped(t) == [t EXCEPT !.value = 0, !.active = FALSE, !.pb7 = acr.pb7 \/ @]
Timer1By(t, n) ==
    IF acr.free THEN Timer1After(t, n)
    ELSE IF ~t.active THEN t
    ELSE IF t.value > n THEN [t EXCEPT !.value = @ - n] ELSE Stopped(t)

LEMMA Timer1Starts ==
  ASSUME NEW t \in Timer1, Counting(t)
  PROVE  Timer1By(t, 0) = t /\ ~Timer1Fires(t, 0)
  <1>1. t.active => t.value - 0 > 0 /\ t.value - 0 = t.value /\ t.value > 0
    BY DEF Timer1, Counting
  <1>2. [t EXCEPT !.value = t.value] = t
    BY DEF Timer1
  <1>3. ~Timer1Fires(t, 0)
    BY <1>1 DEF Timer1Fires, Timer1, Counting
  <1>4. Timer1After(t, 0) = t
    BY <1>1, <1>2 DEF Timer1After
  <1>5. ~acr.free => Timer1By(t, 0) = t
    BY <1>1, <1>2 DEF Timer1By
  <1> QED BY <1>3, <1>4, <1>5 DEF Timer1By

LEMMA Timer1Steps ==
  ASSUME NEW t \in Timer1, Counting(t), NEW n \in Nat, acr.pb7 \in BOOLEAN
  PROVE  /\ Timer1By(t, n + 1) = Timer1After(Timer1By(t, n), 1)
         /\ Timer1Fires(t, n + 1) <=> Timer1Fires(t, n) \/ Timer1Fires(Timer1By(t, n), 1)
  <1>0. t.value \in Int /\ t.active \in BOOLEAN /\ t.pb7 \in BOOLEAN
        /\ t = [value |-> t.value, active |-> t.active, pb7 |-> t.pb7, latch |-> t.latch]
    BY DEF Timer1
  <1>1. CASE ~t.active
    <2>1. Timer1After(t, n) = t /\ Timer1After(t, n + 1) = t /\ Timer1After(t, 1) = t
      BY <1>0, <1>1 DEF Timer1After
    <2> QED BY <1>1, <2>1 DEF Timer1By, Timer1Fires
  <1>2. CASE t.active /\ acr.free
    <2> DEFINE k == Underflows(t, n)
               l == Underflows(t, n + 1)
               w == Remaining(t, n)
               p == Period(t.latch)
               flip(b, j) == IF acr.pb7 /\ j % 2 = 1 THEN ~b ELSE b
               u == Timer1By(t, n)
    <2>1. /\ k \in Nat /\ w \in Nat \ {0} /\ l = IF w > 1 THEN k ELSE k + 1
          /\ Remaining(t, n + 1) = IF w > 1 THEN w - 1 ELSE p
      BY <1>2, UnderflowsNext
    <2>2. /\ u = [t EXCEPT !.value = w, !.pb7 = flip(t.pb7, k)]
          /\ Timer1By(t, n + 1) = [t EXCEPT !.value = Remaining(t, n + 1), !.pb7 = flip(t.pb7, l)]
      <3>1. Timer1By(t, n) = Timer1After(t, n) /\ Timer1By(t, n + 1) = Timer1After(t, n + 1)
        BY <1>2 DEF Timer1By
      <3>2. n + 1 \in Nat
        OBVIOUS
      <3> QED BY <1>2, <3>1, <3>2, FreeTimer1, Zenon
    <2>3. (k + 1) % 2 = 1 <=> ~(k % 2 = 1)
      BY <2>1
    <2>4. p \in Nat \ {0}
      BY PeriodIs, FullIsPositive DEF Timer1
    <2>5. /\ u.value = w /\ u.active = t.active /\ u.pb7 = flip(t.pb7, k) /\ u.latch = t.latch
          /\ u = [value |-> w, active |-> t.active, pb7 |-> flip(t.pb7, k), latch |-> t.latch]
          /\ Timer1By(t, n + 1) = [value |-> Remaining(t, n + 1), active |-> t.active,
                                   pb7 |-> flip(t.pb7, l), latch |-> t.latch]
      BY <1>0, <2>2 DEF Timer1
    <2> HIDE DEF u, k, l, w, p
    <2>6. ASSUME w > 1 PROVE Timer1By(t, n + 1) = Timer1After(u, 1)
      <3>1. Timer1After(u, 1) = [u EXCEPT !.value = w - 1]
        BY <1>2, <2>1, <2>5, <2>6 DEF Timer1After
      <3>2. Remaining(t, n + 1) = w - 1 /\ l = k
        BY <2>1, <2>6
      <3>3. [u EXCEPT !.value = w - 1] = [value |-> w - 1, active |-> t.active,
                                          pb7 |-> flip(t.pb7, k), latch |-> t.latch]
        <4> DEFINE b == flip(t.pb7, k)
        <4>1. u = [value |-> w, active |-> t.active, pb7 |-> b, latch |-> t.latch]
          BY <2>5
        <4> HIDE DEF b
        <4>2. [u EXCEPT !.value = w - 1] = [value |-> w - 1, active |-> t.active,
                                            pb7 |-> b, latch |-> t.latch]
          BY <4>1
        <4> QED BY <4>2 DEF b
      <3> QED BY <2>5, <3>1, <3>2, <3>3, Zenon
    <2>7. ASSUME w = 1 PROVE Timer1By(t, n + 1) = Timer1After(u, 1)
      <3>1. /\ u.active /\ ~(u.value - 1 > 0) /\ 1 + ((-(u.value - 1)) \div Period(u.latch)) = 1
            /\ u.value - 1 = 0 /\ 1 * p = p /\ 0 + p = p /\ 1 % 2 = 1
        BY <1>2, <2>1, <2>4, <2>5, <2>7 DEF p
      <3>2. Timer1After(u, 1) = [u EXCEPT !.value = p, !.pb7 = IF acr.pb7 THEN ~@ ELSE @]
        BY <1>2, <2>5, <3>1 DEF Timer1After, p
      <3>3. flip(t.pb7, l) = IF acr.pb7 THEN ~flip(t.pb7, k) ELSE flip(t.pb7, k)
        BY <1>0, <2>1, <2>3, <2>7
      <3>4. Remaining(t, n + 1) = p
        BY <2>1, <2>7
      <3> DEFINE b == flip(t.pb7, k)
                 c == flip(t.pb7, l)
                 d == IF acr.pb7 THEN ~b ELSE b
      <3>5. u = [value |-> w, active |-> t.active, pb7 |-> b, latch |-> t.latch]
            /\ Timer1By(t, n + 1) = [value |-> p, active |-> t.active, pb7 |-> c, latch |-> t.latch]
            /\ u.pb7 = b
        BY <2>5, <3>4
      <3>6. Timer1After(u, 1) = [u EXCEPT !.value = p, !.pb7 = d]
        BY <3>2, <3>5
      <3>7. c = d
        BY <3>3
      <3> HIDE DEF b, c, d
      <3>8. Timer1After(u, 1) = [value |-> p, active |-> t.active, pb7 |-> d, latch |-> t.latch]
        BY <3>5, <3>6, Timer1Except
      <3> QED BY <3>5, <3>7, <3>8
    <2>8. Timer1By(t, n + 1) = Timer1After(u, 1)
      <3>1. w > 1 \/ w = 1
        BY <2>1
      <3> QED BY <2>6, <2>7, <3>1 DEF u
    <2>9. Timer1Fires(t, n + 1) <=> Timer1Fires(t, n) \/ Timer1Fires(u, 1)
      <3>1. CASE t.value > n
        <4>1. w = t.value - n
          BY <1>0, <2>4, <3>1 DEF w, Remaining, Underflows, p
        <4> QED BY <1>0, <2>1, <2>5, <3>1, <4>1 DEF Timer1Fires
      <3>2. CASE ~(t.value > n)
        BY <1>0, <1>2, <3>2 DEF Timer1Fires
      <3> QED BY <3>1, <3>2
    <2> QED BY <2>8, <2>9 DEF u
  <1>3. CASE t.active /\ ~acr.free
    <2>1. CASE t.value > n
      <3> DEFINE u == [t EXCEPT !.value = @ - n]
      <3>1. /\ Timer1By(t, n) = u /\ u.value = t.value - n /\ u.active = t.active
            /\ u.pb7 = t.pb7 /\ u.latch = t.latch
            /\ u = [value |-> t.value - n, active |-> t.active, pb7 |-> t.pb7, latch |-> t.latch]
        <4>1. Timer1By(t, n) = u
          BY <1>3, <2>1 DEF Timer1By
        <4>2. u = [value |-> t.value - n, active |-> t.active, pb7 |-> t.pb7, latch |-> t.latch]
          BY <1>0
        <4> HIDE DEF u
        <4> QED BY <4>1, <4>2
      <3> HIDE DEF u
      <3>2. u.value \in Int /\ u.value >= 1 /\ (t.value > n + 1 <=> u.value - 1 > 0)
            /\ u.value - 1 = t.value - (n + 1)
        BY <1>0, <2>1, <3>1
      <3>3. Timer1Fires(t, n + 1) <=> Timer1Fires(u, 1)
        BY <1>0, <1>3, <3>1, <3>2 DEF Timer1Fires
      <3>4. ~Timer1Fires(t, n)
        BY <1>0, <2>1 DEF Timer1Fires
      <3>5. CASE t.value > n + 1
        <4>1. Timer1After(u, 1) = [u EXCEPT !.value = u.value - 1]
          BY <1>3, <3>1, <3>2, <3>5 DEF Timer1After
        <4>2. Timer1By(t, n + 1) = [t EXCEPT !.value = @ - (n + 1)]
          BY <1>3, <3>5 DEF Timer1By
        <4> QED BY <1>0, <3>1, <3>2, <3>3, <3>4, <4>1, <4>2
      <3>6. CASE ~(t.value > n + 1)
        <4>1. ~(u.value - 1 > 0) /\ u.value - 1 = 0
          BY <1>0, <2>1, <3>1, <3>6
        <4>2. Timer1After(u, 1) = [u EXCEPT !.value = 0, !.active = FALSE, !.pb7 = acr.pb7 \/ @]
          BY <1>3, <3>1, <4>1 DEF Timer1After
        <4>3. Timer1By(t, n + 1) = [t EXCEPT !.value = 0, !.active = FALSE, !.pb7 = acr.pb7 \/ @]
          BY <1>3, <3>6 DEF Timer1By, Stopped
        <4> DEFINE b == acr.pb7 \/ t.pb7
        <4>4. /\ Timer1After(u, 1) = [u EXCEPT !.value = 0, !.active = FALSE, !.pb7 = b]
              /\ Timer1By(t, n + 1) = [t EXCEPT !.value = 0, !.active = FALSE, !.pb7 = b]
          BY <3>1, <4>2, <4>3
        <4> HIDE DEF b
        <4>5. Timer1After(u, 1) = Timer1By(t, n + 1)
          <5>1. Timer1After(u, 1) = [value |-> 0, active |-> FALSE, pb7 |-> b, latch |-> t.latch]
            BY <3>1, <4>4, Timer1Except
          <5>2. Timer1By(t, n + 1) = [value |-> 0, active |-> FALSE, pb7 |-> b, latch |-> t.latch]
            BY <1>0, <4>4, Timer1Except
          <5> QED BY <5>1, <5>2
        <4> QED BY <3>1, <3>3, <3>4, <4>5
      <3> QED BY <3>5, <3>6
    <2>2. CASE ~(t.value > n)
      <3> DEFINE u == Stopped(t)
      <3>1. ~(t.value > n + 1)
        BY <1>0, <2>2
      <3>2. Timer1By(t, n) = u /\ Timer1By(t, n + 1) = u
        BY <1>3, <2>2, <3>1 DEF Timer1By
      <3>3. u.active = FALSE /\ u \in Timer1
        <4> DEFINE b == acr.pb7 \/ t.pb7
        <4>1. b \in BOOLEAN /\ 0 \in Int
          BY <1>0
        <4>2. u = [t EXCEPT !.value = 0, !.active = FALSE, !.pb7 = b]
          BY DEF Stopped
        <4> HIDE DEF b, u
        <4> QED BY <4>1, <4>2 DEF Timer1
      <3> HIDE DEF u
      <3>4. Timer1After(u, 1) = u
        BY <3>3 DEF Timer1After, Timer1
      <3>5. Timer1Fires(t, n + 1) /\ Timer1Fires(t, n)
        BY <1>0, <1>3, <2>2 DEF Timer1Fires
      <3> QED BY <3>2, <3>4, <3>5
    <2> QED BY <2>1, <2>2
  <1> QED BY <1>0, <1>1, <1>2, <1>3
\* Timer 2: one value of 1 .. Full for every number of cycles.
LEMMA Timer2Steps ==
  ASSUME NEW t \in Timer2, Wrapped(t), NEW n \in Nat
  PROVE  /\ Timer2After(t, 0) = t /\ ~Timer2Fires(t, 0)
         /\ Timer2After(t, n + 1) = Timer2After(Timer2After(t, n), 1)
         /\ Timer2Fires(t, n + 1) <=> Timer2Fires(t, n) \/ Timer2Fires(Timer2After(t, n), 1)
         /\ Timer2After(t, n) \in Timer2 /\ Wrapped(Timer2After(t, n))
  <1> DEFINE F == Full
  <1>0. /\ t.value \in Int /\ t.running \in BOOLEAN /\ t.armed \in BOOLEAN /\ F \in Nat \ {0}
        /\ t = [value |-> t.value, running |-> t.running, armed |-> t.armed, latch |-> t.latch]
    BY FullIsPositive DEF Timer2
  <1>1. CASE ~t.running
    <2>1. \A i : Timer2After(t, i) = t /\ ~Timer2Fires(t, i)
      BY <1>1 DEF Timer2After, Timer2Fires
    <2> QED BY <2>1
  <1>2. CASE t.running
    <2> DEFINE v == t.value
               y == v - n - 1
               w == (y % F) + 1
               x == ((y - 1) % F) + 1
               u == Timer2After(t, n)
    <2>1. v \in 1 .. F
      BY <1>2 DEF Wrapped
    <2>2. y \in Int /\ w \in 1 .. F /\ (v > n => w = v - n)
      <3> HIDE DEF F
      <3>1. y \in Int /\ (v > n => y \in 0 .. F - 1 /\ y + 1 = v - n)
        BY <1>0, <2>1
      <3>2. y \in 0 .. F - 1 => y % F = y
        BY <1>0
      <3>3. y % F \in 0 .. F - 1
        BY <1>0, <3>1
      <3> QED BY <1>0, <3>1, <3>2, <3>3
    <2>3. x = IF w > 1 THEN w - 1 ELSE F
      <3> DEFINE z == y - 1
      <3>1. z \in Int /\ z + 1 = y
        BY <2>2
      <3> HIDE DEF F, y, z
      <3>2. z % F \in 0 .. F - 1 /\ y % F = IF z % F < F - 1 THEN (z % F) + 1 ELSE 0
        BY <1>0, <3>1, NextQuotient
      <3> HIDE DEF w
      <3>3. w = (y % F) + 1 /\ x = (z % F) + 1
        BY DEF w, z
      <3> QED BY <1>0, <3>2, <3>3
    <2>4. v - (n + 1) - 1 = y - 1 /\ (v > n + 1 => x = v - (n + 1))
      <3>1. v > n + 1 => v > n /\ v - n > 1 /\ (v - n) - 1 = v - (n + 1)
        BY <2>1
      <3>2. v - (n + 1) - 1 = y - 1
        BY <2>1
      <3> QED BY <2>2, <2>3, <3>1, <3>2
    <2>5. u = [t EXCEPT !.value = w, !.armed = t.armed /\ t.value > n]
      <3>1. (IF v > n THEN v - n ELSE ((v - n - 1) % Full) + 1) = w
        BY <2>2
      <3> QED BY <1>2, <3>1 DEF Timer2After
    <2>6. Timer2After(t, n + 1) = [t EXCEPT !.value = x, !.armed = t.armed /\ t.value > n + 1]
      <3>1. (IF v > n + 1 THEN v - (n + 1) ELSE ((v - (n + 1) - 1) % Full) + 1) = x
        BY <2>4
      <3> QED BY <1>2, <3>1 DEF Timer2After
    <2>7. Timer2After(t, 0) = t
      <3>1. v > 0 /\ v - 0 = v
        BY <1>0, <2>1
      <3>2. [t EXCEPT !.value = v, !.armed = t.armed] = t
        BY <1>0 DEF Timer2
      <3>3. (t.armed /\ t.value > 0) = t.armed
        BY <1>0, <3>1
      <3> QED BY <1>2, <3>1, <3>2, <3>3 DEF Timer2After
    <2> DEFINE b == t.armed /\ t.value > n
               c == t.armed /\ t.value > n + 1
    <2> HIDE DEF w, x, u
    <2>8. u = [value |-> w, running |-> t.running, armed |-> b, latch |-> t.latch]
      <3>1. u = [t EXCEPT !.value = w, !.armed = b]
        BY <2>5
      <3> HIDE DEF b
      <3> QED BY <1>0, <3>1
    <2> DEFINE s == Timer2After(t, n + 1)
    <2>9. s = [value |-> x, running |-> t.running, armed |-> c, latch |-> t.latch]
      <3>1. s = [t EXCEPT !.value = x, !.armed = c]
        BY <2>6
      <3> HIDE DEF c, s
      <3> QED BY <1>0, <3>1
    <2>10. Timer2After(u, 1) = s
      <3> DEFINE r == Timer2After(u, 1)
      <3>1. (IF w > 1 THEN w - 1 ELSE ((w - 1 - 1) % Full) + 1) = x
        <4>1. CASE w > 1
          BY <2>3, <4>1
        <4>2. CASE ~(w > 1)
          <5>1. w - 1 - 1 = -1
            BY <1>0, <2>2, <4>2
          <5>2. (-1) % F = F - 1
            <6> HIDE DEF F
            <6> DEFINE m1 == -1
            <6>1. m1 \in Int /\ m1 + 1 = 0
              OBVIOUS
            <6> HIDE DEF m1
            <6>2. m1 % F \in 0 .. F - 1 /\ 0 % F = IF m1 % F < F - 1 THEN (m1 % F) + 1 ELSE 0
              BY <1>0, <6>1, NextQuotient
            <6>3. 0 % F = 0
              BY <1>0
            <6>4. m1 % F = F - 1
              BY <1>0, <6>2, <6>3
            <6> QED BY <6>4 DEF m1
          <5> QED BY <1>0, <2>3, <4>2, <5>1, <5>2
        <4> QED BY <4>1, <4>2
      <3>2. u.running = t.running /\ u.value = w /\ u.armed = b
        BY <2>8
      <3>3. (b /\ w > 1) = c
        <4>1. v > n => w = v - n
          BY <2>2
        <4> QED BY <1>0, <2>1, <4>1
      <3>4. r = [u EXCEPT !.value = IF w > 1 THEN w - 1 ELSE ((w - 1 - 1) % Full) + 1,
                          !.armed = b /\ w > 1]
        BY <1>2, <3>2, Zenon DEF Timer2After
      <3>5. r = [u EXCEPT !.value = x, !.armed = c]
        BY <3>1, <3>3, <3>4
      <3> HIDE DEF r, b, c, s
      <3>6. r = [value |-> x, running |-> t.running, armed |-> c, latch |-> t.latch]
        BY <2>8, <3>5
      <3> QED BY <2>9, <3>6 DEF r
    <2>11. Timer2Fires(t, n + 1) <=> Timer2Fires(t, n) \/ Timer2Fires(u, 1)
      <3>1. Timer2Fires(u, 1) <=> b /\ w <= 1
        BY <1>2, <2>8 DEF Timer2Fires
      <3>2. v > n => w = v - n
        BY <2>2
      <3> QED BY <1>0, <1>2, <2>1, <2>2, <3>1, <3>2 DEF Timer2Fires
    <2>12. u \in Timer2 /\ Wrapped(u)
      <3>1. b \in BOOLEAN /\ w \in Int /\ w \in 1 .. F /\ t.latch \in 0 .. Full - 1
        BY <1>0, <2>2 DEF Timer2
      <3> HIDE DEF b
      <3> QED BY <1>0, <2>8, <3>1 DEF Timer2, Wrapped
    <2>13. ~Timer2Fires(t, 0)
      BY <1>0, <2>1 DEF Timer2Fires
    <2> QED BY <2>7, <2>10, <2>11, <2>12, <2>13 DEF u
  <1> QED BY <1>0, <1>1, <1>2
\* The closed forms satisfy the recursions, so these have a value and it is theirs.
LEMMA Timer1Recursion ==
  ASSUME TimersOK
  PROVE  \A n \in Nat : Timer1Stepwise[n] = [t |-> Timer1By(t1, n), fired |-> Timer1Fires(t1, n)]
  <1> DEFINE g == [n \in Nat |-> [t |-> Timer1By(t1, n), fired |-> Timer1Fires(t1, n)]]
             S(h) == [n \in Nat |->
                        IF n = 0 THEN [t |-> t1, fired |-> FALSE]
                        ELSE LET s == h[n - 1]
                             IN  [t |-> Timer1After(s.t, 1),
                                  fired |-> s.fired \/ Timer1Fires(s.t, 1)]]
  <1>0. t1 \in Timer1 /\ Counting(t1) /\ acr.pb7 \in BOOLEAN
    BY DEF TimersOK
  <1>1. ASSUME NEW n \in Nat
        PROVE  /\ Timer1By(t1, 0) = t1 /\ Timer1Fires(t1, 0) = FALSE
               /\ Timer1By(t1, n + 1) = Timer1After(Timer1By(t1, n), 1)
               /\ Timer1Fires(t1, n + 1) = (Timer1Fires(t1, n) \/ Timer1Fires(Timer1By(t1, n), 1))
    <2>1. Timer1Fires(t1, n + 1) \in BOOLEAN /\ Timer1Fires(t1, 0) \in BOOLEAN
      BY DEF Timer1Fires
    <2> QED BY <1>0, <2>1, Timer1Starts, Timer1Steps
  <1>2. g = S(g)
    <2> SUFFICES ASSUME NEW n \in Nat
                 PROVE  [t |-> Timer1By(t1, n), fired |-> Timer1Fires(t1, n)]
                        = IF n = 0 THEN [t |-> t1, fired |-> FALSE]
                          ELSE [t |-> Timer1After(g[n - 1].t, 1),
                                fired |-> g[n - 1].fired \/ Timer1Fires(g[n - 1].t, 1)]
      OBVIOUS
    <2>1. CASE n = 0
      BY <1>1, <2>1
    <2>2. CASE n # 0
      <3> DEFINE m == n - 1
      <3>1. m \in Nat /\ m + 1 = n
        BY <2>2
      <3>2. g[m] = [t |-> Timer1By(t1, m), fired |-> Timer1Fires(t1, m)]
        BY <3>1
      <3> HIDE DEF g
      <3>3. g[m].t = Timer1By(t1, m) /\ g[m].fired = Timer1Fires(t1, m)
        BY <3>2
      <3>4. Timer1By(t1, n) = Timer1After(g[m].t, 1)
            /\ Timer1Fires(t1, n) = (g[m].fired \/ Timer1Fires(g[m].t, 1))
        <4> HIDE DEF m
        <4> QED BY <1>1, <3>1, <3>3
      <3> QED BY <2>2, <3>4
    <2> QED BY <2>1, <2>2
  <1>3. Timer1Stepwise = S(Timer1Stepwise)
    BY <1>2, Zenon DEF Timer1Stepwise
  <1> DEFINE Good == {n \in Nat : Timer1Stepwise[n] = [t |-> Timer1By(t1, n), fired |-> Timer1Fires(t1, n)]}
  <1>4. 0 \in Good
    <2>1. Timer1Stepwise[0] = [t |-> t1, fired |-> FALSE]
      BY <1>3, Zenon
    <2> QED BY <1>1, <2>1
  <1>5. ASSUME NEW n \in Nat, n \in Good PROVE n + 1 \in Good
    <2> DEFINE s == Timer1Stepwise[n]
    <2>1. n + 1 \in Nat /\ n + 1 # 0 /\ (n + 1) - 1 = n
      OBVIOUS
    <2>2. Timer1Stepwise[n + 1] = [t |-> Timer1After(s.t, 1), fired |-> s.fired \/ Timer1Fires(s.t, 1)]
      BY <1>3, <2>1
    <2>3. s.t = Timer1By(t1, n) /\ s.fired = Timer1Fires(t1, n)
      BY <1>5
    <2> QED BY <1>1, <2>1, <2>2, <2>3
  <1> HIDE DEF Good
  <1>6. Nat \subseteq Good
    BY <1>4, <1>5, SetInduction
  <1> QED BY <1>6 DEF Good

LEMMA Timer2Recursion ==
  ASSUME TimersOK
  PROVE  \A n \in Nat : Timer2Stepwise[n] = [t |-> Timer2After(t2, n), fired |-> Timer2Fires(t2, n)]
  <1> DEFINE g == [n \in Nat |-> [t |-> Timer2After(t2, n), fired |-> Timer2Fires(t2, n)]]
             S(h) == [n \in Nat |->
                        IF n = 0 THEN [t |-> t2, fired |-> FALSE]
                        ELSE LET s == h[n - 1]
                             IN  [t |-> Timer2After(s.t, 1),
                                  fired |-> s.fired \/ Timer2Fires(s.t, 1)]]
  <1>0. t2 \in Timer2 /\ Wrapped(t2)
    BY DEF TimersOK
  <1>1. ASSUME NEW n \in Nat
        PROVE  /\ Timer2After(t2, 0) = t2 /\ Timer2Fires(t2, 0) = FALSE
               /\ Timer2After(t2, n + 1) = Timer2After(Timer2After(t2, n), 1)
               /\ Timer2Fires(t2, n + 1) = (Timer2Fires(t2, n) \/ Timer2Fires(Timer2After(t2, n), 1))
    <2>1. Timer2Fires(t2, n + 1) \in BOOLEAN /\ Timer2Fires(t2, 0) \in BOOLEAN
      BY DEF Timer2Fires
    <2> QED BY <1>0, <2>1, Timer2Steps
  <1>2. g = S(g)
    <2> SUFFICES ASSUME NEW n \in Nat
                 PROVE  [t |-> Timer2After(t2, n), fired |-> Timer2Fires(t2, n)]
                        = IF n = 0 THEN [t |-> t2, fired |-> FALSE]
                          ELSE [t |-> Timer2After(g[n - 1].t, 1),
                                fired |-> g[n - 1].fired \/ Timer2Fires(g[n - 1].t, 1)]
      OBVIOUS
    <2>1. CASE n = 0
      BY <1>1, <2>1
    <2>2. CASE n # 0
      <3> DEFINE m == n - 1
      <3>1. m \in Nat /\ m + 1 = n
        BY <2>2
      <3>2. g[m] = [t |-> Timer2After(t2, m), fired |-> Timer2Fires(t2, m)]
        BY <3>1
      <3> HIDE DEF g
      <3>3. g[m].t = Timer2After(t2, m) /\ g[m].fired = Timer2Fires(t2, m)
        BY <3>2
      <3>4. Timer2After(t2, n) = Timer2After(g[m].t, 1)
            /\ Timer2Fires(t2, n) = (g[m].fired \/ Timer2Fires(g[m].t, 1))
        <4> HIDE DEF m
        <4> QED BY <1>1, <3>1, <3>3
      <3> QED BY <2>2, <3>4
    <2> QED BY <2>1, <2>2
  <1>3. Timer2Stepwise = S(Timer2Stepwise)
    BY <1>2, Zenon DEF Timer2Stepwise
  <1> DEFINE Good == {n \in Nat : Timer2Stepwise[n] = [t |-> Timer2After(t2, n), fired |-> Timer2Fires(t2, n)]}
  <1>4. 0 \in Good
    <2>1. Timer2Stepwise[0] = [t |-> t2, fired |-> FALSE]
      BY <1>3, Zenon
    <2> QED BY <1>1, <2>1
  <1>5. ASSUME NEW n \in Nat, n \in Good PROVE n + 1 \in Good
    <2> DEFINE s == Timer2Stepwise[n]
    <2>1. n + 1 \in Nat /\ n + 1 # 0 /\ (n + 1) - 1 = n
      OBVIOUS
    <2>2. Timer2Stepwise[n + 1] = [t |-> Timer2After(s.t, 1), fired |-> s.fired \/ Timer2Fires(s.t, 1)]
      BY <1>3, <2>1
    <2>3. s.t = Timer2After(t2, n) /\ s.fired = Timer2Fires(t2, n)
      BY <1>5
    <2> QED BY <1>1, <2>1, <2>2, <2>3
  <1> HIDE DEF Good
  <1>6. Nat \subseteq Good
    BY <1>4, <1>5, SetInduction
  <1> QED BY <1>6 DEF Good

\* A timer that counts has at least one cycle left.
LEMMA Timer1Stays ==
  ASSUME NEW t \in Timer1, Counting(t), NEW n \in Nat, acr.pb7 \in BOOLEAN
  PROVE  Timer1After(t, n) \in Timer1 /\ Counting(Timer1After(t, n))
  <1>0. t.value \in Int /\ t.active \in BOOLEAN /\ t.pb7 \in BOOLEAN
        /\ t = [value |-> t.value, active |-> t.active, pb7 |-> t.pb7, latch |-> t.latch]
        /\ t.latch \in 0 .. Full - 1
    BY DEF Timer1
  <1> DEFINE u == Timer1After(t, n)
  <1>1. CASE ~t.active
    <2>1. u = t
      BY <1>0, <1>1 DEF Timer1After
    <2> QED BY <1>1, <2>1 DEF Counting
  <1>2. CASE t.active /\ acr.free
    <2> DEFINE b == IF acr.pb7 /\ Underflows(t, n) % 2 = 1 THEN ~t.pb7 ELSE t.pb7
               w == Remaining(t, n)
    <2>1. w \in Nat \ {0} /\ b \in BOOLEAN
      BY <1>0, <1>2, UnderflowsNext
    <2>2. u = [t EXCEPT !.value = w, !.pb7 = b]
      BY <1>2, FreeTimer1, Zenon
    <2> HIDE DEF u, b, w
    <2>3. u = [value |-> w, active |-> t.active, pb7 |-> b, latch |-> t.latch]
      BY <1>0, <2>2, Timer1Except
    <2> QED BY <1>0, <2>1, <2>3 DEF Timer1, Counting, u
  <1>3. CASE t.active /\ ~acr.free
    <2> DEFINE v == t.value - n
    <2>1. CASE v > 0
      <3>1. u = [t EXCEPT !.value = v]
        BY <1>3, <2>1 DEF Timer1After
      <3>2. v \in Int /\ v >= 1
        BY <1>0, <2>1
      <3> HIDE DEF u, v
      <3>3. u = [value |-> v, active |-> t.active, pb7 |-> t.pb7, latch |-> t.latch]
        BY <1>0, <3>1
      <3> QED BY <1>0, <3>2, <3>3 DEF Timer1, Counting, u
    <2>2. CASE ~(v > 0)
      <3> DEFINE b == acr.pb7 \/ t.pb7
      <3>1. u = [t EXCEPT !.value = v, !.active = FALSE, !.pb7 = b]
        BY <1>3, <2>2 DEF Timer1After
      <3>2. v \in Int /\ b \in BOOLEAN
        BY <1>0
      <3> HIDE DEF u, v, b
      <3>3. u = [value |-> v, active |-> FALSE, pb7 |-> b, latch |-> t.latch]
        BY <1>0, <3>1, Timer1Except
      <3> QED BY <1>0, <3>2, <3>3 DEF Timer1, Counting, u
    <2> QED BY <2>1, <2>2
  <1> QED BY <1>0, <1>1, <1>2, <1>3

\* What the slice leaves is the closed form, but for the stopped counter.
LEMMA SlicesFollow == TimersOK => SlicesAreExact
  <1> SUFFICES ASSUME TimersOK, NEW n \in StepTicks
               PROVE  /\ Timer1Stepwise[n].fired = Timer1Fires(t1, n)
                      /\ Timer1Stepwise[n].t =
                             [Timer1After(t1, n) EXCEPT !.value = IF TimesOut(n) THEN 0 ELSE @]
                      /\ TimesOut(n) => Timer1After(t1, n).value = t1.value - n /\ t1.value <= n
                      /\ Timer2Stepwise[n] = [t |-> Timer2After(t2, n), fired |-> Timer2Fires(t2, n)]
    BY DEF SlicesAreExact
  <1>1. n \in Nat
    BY ViaConstants
  <1>2. Timer1Stepwise[n] = [t |-> Timer1By(t1, n), fired |-> Timer1Fires(t1, n)]
    BY <1>1, Timer1Recursion
  <1>3. Timer2Stepwise[n] = [t |-> Timer2After(t2, n), fired |-> Timer2Fires(t2, n)]
    BY <1>1, Timer2Recursion
  <1>4. t1 \in Timer1 /\ Counting(t1)
    BY DEF TimersOK
  <1>5. /\ Timer1By(t1, n) = [Timer1After(t1, n) EXCEPT !.value = IF TimesOut(n) THEN 0 ELSE @]
        /\ TimesOut(n) => Timer1After(t1, n).value = t1.value - n /\ t1.value <= n
    <2> DEFINE u == Timer1After(t1, n)
    <2>0. /\ t1.value \in Int /\ t1.active \in BOOLEAN /\ t1.pb7 \in BOOLEAN
          /\ t1 = [value |-> t1.value, active |-> t1.active, pb7 |-> t1.pb7, latch |-> t1.latch]
      BY <1>4 DEF Timer1
    <2>1. CASE acr.free
      <3>1. u \in Timer1 /\ u.active = t1.active
        <4>1. acr.pb7 \in BOOLEAN
          BY DEF TimersOK
        <4>2. u \in Timer1
          BY <1>1, <1>4, <4>1, Timer1Stays
        <4>3. u = IF t1.active
                  THEN [t1 EXCEPT !.value = Remaining(t1, n),
                                  !.pb7 = IF acr.pb7 /\ Underflows(t1, n) % 2 = 1 THEN ~@ ELSE @]
                  ELSE t1
          BY <1>1, <1>4, <2>1, FreeTimer1
        <4> HIDE DEF u
        <4>4. u.active = t1.active
          BY <2>0, <4>3
        <4> QED BY <4>2, <4>4
      <3>2. ~TimesOut(n) /\ [u EXCEPT !.value = @] = u
        BY <3>1 DEF TimesOut, Timer1
      <3> QED BY <2>1, <3>2 DEF Timer1By
    <2>2. CASE ~acr.free /\ ~t1.active
      <3>1. u = t1 /\ ~TimesOut(n)
        BY <2>0, <2>2 DEF Timer1After, TimesOut
      <3> QED BY <2>0, <2>2, <3>1 DEF Timer1By
    <2>3. CASE ~acr.free /\ t1.active /\ t1.value > n
      <3>1. u = [t1 EXCEPT !.value = @ - n]
        BY <1>1, <2>0, <2>3 DEF Timer1After
      <3>2. ~TimesOut(n)
        BY <2>0, <2>3, <3>1 DEF TimesOut
      <3> QED BY <2>0, <2>3, <3>1, <3>2 DEF Timer1By
    <2>4. CASE ~acr.free /\ t1.active /\ ~(t1.value > n)
      <3>1. u = [t1 EXCEPT !.value = @ - n, !.active = FALSE, !.pb7 = acr.pb7 \/ @]
        BY <1>1, <2>0, <2>4 DEF Timer1After
      <3>2. TimesOut(n) /\ t1.value <= n /\ u.value = t1.value - n
        BY <1>1, <2>0, <2>4, <3>1 DEF TimesOut
      <3>3. [u EXCEPT !.value = 0] = Stopped(t1)
        BY <2>0, <3>1 DEF Stopped
      <3> QED BY <2>4, <3>2, <3>3 DEF Timer1By
    <2> QED BY <2>1, <2>2, <2>3, <2>4
  <1> QED BY <1>2, <1>3, <1>5

\* A latch is put together of two bytes.
LEMMA LatchIs ==
  ASSUME NEW l \in 0 .. Full - 1, NEW b \in Byte
  PROVE  /\ (b * ByteSize) + (l % ByteSize) \in 0 .. Full - 1
         /\ ((l \div ByteSize) * ByteSize) + b \in 0 .. Full - 1
         /\ b \in 0 .. Full - 1
  <1> DEFINE B == ByteSize
             q == l \div B
             m == l % B
  <1>1. B \in Nat /\ B >= 1 /\ b \in 0 .. B - 1 /\ l \in Nat /\ Full = B * B /\ l < B * B
    BY ViaConstants, FullIsPositive DEF Byte, Full
  <1>2. q \in Int /\ m \in 0 .. B - 1 /\ l = B * q + m
    <2> HIDE DEF B
    <2> QED BY <1>1, NextQuotient
  <1> HIDE DEF B, q, m
  <1>3. \A x \in 0 .. B - 1 : x * B >= 0 /\ x * B <= B * B - B
    <2> SUFFICES ASSUME NEW x \in 0 .. B - 1 PROVE x * B >= 0 /\ x * B <= B * B - B
      OBVIOUS
    <2>1. x * B >= 0 * B
      BY <1>1
    <2>2. x * B <= (B - 1) * B
      BY <1>1
    <2> QED BY <1>1, <2>1, <2>2
  <1>4. q \in 0 .. B - 1
    <2>1. ASSUME q >= B PROVE FALSE
      <3>1. B * q >= B * B
        BY <1>1, <1>2, <2>1
      <3> QED BY <1>1, <1>2, <3>1
    <2>2. ASSUME q <= -1 PROVE FALSE
      <3>1. B * q <= B * (-1)
        BY <1>1, <1>2, <2>2
      <3> QED BY <1>1, <1>2, <3>1
    <2> QED BY <1>1, <1>2, <2>1, <2>2
  <1>5. b * B \in Nat /\ b * B <= B * B - B /\ q * B \in Nat /\ q * B <= B * B - B
    BY <1>1, <1>3, <1>4
  <1>6. (b * B) + m \in 0 .. B * B - 1 /\ (q * B) + b \in 0 .. B * B - 1
    BY <1>1, <1>2, <1>5
  <1>7. B * B >= B
    BY <1>1
  <1>8. b \in 0 .. B * B - 1
    BY <1>1, <1>7
  <1> QED BY <1>1, <1>6, <1>8 DEF B, q, m

LEMMA TimersStep == TimersOK /\ [ViaActs]_allViaVars => TimersOK'
  <1> SUFFICES ASSUME TimersOK, [ViaActs]_allViaVars PROVE TimersOK'
    OBVIOUS
  <1>0. /\ t1 \in Timer1 /\ Counting(t1) /\ t2 \in Timer2 /\ Wrapped(t2)
        /\ acr \in [pb7 : BOOLEAN, free : BOOLEAN, shift : 0 .. 7]
    BY DEF TimersOK
  <1>1. ASSUME UNCHANGED <<timers, acr>> PROVE TimersOK'
    BY <1>0, <1>1 DEF timers, TimersOK, Timer1, Timer2, Counting, Wrapped
  <1>2. ASSUME t1' \in Timer1, Counting(t1'), t2' \in Timer2, Wrapped(t2'), acr' = acr
        PROVE  TimersOK'
    BY <1>0, <1>2 DEF TimersOK, Timer1, Timer2, Counting, Wrapped
  <1>3. \A b \in Byte, l \in 0 .. Full - 1 :
           /\ (b * ByteSize) + (l % ByteSize) \in 0 .. Full - 1
           /\ ((l \div ByteSize) * ByteSize) + b \in 0 .. Full - 1
           /\ b \in 0 .. Full - 1
    BY LatchIs
  <1>4. \A l \in 0 .. Full - 1 : Period(l) \in 1 .. Full /\ Period(l) \in Int /\ Period(l) >= 1
    BY PeriodIs, FullIsPositive
  <1>5. t1.latch \in 0 .. Full - 1 /\ t2.latch \in 0 .. Full - 1
    BY <1>0 DEF Timer1, Timer2
  <1>6. CASE LoadT1
    <2>1. PICK b \in Byte : WriteT1Low(b) \/ WriteT1LatchHigh(b) \/ WriteT1High(b)
      BY <1>6 DEF LoadT1
    <2> DEFINE l == (b * ByteSize) + (t1.latch % ByteSize)
               m == ((t1.latch \div ByteSize) * ByteSize) + b
    <2>2. l \in 0 .. Full - 1 /\ m \in 0 .. Full - 1
      BY <1>3, <1>5
    <2>3. t2' = t2 /\ acr' = acr
      BY <2>1 DEF WriteT1Low, WriteT1LatchHigh, WriteT1High
    <2>4. \/ t1' = [t1 EXCEPT !.latch = m] \/ t1' = [t1 EXCEPT !.latch = l]
          \/ t1' = [value |-> Period(l), active |-> TRUE, pb7 |-> FALSE, latch |-> l]
      BY <2>1 DEF WriteT1Low, WriteT1LatchHigh, WriteT1High
    <2> HIDE DEF l, m
    <2>5. t1' \in Timer1 /\ Counting(t1')
      <3>1. \A k \in 0 .. Full - 1 : [t1 EXCEPT !.latch = k] \in Timer1 /\ Counting([t1 EXCEPT !.latch = k])
        BY <1>0 DEF Timer1, Counting
      <3>2. \A k \in 0 .. Full - 1 :
              /\ [value |-> Period(k), active |-> TRUE, pb7 |-> FALSE, latch |-> k] \in Timer1
              /\ Counting([value |-> Period(k), active |-> TRUE, pb7 |-> FALSE, latch |-> k])
        BY <1>4 DEF Timer1, Counting
      <3> QED BY <2>2, <2>4, <3>1, <3>2
    <2> QED BY <1>0, <1>2, <2>3, <2>5
  <1>7. CASE LoadT2
    <2>1. PICK b \in Byte : WriteT2Low(b) \/ WriteT2High(b)
      BY <1>7 DEF LoadT2
    <2> DEFINE l == (b * ByteSize) + (t2.latch % ByteSize)
    <2>2. l \in 0 .. Full - 1 /\ b \in 0 .. Full - 1
      BY <1>3, <1>5
    <2>3. t1' = t1 /\ acr' = acr
      BY <2>1 DEF WriteT2Low, WriteT2High
    <2>4. \/ t2' = [t2 EXCEPT !.latch = b]
          \/ t2' = [value |-> Period(l), running |-> TRUE, armed |-> TRUE, latch |-> l]
      BY <2>1 DEF WriteT2Low, WriteT2High
    <2> HIDE DEF l
    <2>5. t2' \in Timer2 /\ Wrapped(t2')
      <3>1. [t2 EXCEPT !.latch = b] \in Timer2 /\ Wrapped([t2 EXCEPT !.latch = b])
        BY <1>0, <2>2 DEF Timer2, Wrapped
      <3>2. /\ [value |-> Period(l), running |-> TRUE, armed |-> TRUE, latch |-> l] \in Timer2
            /\ Wrapped([value |-> Period(l), running |-> TRUE, armed |-> TRUE, latch |-> l])
        BY <1>4, <2>2 DEF Timer2, Wrapped
      <3> QED BY <2>4, <3>1, <3>2
    <2> QED BY <1>0, <1>2, <2>3, <2>5
  <1>8. CASE Modeset
    <2>1. PICK a \in [pb7 : BOOLEAN, free : BOOLEAN, shift : 0 .. 7] : WriteACR(a)
      BY <1>8 DEF Modeset
    <2>2. acr' = a /\ t1' = t1 /\ t2' = t2
      BY <2>1 DEF WriteACR, timers
    <2> QED BY <1>0, <2>2 DEF TimersOK, Timer1, Timer2, Counting, Wrapped
  <1>9. CASE Step
    <2>1. PICK n \in StepTicks : ViaStep(n)
      BY <1>9 DEF Step
    <2>2. n \in Nat /\ acr.pb7 \in BOOLEAN
      BY <1>0, ViaConstants
    <2>3. t1' = Timer1After(t1, n) /\ t2' = Timer2After(t2, n) /\ acr' = acr
      BY <2>1 DEF ViaStep
    <2> QED BY <1>0, <1>2, <2>2, <2>3, Timer1Stays, Timer2Steps
  <1>10. CASE ViaReset
    <2> DEFINE z == [value |-> 0, active |-> FALSE, pb7 |-> FALSE, latch |-> 0]
               y == [value |-> 0, running |-> FALSE, armed |-> FALSE, latch |-> 0]
    <2>1. z \in Timer1 /\ Counting(z) /\ y \in Timer2 /\ Wrapped(y)
      BY FullIsPositive DEF Timer1, Timer2, Counting, Wrapped
    <2>2. t1' = z /\ t2' = y /\ acr' = [pb7 |-> FALSE, free |-> FALSE, shift |-> 0]
      BY <1>10 DEF ViaReset
    <2> QED BY <2>1, <2>2 DEF TimersOK, Timer1, Timer2, Counting, Wrapped
  <1>11. CASE HostInput
    BY <1>1, <1>11 DEF HostInput, viaVars
  <1>12. CASE Ack \/ Ports \/ Enables \/ Command
    BY <1>1, <1>12 DEF Ack, Ports, Enables, Command, ReadCounter, ReadSR, AccessPort, WriteIFR,
                       WritePCR, ControlWrite, WriteIER, WriteSR
  <1>13. CASE UNCHANGED allViaVars
    BY <1>1, <1>13 DEF allViaVars, viaVars
  <1> QED BY <1>6, <1>7, <1>8, <1>9, <1>10, <1>11, <1>12, <1>13 DEF ViaActs

LEMMA TimersStart == ViaStart => TimersOK
  <1>1. [value |-> 0, active |-> FALSE, pb7 |-> FALSE, latch |-> 0] \in Timer1
        /\ [value |-> 0, running |-> FALSE, armed |-> FALSE, latch |-> 0] \in Timer2
    BY FullIsPositive DEF Timer1, Timer2
  <1> QED BY <1>1 DEF ViaStart, TimersOK, Counting, Wrapped

\* The timers are exact, whatever the guest loads them with.
THEOREM ViaSlicesAreExact == ViaSpec => []SlicesAreExact
  <1>1. TimersOK /\ [ViaNext]_allViaVars => TimersOK'
    BY ViaNextActs, TimersStep
  <1>2. TimersOK => SlicesAreExact
    BY SlicesFollow
  <1>3. ViaStart => TimersOK
    BY TimersStart
  <1> QED BY <1>1, <1>2, <1>3, PTL DEF ViaSpec
(***************************************************************************)
(* The poll.  Protocol says where an edge taken from the host is, at each  *)
(* point of the guest's inquiry: in the response, behind an announced      *)
(* keypad key, or nowhere.                                                 *)
(***************************************************************************)
Announced(e) == IF IsKeypad(e) THEN KeypadFollows ELSE Code(e, 0)
Kept(e) == kbdInstantResponse = Code(e, KeypadBase)
Response == IF rom = "receiving" /\ srPhase = "SR_IDLE" THEN sr ELSE kbdResponse

ForInstant(e) == IsKeypad(e) /\ taken = <<e>> /\ Response = Code(e, KeypadBase)
ForInquiry(e) == taken = <<e>> /\ Response = Announced(e) /\ (IsKeypad(e) => Kept(e))

Phases ==
    /\ rom \in {"idle", "send", "sending", "receiving"}
    /\ rom = "send" => acr.shift = 7
    /\ rom \in {"idle", "send"} => srPhase = "SR_IDLE"
    /\ rom = "sending" => srPhase = "SR_WAIT_FOR_RX_MODE" \/ (srPhase = "SR_TX_ACTIVE" /\ "SR" \notin ifr)
    /\ rom = "receiving" => srPhase = "SR_IDLE" \/ (srPhase = "SR_RX_ACTIVE" /\ "SR" \notin ifr)

Between ==
    rom \in {"idle", "send"} =>
        \/ instant = FALSE /\ taken = <<>>
        \/ instant = TRUE /\ \E e \in KeyEvent : IsKeypad(e) /\ taken = <<e>> /\ Kept(e)

Asked ==
    rom \in {"sending", "receiving"} =>
        \/ instant = FALSE /\ taken = <<>> /\ Response = KBD_NULL
        \/ instant = FALSE /\ kbdInquiryPending = FALSE /\ \E e \in KeyEvent : ForInquiry(e)
        \/ instant = TRUE /\ kbdInquiryPending = FALSE /\ \E e \in KeyEvent : ForInstant(e)

Protocol == Phases /\ Between /\ Asked
\* The byte of a key decodes to the key.
LEMMA CodeIs ==
  ASSUME NEW e \in KeyEvent, NEW base, base = IF IsKeypad(e) THEN KeypadBase ELSE 0
  PROVE  LET c == Code(e, base)
         IN  /\ ((c % 128) \div 2) + base = e.scancode
             /\ (c >= 128) = e.isRelease
             /\ c \notin {KBD_NULL, KeypadFollows}
  <1> DEFINE x == e.scancode - base
             c == Code(e, base)
  <1>1. e.scancode \in 0 .. NumKeys - 1 /\ e.isRelease \in BOOLEAN
    BY DEF KeyEvent, Key
  <1>2. KeypadBase \in Nat /\ KeypadBase <= 64 /\ NumKeys <= KeypadBase + 64 /\ NumKeys \in Nat
    BY KeyboardConstants, ViaConstants, HostKeyRingConstants
  <1>3. base \in Nat /\ x \in 0 .. 63 /\ x + base = e.scancode
    <2>1. CASE IsKeypad(e)
      BY <1>1, <1>2, <2>1 DEF IsKeypad
    <2>2. CASE ~IsKeypad(e)
      BY <1>1, <1>2, <2>2 DEF IsKeypad
    <2> QED BY <2>1, <2>2
  <1>4. c = 2 * x + (IF e.isRelease THEN 128 ELSE 0)
    BY DEF Code
  <1> HIDE DEF x, c
  <1>5. CASE e.isRelease = TRUE
    <2>1. c = 2 * x + 128
      BY <1>4, <1>5
    <2>2. c % 128 = 2 * x /\ (2 * x) \div 2 = x /\ c >= 128 /\ c # 123 /\ c # 121
      BY <1>3, <2>1
    <2>3. ((c % 128) \div 2) + base = e.scancode
      BY <1>3, <2>2
    <2> QED BY <1>5, <2>2, <2>3 DEF c, KBD_NULL, KeypadFollows
  <1>6. CASE e.isRelease = FALSE
    <2>1. c = 2 * x
      BY <1>3, <1>4, <1>6
    <2>2. c % 128 = 2 * x /\ (2 * x) \div 2 = x /\ ~(c >= 128) /\ c # 123 /\ c # 121
      BY <1>3, <2>1
    <2>3. ((c % 128) \div 2) + base = e.scancode
      BY <1>3, <2>2
    <2>4. (c >= 128) = FALSE
      BY <2>2
    <2> QED BY <1>6, <2>2, <2>3, <2>4 DEF c, KBD_NULL, KeypadFollows
  <1> QED BY <1>1, <1>5, <1>6

LEMMA TrackIs ==
  ASSUME HostKeysTypeOK, Track
  PROVE  /\ HostPopKeyEvent => taken' = Append(taken, Head(keyQueue)) /\ Head(keyQueue) \in KeyEvent
         /\ UNCHANGED hostKeysVars => taken' = taken
  <1>1. ring \in Rings /\ keyQueue = QueueOf(ring)
    BY TypesAreRings, QueueOfRing
  <1>2. ASSUME HostPopKeyEvent
        PROVE  taken' = Append(taken, Head(keyQueue)) /\ Head(keyQueue) \in KeyEvent
    <2>1. keyTail \in Index /\ Next1(keyTail) \in Index
      BY NextIs DEF HostKeysTypeOK
    <2>2. /\ ring' \in Rings
          /\ ring'.slots = ring.slots /\ ring'.head = ring.head /\ ring'.tail = Next1(ring.tail)
          /\ ring.head # ring.tail
      BY <1>2, <2>1 DEF HostPopKeyEvent, HostKeysTypeOK, ring, Rings
    <2>3. QueueOf(ring) # <<>> /\ QueueOf(ring') = Tail(QueueOf(ring)) /\ QueueOf(ring) \in Seq(KeyEvent)
      BY <1>1, <2>2, PopIs, QueueIs
    <2>4. keyQueue' = QueueOf(ring')
      BY DEF keyQueue, QueueOf
    <2> DEFINE q == QueueOf(ring)
    <2>5. q \in Seq(KeyEvent) /\ q # <<>>
      BY <2>3
    <2> HIDE DEF q
    <2>6. Tail(q) # q /\ Head(q) \in KeyEvent
      BY <2>5
    <2> QED BY <1>1, <2>3, <2>4, <2>6 DEF Track, q
  <1>3. UNCHANGED hostKeysVars => taken' = taken
    <2>1. UNCHANGED hostKeysVars => ring' = ring
      BY DEF hostKeysVars, ring
    <2>2. ring' = ring => keyQueue' = keyQueue
      BY DEF keyQueue
    <2> QED BY <2>1, <2>2 DEF Track
  <1> QED BY <1>2, <1>3

LEMMA PollStep ==
  ASSUME Protocol, HostKeysTypeOK, [KeyboardNext]_keyboardVars
  PROVE  Protocol'
  <1>0. Phases /\ Between /\ Asked
    BY DEF Protocol
  <1>1. CASE RomTransmitMode
    <2>1. rom = "idle" /\ rom' = "send" /\ instant' = instant /\ Track
      BY <1>1 DEF RomTransmitMode
    <2>2. acr' = Shift(7) /\ Shift(7).shift = 7
      BY <1>1 DEF RomTransmitMode, WriteACR, Shift
    <2>3. UNCHANGED <<irqs, shift, hostKeysVars>>
      BY <1>1, <2>2 DEF RomTransmitMode, WriteACR
    <2>4. taken' = taken /\ srPhase' = srPhase /\ kbdInstantResponse' = kbdInstantResponse
      BY <2>1, <2>3, TrackIs DEF shift
    <2> QED BY <1>0, <2>1, <2>2, <2>4 DEF Protocol, Phases, Between, Asked, Kept
  <1>2. CASE RomCommand
    <2>1. rom = "send" /\ rom' = "sending" /\ instant' = instant /\ Track /\ acr.shift = 7 /\ acr' = acr
      BY <1>0, <1>2 DEF RomCommand, Phases, WriteSR
    <2>2. srPhase' = "SR_TX_ACTIVE" /\ ifr' = ifr \ {"SR"}
          /\ RespondToCommand(IF instant THEN "Instant" ELSE "Inquiry")
      BY <1>2, <2>1 DEF RomCommand, WriteSR, ClearFlags, CheckIrq
    <2>3. Response' = kbdResponse'
      BY <2>1 DEF Response
    <2>4. Phases' /\ Between'
      BY <2>1, <2>2 DEF Phases, Between
    <2>5. CASE instant = TRUE
      <3>1. kbdResponse' = kbdInstantResponse /\ kbdInquiryPending' = FALSE /\ UNCHANGED hostKeysVars
        BY <2>2, <2>5 DEF RespondToCommand
      <3>2. taken' = taken
        BY <2>1, <3>1, TrackIs
      <3>3. PICK e \in KeyEvent : IsKeypad(e) /\ taken = <<e>> /\ Kept(e)
        BY <1>0, <2>1, <2>5 DEF Between
      <3>4. ForInstant(e)'
        BY <2>3, <3>1, <3>2, <3>3 DEF ForInstant, Kept, IsKeypad, Code
      <3>5. Asked'
        BY <2>1, <2>5, <3>1, <3>4 DEF Asked
      <3> QED BY <2>4, <3>5 DEF Protocol
    <2>6. CASE instant = FALSE /\ taken = <<>>
      <3>1. CASE keyQueue # <<>> /\ Answer(Head(keyQueue)) /\ HostPopKeyEvent /\ kbdInquiryPending' = FALSE
        <4>1. PICK e \in KeyEvent : e = Head(keyQueue) /\ taken' = <<e>>
          BY <2>1, <2>6, <3>1, TrackIs
        <4>2. kbdResponse' = Announced(e) /\ (IsKeypad(e) => kbdInstantResponse' = Code(e, KeypadBase))
          BY <3>1, <4>1 DEF Answer, Announced
        <4>3. ForInquiry(e)'
          BY <2>3, <4>1, <4>2 DEF ForInquiry, Kept, Announced, IsKeypad, Code
        <4>4. Asked'
          BY <2>1, <2>6, <3>1, <4>1, <4>3 DEF Asked
        <4> QED BY <2>4, <4>4 DEF Protocol
      <3>2. CASE kbdResponse' = KBD_NULL /\ UNCHANGED hostKeysVars
        <4>1. taken' = taken
          BY <2>1, <3>2, TrackIs
        <4>2. Asked'
          BY <2>1, <2>3, <2>6, <3>2, <4>1 DEF Asked, KBD_NULL
        <4> QED BY <2>4, <4>2 DEF Protocol
      <3> QED BY <2>2, <2>6, <3>1, <3>2 DEF RespondToCommand
    <2> QED BY <1>0, <2>1, <2>5, <2>6 DEF Between
  <1>3. CASE RomReceiveMode
    <2>1. rom = "sending" /\ rom' = "receiving" /\ instant' = instant /\ Track /\ "SR" \in ifr
      BY <1>3 DEF RomReceiveMode
    <2>2. srPhase = "SR_WAIT_FOR_RX_MODE"
      BY <1>0, <2>1 DEF Phases
    <2>3. StartSrReceive
      BY <1>3, <2>2 DEF RomReceiveMode, WriteACR, Shift
    <2>4. srPhase' = "SR_RX_ACTIVE" /\ ifr' = ifr \ {"SR"}
      BY <2>3 DEF StartSrReceive, CheckIrq
    <2>5. Response = kbdResponse /\ Response' = kbdResponse'
      BY <2>1, <2>4 DEF Response
    <2>6. Phases' /\ Between'
      BY <2>1, <2>4 DEF Phases, Between
    <2>7. CASE kbdInquiryPending /\ Answer(Head(keyQueue)) /\ HostPopKeyEvent /\ kbdInquiryPending' = FALSE
      <3>0. instant = FALSE /\ taken = <<>>
        BY <1>0, <2>1, <2>7 DEF Asked
      <3>1. PICK e \in KeyEvent : e = Head(keyQueue) /\ taken' = <<e>>
        BY <2>1, <2>7, <3>0, TrackIs
      <3>2. kbdResponse' = Announced(e) /\ (IsKeypad(e) => kbdInstantResponse' = Code(e, KeypadBase))
        BY <2>7, <3>1 DEF Answer, Announced
      <3>3. ForInquiry(e)'
        BY <2>5, <3>1, <3>2 DEF ForInquiry, Kept, Announced, IsKeypad, Code
      <3>4. Asked'
        BY <2>1, <2>7, <3>0, <3>1, <3>3 DEF Asked
      <3> QED BY <2>6, <3>4 DEF Protocol
    <2>8. CASE UNCHANGED <<kbdResponse, kbdInstantResponse, kbdInquiryPending, hostKeysVars>>
      <3>1. taken' = taken
        BY <2>1, <2>8, TrackIs
      <3>2. Asked'
        BY <1>0, <2>1, <2>5, <2>8, <3>1
           DEF Asked, ForInquiry, ForInstant, Kept, Announced, IsKeypad, Code, KBD_NULL
      <3> QED BY <2>6, <3>2 DEF Protocol
    <2> QED BY <2>3, <2>7, <2>8 DEF StartSrReceive
  <1>4. CASE RomReceive
    <2>1. rom = "receiving" /\ rom' = "idle" /\ "SR" \in ifr /\ instant' = (sr = KeypadFollows)
      BY <1>4 DEF RomReceive
    <2>2. srPhase = "SR_IDLE" /\ Response = sr
      BY <1>0, <2>1 DEF Phases, Response
    <2>3. srPhase' = srPhase /\ kbdInstantResponse' = kbdInstantResponse
      BY <1>4 DEF RomReceive, ReadSR, shift
    <2>4. \/ IsEdge(sr) /\ taken' = IF taken = <<>> THEN taken ELSE Tail(taken)
          \/ ~IsEdge(sr) /\ taken' = taken
      BY <1>4 DEF RomReceive
    <2>5. Phases' /\ Asked'
      BY <2>1, <2>2, <2>3 DEF Phases, Asked
    <2>6. CASE instant = FALSE /\ taken = <<>> /\ Response = KBD_NULL
      <3>1. ~IsEdge(sr) /\ sr # KeypadFollows
        BY <2>2, <2>6 DEF IsEdge, KBD_NULL, KeypadFollows
      <3> QED BY <2>1, <2>4, <2>5, <2>6, <3>1 DEF Protocol, Between
    <2>7. CASE instant = FALSE /\ \E e \in KeyEvent : ForInquiry(e)
      <3>1. PICK e \in KeyEvent : ForInquiry(e)
        BY <2>7
      <3>2. CASE IsKeypad(e)
        <4>1. sr = KeypadFollows /\ ~IsEdge(sr) /\ taken = <<e>> /\ Kept(e)
          BY <2>2, <3>1, <3>2 DEF ForInquiry, Announced, IsEdge
        <4>2. instant' = TRUE /\ taken' = <<e>> /\ Kept(e)'
          BY <2>1, <2>3, <2>4, <4>1 DEF Kept, Code
        <4> QED BY <2>1, <2>5, <3>2, <4>2 DEF Protocol, Between, IsKeypad
      <3>3. CASE ~IsKeypad(e)
        <4>1. sr = Code(e, 0) /\ taken = <<e>>
          BY <2>2, <3>1, <3>3 DEF ForInquiry, Announced
        <4>2. sr # KeypadFollows /\ IsEdge(sr)
          BY <3>3, <4>1, CodeIs DEF IsEdge
        <4>3. taken' = <<>>
          BY <2>4, <4>1, <4>2
        <4>4. instant' = FALSE
          BY <2>1, <4>2
        <4> QED BY <2>1, <2>5, <4>3, <4>4 DEF Protocol, Between
      <3> QED BY <3>2, <3>3
    <2>8. CASE instant = TRUE /\ \E e \in KeyEvent : ForInstant(e)
      <3>1. PICK e \in KeyEvent : ForInstant(e)
        BY <2>8
      <3>2. sr = Code(e, KeypadBase) /\ taken = <<e>> /\ IsKeypad(e)
        BY <2>2, <3>1 DEF ForInstant
      <3>3. sr # KeypadFollows /\ IsEdge(sr)
        BY <3>2, CodeIs DEF IsEdge
      <3>4. taken' = <<>>
        BY <2>4, <3>2, <3>3
      <3>5. instant' = FALSE
        BY <2>1, <3>3
      <3> QED BY <2>1, <2>5, <3>4, <3>5 DEF Protocol, Between
    <2> QED BY <1>0, <2>1, <2>6, <2>7, <2>8 DEF Asked
  <1>5. CASE TimePasses
    <2>1. PICK n \in StepTicks : ViaStep(n)
      BY <1>5 DEF TimePasses
    <2>2. rom' = rom /\ instant' = instant /\ acr' = acr /\ Track /\ StepShiftRegister(n)
      BY <1>5, <2>1 DEF TimePasses, guestVars, ViaStep
    <2>3. "SR" \in ifr' => "SR" \in ifr \/ (ShiftDone(n) /\ srPhase \in {"SR_TX_ACTIVE", "SR_RX_ACTIVE"})
      BY <2>1 DEF ViaStep, CheckIrq
    <2>4. srPhase' = IF ShiftDone(n) THEN PhaseAfter ELSE srPhase
      BY <2>2 DEF StepShiftRegister
    <2>5. Phases'
      BY <1>0, <2>2, <2>3, <2>4 DEF Phases, PhaseAfter
    <2>6. CASE srPhase # "SR_RX_ACTIVE"
      <3>1. ~FillsInquiry
        BY <2>6 DEF FillsInquiry
      <3>2. UNCHANGED <<kbdResponse, kbdInstantResponse, hostKeysVars>>
        BY <2>2, <3>1 DEF StepShiftRegister
      <3>3. taken' = taken
        BY <2>2, <3>2, TrackIs
      <3>4. sr' = sr /\ (kbdInquiryPending = FALSE => kbdInquiryPending' = FALSE)
        BY <2>2, <2>6 DEF StepShiftRegister
      <3>5. rom = "receiving" => srPhase = "SR_IDLE" /\ srPhase' = "SR_IDLE"
        BY <1>0, <2>4, <2>6 DEF Phases, PhaseAfter
      <3>6. Response' = Response
        BY <2>2, <3>2, <3>4, <3>5 DEF Response
      <3>7. Between' /\ Asked'
        BY <1>0, <2>2, <3>2, <3>3, <3>4, <3>6
           DEF Between, Asked, ForInquiry, ForInstant, Kept, Announced, IsKeypad, Code, KBD_NULL
      <3> QED BY <2>5, <3>7 DEF Protocol
    <2>7. CASE srPhase = "SR_RX_ACTIVE"
      <3>1. rom = "receiving" /\ Response = kbdResponse
        BY <1>0, <2>7 DEF Phases, Response
      <3>2. Between'
        BY <2>2, <3>1 DEF Between
      <3>3. Response' = kbdResponse'
        BY <2>2, <2>4, <2>7, <3>1 DEF Response, StepShiftRegister, PhaseAfter
      <3>4. CASE FillsInquiry
        <4>0. instant = FALSE /\ taken = <<>>
          BY <1>0, <3>1, <3>4 DEF Asked, FillsInquiry
        <4>1. PICK e \in KeyEvent : e = Head(keyQueue) /\ taken' = <<e>> /\ Answer(e)
          BY <2>2, <3>4, <4>0, TrackIs DEF StepShiftRegister
        <4>2. kbdResponse' = Announced(e) /\ (IsKeypad(e) => kbdInstantResponse' = Code(e, KeypadBase))
          BY <4>1 DEF Answer, Announced
        <4>3. kbdInquiryPending' = FALSE
          BY <2>2, <3>4 DEF StepShiftRegister
        <4>4. ForInquiry(e)'
          BY <3>3, <4>1, <4>2 DEF ForInquiry, Kept, Announced, IsKeypad, Code
        <4>5. Asked'
          BY <2>2, <3>1, <4>0, <4>3, <4>4 DEF Asked
        <4> QED BY <2>5, <3>2, <4>5 DEF Protocol
      <3>5. CASE ~FillsInquiry
        <4>1. UNCHANGED <<kbdResponse, kbdInstantResponse, hostKeysVars>>
          BY <2>2, <3>5 DEF StepShiftRegister
        <4>2. taken' = taken
          BY <2>2, <4>1, TrackIs
        <4>3. kbdInquiryPending = FALSE => kbdInquiryPending' = FALSE
          BY <2>2 DEF StepShiftRegister
        <4>4. Asked'
          BY <1>0, <2>2, <3>1, <3>3, <4>1, <4>2, <4>3
             DEF Asked, ForInquiry, ForInstant, Kept, Announced, IsKeypad, Code, KBD_NULL
        <4> QED BY <2>5, <3>2, <4>4 DEF Protocol
      <3> QED BY <3>4, <3>5
    <2> QED BY <2>6, <2>7
  <1>6. CASE Client
    <2>1. UNCHANGED <<viaVars, guestVars, taken>>
      BY <1>6 DEF Client
    <2> QED BY <1>0, <2>1 DEF viaVars, guestVars, irqs, shift, Protocol, Phases, Between, Asked, Kept,
                ForInquiry, ForInstant, Announced, Response, IsKeypad, Code, KBD_NULL
  <1>7. CASE MachineReset
    <2>1. rom' = "idle" /\ instant' = FALSE /\ taken' = <<>> /\ srPhase' = "SR_IDLE"
      BY <1>7 DEF MachineReset, ViaReset
    <2> QED BY <2>1 DEF Protocol, Phases, Between, Asked
  <1>8. CASE UNCHANGED keyboardVars
    <2>1. UNCHANGED <<viaVars, guestVars, taken>>
      BY <1>8 DEF keyboardVars, allViaVars
    <2> QED BY <1>0, <2>1 DEF viaVars, guestVars, irqs, shift, Protocol, Phases, Between, Asked, Kept,
                ForInquiry, ForInstant, Announced, Response, IsKeypad, Code, KBD_NULL
  <1> QED BY <1>1, <1>2, <1>3, <1>4, <1>5, <1>6, <1>7, <1>8 DEF KeyboardNext, Rom
LEMMA PollStart == KeyboardInit => Protocol /\ HostKeysTypeOK
  <1> SUFFICES ASSUME KeyboardInit PROVE Protocol /\ HostKeysTypeOK
    OBVIOUS
  <1>1. HostKeysTypeOK
    BY KeysStart DEF KeyboardInit, ViaStart
  <1>2. rom = "idle" /\ instant = FALSE /\ taken = <<>> /\ srPhase = "SR_IDLE"
    BY DEF KeyboardInit, ViaStart
  <1> QED BY <1>1, <1>2 DEF Protocol, Phases, Between, Asked

LEMMA PollDelivers ==
  ASSUME Protocol, RomReceive
  PROVE  /\ IsEdge(sr) => taken # <<>> /\ Decoded(sr) = Head(taken)
         /\ sr = KBD_NULL => taken = <<>>
  <1>0. Phases /\ Asked
    BY DEF Protocol
  <1>1. rom = "receiving" /\ "SR" \in ifr
    BY DEF RomReceive
  <1>2. Response = sr
    BY <1>0, <1>1 DEF Phases, Response
  <1>3. CASE taken = <<>> /\ Response = KBD_NULL
    BY <1>2, <1>3 DEF IsEdge
  <1>4. ASSUME NEW e \in KeyEvent, taken = <<e>>, NEW base, sr = Code(e, base),
               base = (IF IsKeypad(e) THEN KeypadBase ELSE 0),
               base = (IF instant THEN KeypadBase ELSE 0)
        PROVE  IsEdge(sr) /\ sr # KBD_NULL /\ Decoded(sr) = Head(taken)
    <2>1. /\ ((sr % 128) \div 2) + base = e.scancode /\ (sr >= 128) = e.isRelease
          /\ sr \notin {KBD_NULL, KeypadFollows}
      BY <1>4, CodeIs
    <2>2. e = [scancode |-> e.scancode, isRelease |-> e.isRelease]
      BY DEF KeyEvent
    <2>3. Decoded(sr) = [scancode |-> ((sr % 128) \div 2) + base, isRelease |-> (sr >= 128)]
      BY <1>4 DEF Decoded, Edge
    <2>4. Decoded(sr) = e
      BY <2>1, <2>2, <2>3
    <2> QED BY <1>4, <2>1, <2>4 DEF IsEdge
  <1>5. CASE instant = FALSE /\ \E e \in KeyEvent : ForInquiry(e)
    <2>1. PICK e \in KeyEvent : ForInquiry(e)
      BY <1>5
    <2>2. CASE IsKeypad(e)
      <3>1. sr = KeypadFollows /\ taken = <<e>>
        BY <1>2, <2>1, <2>2 DEF ForInquiry, Announced
      <3> QED BY <3>1 DEF IsEdge, KeypadFollows, KBD_NULL
    <2>3. CASE ~IsKeypad(e)
      <3>1. sr = Code(e, 0) /\ taken = <<e>>
        BY <1>2, <2>1, <2>3 DEF ForInquiry, Announced
      <3>2. IsEdge(sr) /\ sr # KBD_NULL /\ Decoded(sr) = Head(taken)
        BY <1>4, <1>5, <2>3, <3>1
      <3> QED BY <3>1, <3>2
    <2> QED BY <2>2, <2>3
  <1>6. CASE instant = TRUE /\ \E e \in KeyEvent : ForInstant(e)
    <2>1. PICK e \in KeyEvent : ForInstant(e)
      BY <1>6
    <2>2. sr = Code(e, KeypadBase) /\ taken = <<e>> /\ IsKeypad(e)
      BY <1>2, <2>1 DEF ForInstant
    <2>3. IsEdge(sr) /\ sr # KBD_NULL /\ Decoded(sr) = Head(taken)
      BY <1>4, <1>6, <2>2
    <2> QED BY <2>2, <2>3
  <1> QED BY <1>0, <1>1, <1>3, <1>5, <1>6 DEF Asked

LEMMA TypesStay == HostKeysTypeOK /\ [KeyboardNext]_keyboardVars => HostKeysTypeOK'
  BY KeysStep, KeyboardNextActs, ActsOnKeys

\* Every edge the VIA takes from the host is read by the polling guest once, in order,
\* as the key and the direction it was: through inquiries that wait for a key,
\* that time out, and that announce a keypad key.
THEOREM EdgesReachGuest == KeyboardSpec => EachEdgeOnce
  <1> DEFINE Told == RomReceive => /\ IsEdge(sr) => taken # <<>> /\ Decoded(sr) = Head(taken)
                                   /\ sr = KBD_NULL => taken = <<>>
  <1>1. KeyboardInit => Protocol /\ HostKeysTypeOK
    BY PollStart
  <1>2. Protocol /\ HostKeysTypeOK /\ [KeyboardNext]_keyboardVars => Protocol' /\ HostKeysTypeOK'
    BY PollStep, TypesStay
  <1>3. Protocol /\ HostKeysTypeOK /\ [KeyboardNext]_keyboardVars => [Told]_keyboardVars
    BY PollDelivers
  <1> QED BY <1>1, <1>2, <1>3, PTL DEF KeyboardSpec, EachEdgeOnce
(***************************************************************************)
(* The types.                                                              *)
(***************************************************************************)
Ticks == 0 .. TransferTicks \cup 0 .. InquiryWaitTicks
ShiftTypes ==
    /\ srPhase \in {"SR_IDLE", "SR_TX_ACTIVE", "SR_WAIT_FOR_RX_MODE", "SR_RX_ACTIVE"}
    /\ srTicks \in Ticks
    /\ kbdInquiryPending \in BOOLEAN
    /\ kbdInquiryPending = TRUE => kbdResponse = KBD_NULL /\ srPhase # "SR_IDLE"

FlagTypes == ifr \subseteq Source /\ ier \subseteq Source /\ irqFlag \in BOOLEAN /\ irqAsserted \in BOOLEAN

TimerBounds == t1.value <= Full /\ t2.value \in 0 .. Full

LEMMA ShiftTypesStep == ShiftTypes /\ [ViaActs]_allViaVars => ShiftTypes'
  <1> SUFFICES ASSUME ShiftTypes, [ViaActs]_allViaVars PROVE ShiftTypes'
    OBVIOUS
  <1>0. TransferTicks \in Nat \ {0} /\ InquiryWaitTicks \in Nat \ {0}
    BY ViaConstants
  <1>9. 0 \in Ticks /\ TransferTicks \in Ticks /\ InquiryWaitTicks \in Ticks
    BY <1>0 DEF Ticks
  <1>1. ASSUME UNCHANGED shift PROVE ShiftTypes'
    BY <1>1 DEF shift, ShiftTypes, KBD_NULL
  <1>2. CASE HostInput
    BY <1>1, <1>2 DEF HostInput, viaVars
  <1>3. CASE LoadT1 \/ LoadT2 \/ Ack \/ Ports \/ Enables
    BY <1>1, <1>3 DEF LoadT1, LoadT2, Ack, Ports, Enables, WriteT1Low, WriteT1LatchHigh, WriteT1High,
                WriteT2Low, WriteT2High, ReadCounter, ReadSR, AccessPort, WriteIFR, WritePCR,
                ControlWrite, WriteIER
  <1>4. CASE Modeset
    <2>1. PICK a : WriteACR(a)
      BY <1>4 DEF Modeset
    <2>2. CASE StartSrReceive
      <3>1. srPhase' = "SR_RX_ACTIVE" /\ srTicks' \in {TransferTicks, InquiryWaitTicks}
        BY <2>2 DEF StartSrReceive
      <3>2. \/ kbdInquiryPending' = FALSE
            \/ kbdResponse' = kbdResponse /\ kbdInquiryPending' = kbdInquiryPending
        BY <2>2 DEF StartSrReceive
      <3> QED BY <1>9, <3>1, <3>2 DEF ShiftTypes, KBD_NULL
    <2>3. CASE UNCHANGED shift
      BY <1>1, <2>3
    <2> QED BY <2>1, <2>2, <2>3 DEF WriteACR
  <1>5. CASE Step
    <2>1. PICK n \in StepTicks : ViaStep(n)
      BY <1>5 DEF Step
    <2>2. n \in Nat /\ n >= 1 /\ StepShiftRegister(n)
      BY <2>1, ViaConstants DEF ViaStep
    <2>3. srPhase' = IF ShiftDone(n) THEN PhaseAfter ELSE srPhase
      BY <2>2 DEF StepShiftRegister
    <2>4. srPhase' \in {"SR_IDLE", "SR_TX_ACTIVE", "SR_WAIT_FOR_RX_MODE", "SR_RX_ACTIVE"}
      BY <2>3 DEF PhaseAfter, ShiftTypes
    <2>5. srTicks' \in Ticks
      <3>1. srTicks' = IF srTicks = 0 \/ ShiftDone(n) THEN 0 ELSE TicksLeft - n
        BY <2>2 DEF StepShiftRegister
      <3>2. TicksLeft \in Ticks /\ srTicks \in Nat /\ Ticks \subseteq Nat
        BY <1>0, <1>9 DEF TicksLeft, ShiftTypes, Ticks
      <3>3. CASE srTicks = 0 \/ ShiftDone(n)
        BY <1>9, <3>1, <3>3
      <3>4. CASE ~(srTicks = 0 \/ ShiftDone(n))
        <4>1. ~(TicksLeft <= n)
          BY <3>2, <3>4 DEF ShiftDone
        <4> QED BY <1>0, <2>2, <3>1, <3>2, <3>4, <4>1 DEF Ticks
      <3> QED BY <3>3, <3>4
    <2>6. kbdInquiryPending' = (kbdInquiryPending /\ ~FillsInquiry /\ ~(ShiftDone(n) /\ srPhase = "SR_RX_ACTIVE"))
      BY <2>2 DEF StepShiftRegister
    <2>7. ASSUME kbdInquiryPending' = TRUE PROVE kbdResponse' = KBD_NULL /\ srPhase' # "SR_IDLE"
      <3>1. kbdInquiryPending = TRUE /\ ~FillsInquiry /\ ~(ShiftDone(n) /\ srPhase = "SR_RX_ACTIVE")
        BY <2>6, <2>7 DEF ShiftTypes
      <3>2. kbdResponse' = kbdResponse
        BY <2>2, <3>1 DEF StepShiftRegister
      <3>3. srPhase' # "SR_IDLE"
        BY <2>3, <3>1 DEF PhaseAfter, ShiftTypes
      <3> QED BY <3>1, <3>2, <3>3 DEF ShiftTypes
    <2>8. kbdInquiryPending' \in BOOLEAN
      BY <2>6
    <2> QED BY <2>4, <2>5, <2>7, <2>8 DEF ShiftTypes, KBD_NULL
  <1>6. CASE Command
    <2>1. PICK c : WriteSR(c)
      BY <1>6 DEF Command
    <2>2. CASE acr.shift = 7
      <3>1. srPhase' = "SR_TX_ACTIVE" /\ srTicks' = TransferTicks /\ RespondToCommand(c)
        BY <2>1, <2>2 DEF WriteSR
      <3>2. \/ kbdInquiryPending' = FALSE
            \/ kbdResponse' = KBD_NULL /\ kbdInquiryPending' = TRUE
        BY <3>1 DEF RespondToCommand
      <3> QED BY <1>9, <3>1, <3>2 DEF ShiftTypes, KBD_NULL
    <2>3. CASE acr.shift = 6
      <3>1. acr.shift # 7 /\ ~(acr.shift \notin {6, 7})
        BY <2>3
      <3>2. kbdInquiryPending' = FALSE /\ srPhase' = "SR_IDLE" /\ srTicks' = 0
        BY <2>1, <3>1 DEF WriteSR
      <3> QED BY <1>9, <3>2 DEF ShiftTypes
    <2>4. CASE acr.shift \notin {6, 7}
      BY <2>1, <2>4 DEF WriteSR, ShiftTypes, KBD_NULL
    <2> QED BY <2>2, <2>3, <2>4
  <1>7. CASE ViaReset
    BY <1>9, <1>7 DEF ViaReset, ShiftTypes
  <1>8. CASE UNCHANGED allViaVars
    BY <1>1, <1>8 DEF allViaVars, viaVars
  <1> QED BY <1>2, <1>3, <1>4, <1>5, <1>6, <1>7, <1>8 DEF ViaActs

LEMMA FlagTypesStep == FlagTypes /\ [ViaActs]_allViaVars => FlagTypes'
  <1> SUFFICES ASSUME FlagTypes, [ViaActs]_allViaVars PROVE FlagTypes'
    OBVIOUS
  <1>1. ASSUME NEW new, CheckIrq(new, ier'), new \subseteq Source, ier' \subseteq Source PROVE FlagTypes'
    BY <1>1 DEF CheckIrq, FlagTypes
  <1>2. ASSUME UNCHANGED <<irqs, ier>> PROVE FlagTypes'
    BY <1>2 DEF irqs, FlagTypes
  <1>3. ASSUME NEW flags, ClearFlags(flags), ier' = ier PROVE FlagTypes'
    BY <1>1, <1>3 DEF ClearFlags, FlagTypes
  <1>4. CASE HostInput
    BY <1>2, <1>4 DEF HostInput, viaVars
  <1>5. CASE LoadT1 \/ LoadT2
    BY <1>2, <1>3, <1>5 DEF LoadT1, LoadT2, WriteT1Low, WriteT1LatchHigh, WriteT1High,
                            WriteT2Low, WriteT2High
  <1>6. CASE Modeset
    <2>1. PICK a : WriteACR(a)
      BY <1>6 DEF Modeset
    <2>2. CASE StartSrReceive
      BY <1>3, <2>1, <2>2 DEF WriteACR, StartSrReceive, ClearFlags
    <2>3. CASE UNCHANGED irqs
      BY <1>2, <2>1, <2>3 DEF WriteACR
    <2> QED BY <2>1, <2>2, <2>3 DEF WriteACR
  <1>7. CASE Step
    <2>1. PICK n \in StepTicks : ViaStep(n)
      BY <1>7 DEF Step
    <2>2. PICK new : new \subseteq ifr \cup {"T1", "T2", "SR"} /\ CheckIrq(new, ier) /\ ier' = ier
      BY <2>1 DEF ViaStep
    <2>3. new \subseteq Source
      BY <2>2 DEF FlagTypes, Source
    <2> QED BY <1>1, <2>2, <2>3 DEF FlagTypes
  <1>8. CASE Ack
    BY <1>3, <1>8 DEF Ack, ReadCounter, ReadSR, AccessPort, WriteIFR
  <1>9. CASE Ports
    <2>1. CASE \E modes : WritePCR(modes)
      BY <1>2, <2>1 DEF WritePCR
    <2>2. ASSUME NEW line \in Line, NEW level, ControlWrite(line, level) PROVE FlagTypes'
      <3>1. ifr \cup {line} \subseteq Source
        BY DEF FlagTypes, Source, Line
      <3>2. ier' = ier /\ (CheckIrq(ifr \cup {line}, ier) \/ UNCHANGED irqs)
        BY <2>2 DEF ControlWrite
      <3> QED BY <1>1, <1>2, <3>1, <3>2 DEF FlagTypes
    <2> QED BY <1>9, <2>1, <2>2 DEF Ports
  <1>10. CASE Enables
    <2>1. PICK flags \in SUBSET Source, enable \in BOOLEAN : WriteIER(flags, enable)
      BY <1>10 DEF Enables
    <2>2. ier' \subseteq Source /\ CheckIrq(ifr, ier')
      BY <2>1 DEF WriteIER, FlagTypes
    <2> QED BY <1>1, <2>2 DEF FlagTypes
  <1>11. CASE Command
    BY <1>3, <1>11 DEF Command, WriteSR
  <1>12. CASE ViaReset
    BY <1>12 DEF ViaReset, FlagTypes
  <1>13. CASE UNCHANGED allViaVars
    BY <1>2, <1>13 DEF allViaVars, viaVars
  <1> QED BY <1>4, <1>5, <1>6, <1>7, <1>8, <1>9, <1>10, <1>11, <1>12, <1>13 DEF ViaActs
LEMMA RemainingBound ==
  ASSUME NEW t \in Timer1, t.value <= Full, NEW n \in Nat
  PROVE  Remaining(t, n) <= Full
  <1> DEFINE p == Period(t.latch)
             v == t.value
             q == (n - v) \div p
             m == (n - v) % p
  <1>1. p \in Nat \ {0} /\ p <= Full /\ Full \in Nat /\ v \in Int /\ v <= Full
    BY PeriodIs, FullIsPositive DEF Timer1
  <1>2. q \in Int /\ m \in 0 .. p - 1 /\ n - v = p * q + m
    <2>1. n - v \in Int
      BY <1>1
    <2> HIDE DEF p
    <2> QED BY <1>1, <2>1, NextQuotient
  <1>3. CASE v > n
    <2>1. Remaining(t, n) = v - n + 0 * p
      BY <1>3 DEF Remaining, Underflows
    <2> HIDE DEF p, v
    <2> QED BY <1>1, <2>1
  <1>4. CASE ~(v > n)
    <2>1. Remaining(t, n) = v - n + (1 + q) * p
      BY <1>4 DEF Remaining, Underflows
    <2> HIDE DEF p, v, q, m
    <2>2. (1 + q) * p = p + p * q
      BY <1>1, <1>2
    <2> QED BY <1>1, <1>2, <2>1, <2>2
  <1> QED BY <1>3, <1>4

LEMMA TimerBoundsStep == TimersOK /\ TimerBounds /\ [ViaActs]_allViaVars => TimerBounds'
  <1> SUFFICES ASSUME TimersOK, TimerBounds, [ViaActs]_allViaVars PROVE TimerBounds'
    OBVIOUS
  <1>0. /\ t1 \in Timer1 /\ Counting(t1) /\ t2 \in Timer2 /\ Wrapped(t2) /\ Full \in Nat \ {0}
        /\ acr \in [pb7 : BOOLEAN, free : BOOLEAN, shift : 0 .. 7]
    BY FullIsPositive DEF TimersOK
  <1>1. ASSUME UNCHANGED timers PROVE TimerBounds'
    BY <1>1 DEF timers, TimerBounds, Full
  <1>2. t1'.value <= Full /\ t2'.value \in 0 .. Full => TimerBounds'
    BY DEF TimerBounds, Full
  <1>3. \A b \in Byte, l \in 0 .. Full - 1 : (b * ByteSize) + (l % ByteSize) \in 0 .. Full - 1
    BY LatchIs
  <1>4. \A l \in 0 .. Full - 1 : Period(l) \in 1 .. Full /\ Period(l) \in 0 .. Full /\ Period(l) <= Full
    BY <1>0, PeriodIs
  <1>5. CASE LoadT1
    <2>1. t1'.value <= Full /\ t2' = t2
      <3>1. PICK b \in Byte : WriteT1Low(b) \/ WriteT1LatchHigh(b) \/ WriteT1High(b)
        BY <1>5 DEF LoadT1
      <3> DEFINE l == (b * ByteSize) + (t1.latch % ByteSize)
      <3>2. l \in 0 .. Full - 1
        BY <1>0, <1>3 DEF Timer1
      <3>3. t1'.value = t1.value \/ t1'.value = Period(l)
        BY <1>0, <3>1 DEF WriteT1Low, WriteT1LatchHigh, WriteT1High, Timer1
      <3>4. t2' = t2
        BY <3>1 DEF WriteT1Low, WriteT1LatchHigh, WriteT1High
      <3> HIDE DEF l
      <3> QED BY <1>4, <3>2, <3>3, <3>4 DEF TimerBounds
    <2> QED BY <1>2, <2>1 DEF TimerBounds
  <1>6. CASE LoadT2
    <2>1. PICK b \in Byte : WriteT2Low(b) \/ WriteT2High(b)
      BY <1>6 DEF LoadT2
    <2> DEFINE l == (b * ByteSize) + (t2.latch % ByteSize)
    <2>2. l \in 0 .. Full - 1
      BY <1>0, <1>3 DEF Timer2
    <2>3. t2'.value = t2.value \/ t2'.value = Period(l)
      BY <1>0, <2>1 DEF WriteT2Low, WriteT2High, Timer2
    <2>4. t1' = t1
      BY <2>1 DEF WriteT2Low, WriteT2High
    <2> HIDE DEF l
    <2> QED BY <1>2, <1>4, <2>2, <2>3, <2>4 DEF TimerBounds
  <1>7. CASE Step
    <2>1. PICK n \in StepTicks : ViaStep(n)
      BY <1>7 DEF Step
    <2>2. n \in Nat /\ t1.value \in Int /\ t1.value <= Full
      BY <1>0, ViaConstants DEF Timer1, TimerBounds
    <2>3. t1' = Timer1After(t1, n) /\ t2' = Timer2After(t2, n)
      BY <2>1 DEF ViaStep
    <2>4. t2'.value \in 0 .. Full
      <3>1. CASE t2.running
        <4>1. Timer2After(t2, n) \in Timer2 /\ Wrapped(Timer2After(t2, n))
          BY <1>0, <2>2, Timer2Steps
        <4>2. Timer2After(t2, n).running = t2.running
          BY <1>0, <3>1 DEF Timer2After, Timer2
        <4> QED BY <1>0, <2>3, <3>1, <4>1, <4>2 DEF Wrapped
      <3>2. CASE ~t2.running
        BY <2>3, <3>2 DEF Timer2After, TimerBounds
      <3> QED BY <3>1, <3>2
    <2>5. t1'.value <= Full
      <3>1. CASE ~t1.active
        <4>1. Timer1After(t1, n) = t1
          BY <1>0, <3>1 DEF Timer1After, Timer1
        <4> QED BY <2>2, <2>3, <4>1
      <3>2. CASE t1.active /\ acr.free
        <4> DEFINE b == IF acr.pb7 /\ Underflows(t1, n) % 2 = 1 THEN ~t1.pb7 ELSE t1.pb7
        <4>1. Timer1After(t1, n) = [t1 EXCEPT !.value = Remaining(t1, n), !.pb7 = b]
          BY <1>0, <2>2, <3>2, FreeTimer1, Zenon
        <4> HIDE DEF b
        <4>2. t1'.value = Remaining(t1, n)
          BY <1>0, <2>3, <4>1 DEF Timer1
        <4> QED BY <1>0, <2>2, <4>2, RemainingBound
      <3>3. CASE t1.active /\ ~acr.free
        <4>1. Timer1After(t1, n).value = t1.value - n
          BY <1>0, <3>3 DEF Timer1After, Timer1
        <4> QED BY <1>0, <2>2, <2>3, <4>1
      <3> QED BY <3>1, <3>2, <3>3
    <2> QED BY <1>2, <2>4, <2>5
  <1>8. CASE ViaReset
    <2>1. t1'.value = 0 /\ t2'.value = 0
      BY <1>8 DEF ViaReset
    <2> QED BY <1>0, <1>2, <2>1
  <1>9. CASE Modeset
    BY <1>1, <1>9 DEF Modeset, WriteACR
  <1>10. CASE HostInput
    BY <1>1, <1>10 DEF HostInput, viaVars
  <1>11. CASE Ack \/ Ports \/ Enables \/ Command
    BY <1>1, <1>11 DEF Ack, Ports, Enables, Command, ReadCounter, ReadSR, AccessPort, WriteIFR,
                       WritePCR, ControlWrite, WriteIER, WriteSR
  <1>12. CASE UNCHANGED allViaVars
    BY <1>1, <1>12 DEF allViaVars, viaVars
  <1> QED BY <1>5, <1>6, <1>7, <1>8, <1>9, <1>10, <1>11, <1>12 DEF ViaActs
GuestTypes == patient \in BOOLEAN /\ instant \in BOOLEAN /\ guestDown \in [Key -> BOOLEAN]
AllTypes == HostKeysTypeOK /\ TimersOK /\ TimerBounds /\ FlagTypes /\ ShiftTypes /\ GuestTypes

LEMMA AllTypesStart == KeyboardInit => AllTypes
  <1> SUFFICES ASSUME KeyboardInit PROVE AllTypes
    OBVIOUS
  <1>1. HostKeysTypeOK /\ TimersOK
    BY KeysStart, TimersStart DEF KeyboardInit, ViaStart
  <1>2. 0 \in Ticks
    BY ViaConstants DEF Ticks
  <1>3. ShiftTypes /\ FlagTypes
    BY <1>2 DEF KeyboardInit, ViaStart, ShiftTypes, FlagTypes
  <1>4. t1.value = 0 /\ t2.value = 0
    BY DEF KeyboardInit, ViaStart
  <1>5. TimerBounds
    BY <1>4, FullIsPositive DEF TimerBounds
  <1>6. GuestTypes
    BY KeyboardConstants DEF KeyboardInit, GuestTypes
  <1> QED BY <1>1, <1>3, <1>5, <1>6 DEF AllTypes

LEMMA AllTypesStep == AllTypes /\ [KeyboardNext]_keyboardVars => AllTypes'
  <1> SUFFICES ASSUME AllTypes, [KeyboardNext]_keyboardVars PROVE AllTypes'
    OBVIOUS
  <1>1. [ViaActs]_allViaVars
    BY KeyboardNextActs
  <1>2. HostKeysTypeOK' /\ TimersOK' /\ TimerBounds' /\ FlagTypes' /\ ShiftTypes'
    BY <1>1, TypesStay, TimersStep, TimerBoundsStep, FlagTypesStep, ShiftTypesStep DEF AllTypes
  <1>3. GuestTypes'
    <2>0. patient \in BOOLEAN /\ instant \in BOOLEAN /\ guestDown \in [Key -> BOOLEAN]
      BY DEF AllTypes, GuestTypes
    <2>1. ASSUME UNCHANGED <<patient, instant, guestDown>> PROVE GuestTypes'
      BY <2>0, <2>1 DEF GuestTypes
    <2>2. CASE RomTransmitMode \/ RomCommand \/ RomReceiveMode
      BY <2>1, <2>2 DEF RomTransmitMode, RomCommand, RomReceiveMode
    <2>3. CASE RomReceive
      <3>1. patient' = patient /\ instant' = (sr = KeypadFollows)
        BY <2>3 DEF RomReceive
      <3>2. guestDown' = [guestDown EXCEPT ![Decoded(sr).scancode] = ~Decoded(sr).isRelease]
            \/ guestDown' = guestDown
        BY <2>3 DEF RomReceive
      <3>3. guestDown' \in [Key -> BOOLEAN]
        BY <2>0, <3>2
      <3>4. instant' \in BOOLEAN
        BY <3>1
      <3> QED BY <2>0, <3>1, <3>3, <3>4 DEF GuestTypes
    <2>4. CASE TimePasses \/ Client
      BY <2>1, <2>4 DEF TimePasses, Client, guestVars
    <2>5. CASE MachineReset
      BY <2>0, <2>5 DEF MachineReset, GuestTypes
    <2>6. CASE UNCHANGED keyboardVars
      BY <2>1, <2>6 DEF keyboardVars, guestVars
    <2> QED BY <2>2, <2>3, <2>4, <2>5, <2>6 DEF KeyboardNext, Rom
  <1> QED BY <1>2, <1>3 DEF AllTypes

LEMMA TypesAre == AllTypes /\ Protocol => KeyboardTypeOK
  <1> SUFFICES ASSUME AllTypes, Protocol PROVE KeyboardTypeOK
    OBVIOUS
  <1>1. ViaTypeOK
    BY DEF AllTypes, TimersOK, TimerBounds, FlagTypes, ShiftTypes, Ticks, Timer1, Timer2, ViaTypeOK
  <1> QED BY <1>1 DEF KeyboardTypeOK, AllTypes, GuestTypes, Protocol, Phases

(***************************************************************************)
(* The last edge of a key in a sequence of edges.                          *)
(***************************************************************************)
Last(s, k) == {i \in 1 .. Len(s) : /\ s[i].scancode = k
                                   /\ \A j \in i + 1 .. Len(s) : s[j].scancode # k}
EndsUp(s, k) == \A i \in Last(s, k) : s[i].isRelease = TRUE

LEMMA LastOfAppend ==
  ASSUME NEW s \in Seq(KeyEvent), NEW e \in KeyEvent, NEW k
  PROVE  /\ Last(Append(s, e), k) = IF e.scancode = k THEN {Len(s) + 1} ELSE Last(s, k)
         /\ \A i \in Last(s, k) : Append(s, e)[i] = s[i]
         /\ Append(s, e)[Len(s) + 1] = e
  <1> DEFINE n == Len(s)
             t == Append(s, e)
  <1>1. n \in Nat /\ Len(t) = n + 1 /\ t[n + 1] = e /\ \A i \in 1 .. n : t[i] = s[i]
    OBVIOUS
  <1> HIDE DEF n, t
  <1>2. Last(t, k) = {i \in 1 .. n + 1 : t[i].scancode = k /\ \A j \in i + 1 .. n + 1 : t[j].scancode # k}
    BY <1>1 DEF Last
  <1>3. Last(s, k) = {i \in 1 .. n : s[i].scancode = k /\ \A j \in i + 1 .. n : s[j].scancode # k}
    BY DEF Last, n
  <1>4. CASE e.scancode = k
    <2>1. n + 1 \in Last(t, k)
      BY <1>1, <1>2, <1>4
    <2>2. ASSUME NEW i \in Last(t, k), i # n + 1 PROVE FALSE
      <3>1. i \in 1 .. n + 1 /\ n + 1 \in i + 1 .. n + 1
        BY <1>1, <1>2, <2>2
      <3> QED BY <1>1, <1>2, <1>4, <3>1
    <2> QED BY <1>1, <1>3, <1>4, <2>1, <2>2 DEF n, t
  <1>5. CASE e.scancode # k
    <2>1. ASSUME NEW i \in Last(t, k) PROVE i \in Last(s, k)
      <3>1. i \in 1 .. n + 1 /\ i # n + 1
        BY <1>1, <1>2, <1>5
      <3>2. i \in 1 .. n /\ \A j \in i + 1 .. n : j \in i + 1 .. n + 1 /\ j \in 1 .. n
        BY <1>1, <3>1
      <3> QED BY <1>1, <1>2, <1>3, <3>2
    <2>2. ASSUME NEW i \in Last(s, k) PROVE i \in Last(t, k)
      <3>1. i \in 1 .. n /\ i \in 1 .. n + 1
        BY <1>1, <1>3
      <3>2. ASSUME NEW j \in i + 1 .. n + 1 PROVE t[j].scancode # k
        <4>1. CASE j = n + 1
          BY <1>1, <1>5, <4>1
        <4>2. CASE j # n + 1
          <5>1. j \in i + 1 .. n /\ j \in 1 .. n
            BY <1>1, <3>1, <4>2
          <5> QED BY <1>1, <1>3, <5>1
        <4> QED BY <4>1, <4>2
      <3> QED BY <1>1, <1>2, <1>3, <3>1, <3>2
    <2> QED BY <1>1, <1>3, <1>5, <2>1, <2>2 DEF n, t
  <1> QED BY <1>4, <1>5

\* A press taken out does not change how a key ends that ends with a release.
LEMMA LastWithoutPress ==
  ASSUME NEW s \in Seq(KeyEvent), NEW p \in 1 .. Len(s), s[p].isRelease = FALSE, NEW k, EndsUp(s, k),
         NEW t \in Seq(KeyEvent), Len(t) = Len(s) - 1,
         \A i \in 1 .. Len(t) : t[i] = IF i < p THEN s[i] ELSE s[i + 1]
  PROVE  EndsUp(t, k)
  <1> DEFINE n == Len(s)
  <1>1. n \in Nat /\ Len(t) = n - 1 /\ p \in 1 .. n /\ n >= 1
    OBVIOUS
  <1> HIDE DEF n
  <1> SUFFICES ASSUME NEW i \in Last(t, k) PROVE t[i].isRelease = TRUE
    BY DEF EndsUp
  <1>2. /\ i \in 1 .. n - 1 /\ t[i].scancode = k
        /\ \A j \in i + 1 .. n - 1 : t[j].scancode # k
    BY <1>1 DEF Last
  <1>3. \A m \in 1 .. n : (\A j \in m + 1 .. n : s[j].scancode # k) /\ s[m].scancode = k => s[m].isRelease = TRUE
    BY DEF EndsUp, Last, n
  <1>4. \A j \in 1 .. n - 1 : t[j] = IF j < p THEN s[j] ELSE s[j + 1]
    BY <1>1
  <1>5. s[p].isRelease = FALSE
    OBVIOUS
  <1>6. CASE i >= p
    <2>1. i + 1 \in 1 .. n /\ t[i] = s[i + 1]
      BY <1>1, <1>2, <1>4, <1>6
    <2>2. ASSUME NEW j \in (i + 1) + 1 .. n PROVE s[j].scancode # k
      <3>1. j - 1 \in i + 1 .. n - 1 /\ j - 1 \in 1 .. n - 1 /\ ~(j - 1 < p) /\ (j - 1) + 1 = j
        BY <1>1, <1>2, <1>6
      <3> QED BY <1>2, <1>4, <3>1
    <2> QED BY <1>2, <1>3, <2>1, <2>2
  <1>7. CASE i < p
    <2>1. i \in 1 .. n /\ t[i] = s[i]
      BY <1>1, <1>2, <1>4, <1>7
    <2>2. ASSUME NEW j \in i + 1 .. n, j # p PROVE s[j].scancode # k
      <3>1. CASE j < p
        <4>1. j \in i + 1 .. n - 1 /\ j \in 1 .. n - 1
          BY <1>1, <1>2, <3>1
        <4> QED BY <1>2, <1>4, <3>1, <4>1
      <3>2. CASE j > p
        <4>1. j - 1 \in i + 1 .. n - 1 /\ j - 1 \in 1 .. n - 1 /\ ~(j - 1 < p) /\ (j - 1) + 1 = j
          BY <1>1, <1>2, <1>7, <3>2
        <4> QED BY <1>2, <1>4, <4>1
      <3>3. j < p \/ j > p
        BY <1>1, <1>2, <2>2
      <3> QED BY <3>1, <3>2, <3>3
    <2>3. s[p].scancode # k
      <3> SUFFICES ASSUME s[p].scancode = k PROVE FALSE
        OBVIOUS
      <3>1. \A j \in p + 1 .. n : j \in i + 1 .. n /\ j # p
        BY <1>1, <1>2, <1>7
      <3> QED BY <1>1, <1>3, <1>5, <2>2, <3>1
    <2> QED BY <1>2, <1>3, <2>1, <2>2, <2>3
  <1>8. i >= p \/ i < p
    BY <1>1, <1>2
  <1> QED BY <1>6, <1>7, <1>8
\* A bounded queue as the abstract module has it.
Queues == {q \in Seq(KeyEvent) : Len(q) < QueueSize}

LEMMA RoomIs ==
  ASSUME NEW q \in Queues, Abstract!Presses(q) # {}
  PROVE  /\ Abstract!DropOldestPressForRelease(q) \in Queues
         /\ Len(Abstract!DropOldestPressForRelease(q)) = Len(q) - 1
         /\ \A k : EndsUp(q, k) => EndsUp(Abstract!DropOldestPressForRelease(q), k)
  <1> DEFINE P == Abstract!Presses(q)
             p == Abstract!Min(P)
             t == Abstract!RemoveAt(q, p)
  <1>0. q \in Seq(KeyEvent) /\ Len(q) \in Nat /\ Len(q) < QueueSize /\ QueueSize \in Nat
    BY HostKeyRingConstants DEF Queues
  <1>1. P \subseteq 1 .. Len(q) /\ P \subseteq Nat /\ P # {}
    BY <1>0 DEF Abstract!Presses
  <1>2. p \in P
    <2>1. \E n \in P : \A m \in P : n <= m
      BY <1>1, NatMin
    <2> HIDE DEF P
    <2> QED BY <2>1 DEF Abstract!Min
  <1>3. p \in 1 .. Len(q) /\ q[p].isRelease = FALSE
    <2>1. p \in 1 .. Len(q) /\ ~q[p].isRelease
      BY <1>2 DEF Abstract!Presses
    <2>2. q[p] \in KeyEvent
      BY <1>0, <2>1
    <2>3. q[p].isRelease \in BOOLEAN
      BY <2>2 DEF KeyEvent
    <2> QED BY <2>1, <2>3
  <1>4. Abstract!DropOldestPressForRelease(q) = t
    BY DEF Abstract!DropOldestPressForRelease
  <1> HIDE DEF P, p
  <1>5. /\ t \in Seq(KeyEvent) /\ Len(t) = Len(q) - 1
        /\ \A i \in 1 .. Len(q) - 1 : t[i] = IF i < p THEN q[i] ELSE q[i + 1]
    BY <1>0, <1>3, RemoveIs
  <1> HIDE DEF t
  <1>6. t \in Queues
    BY <1>0, <1>5 DEF Queues
  <1>7. \A i \in 1 .. Len(t) : t[i] = IF i < p THEN q[i] ELSE q[i + 1]
    BY <1>5
  <1>8. \A k : EndsUp(q, k) => EndsUp(t, k)
    BY <1>0, <1>3, <1>5, <1>7, LastWithoutPress
  <1> QED BY <1>4, <1>5, <1>6, <1>8

LEMMA EnqueueEndsUp ==
  ASSUME NEW q \in Queues, NEW e \in KeyEvent
  PROVE  /\ Abstract!EnqueueKeyEvent(q, e) \in Queues
         /\ \A k : k # e.scancode /\ EndsUp(q, k) => EndsUp(Abstract!EnqueueKeyEvent(q, e), k)
         /\ e.isRelease = TRUE => EndsUp(Abstract!EnqueueKeyEvent(q, e), e.scancode)
  <1> DEFINE room == IF Abstract!QueueIsFull(q) /\ e.isRelease
                     THEN Abstract!DropOldestPressForRelease(q) ELSE q
             r == Abstract!EnqueueKeyEvent(q, e)
  <1>0. r = IF Abstract!QueueIsFull(room) THEN room ELSE Append(room, e)
    BY DEF Abstract!EnqueueKeyEvent
  <1>1. room \in Queues /\ \A k : EndsUp(q, k) => EndsUp(room, k)
    <2>1. CASE Abstract!Presses(q) = {}
      BY <2>1 DEF Abstract!DropOldestPressForRelease
    <2>2. CASE Abstract!Presses(q) # {}
      BY <2>2, RoomIs
    <2> QED BY <2>1, <2>2
  <1>2. e.isRelease = TRUE /\ Abstract!QueueIsFull(room) => \A k : EndsUp(room, k)
    <2> SUFFICES ASSUME e.isRelease = TRUE, Abstract!QueueIsFull(room) PROVE \A k : EndsUp(room, k)
      OBVIOUS
    <2>1. CASE Abstract!QueueIsFull(q) /\ Abstract!Presses(q) # {}
      <3>1. Len(room) = Len(q) - 1
        BY <2>1, RoomIs
      <3>2. Len(q) = QueueSize - 1 /\ Len(room) = QueueSize - 1
        BY <2>1 DEF Abstract!QueueIsFull
      <3> HIDE DEF room
      <3> QED BY <3>1, <3>2, HostKeyRingConstants
    <2>2. CASE Abstract!Presses(q) = {}
      <3>1. room = q
        BY <2>2 DEF Abstract!DropOldestPressForRelease
      <3>2. \A i \in 1 .. Len(q) : q[i].isRelease = TRUE
        <4> SUFFICES ASSUME NEW i \in 1 .. Len(q) PROVE q[i].isRelease = TRUE
          OBVIOUS
        <4>1. q \in Seq(KeyEvent)
          BY DEF Queues
        <4>2. q[i].isRelease \in BOOLEAN
          <5>1. q[i] \in KeyEvent
            BY <4>1
          <5> QED BY <5>1 DEF KeyEvent
        <4>3. ~ ~q[i].isRelease
          BY <2>2 DEF Abstract!Presses
        <4> QED BY <4>2, <4>3
      <3> QED BY <3>1, <3>2 DEF EndsUp, Last
    <2>3. CASE ~Abstract!QueueIsFull(q)
      BY <2>3
    <2> QED BY <2>1, <2>2, <2>3
  <1> HIDE DEF room
  <1>3. room \in Seq(KeyEvent) /\ Len(room) \in Nat /\ Len(room) < QueueSize
    BY <1>1 DEF Queues
  <1>4. ~Abstract!QueueIsFull(room) => Append(room, e) \in Queues
    BY <1>3, HostKeyRingConstants DEF Abstract!QueueIsFull, Queues
  <1>5. ASSUME NEW k, k # e.scancode, EndsUp(room, k) PROVE EndsUp(Append(room, e), k)
    <2>1. PICK s \in Seq(KeyEvent) : s = room
      BY <1>3
    <2>2. Last(Append(s, e), k) = IF e.scancode = k THEN {Len(s) + 1} ELSE Last(s, k)
      BY LastOfAppend
    <2>3. \A i \in Last(s, k) : Append(s, e)[i] = s[i]
      BY DEF Last
    <2>4. EndsUp(Append(s, e), k)
      BY <1>5, <2>1, <2>2, <2>3 DEF EndsUp
    <2> QED BY <2>1, <2>4
  <1>6. ASSUME e.isRelease = TRUE PROVE EndsUp(Append(room, e), e.scancode)
    BY <1>3, <1>6, LastOfAppend DEF EndsUp
  <1> QED BY <1>0, <1>1, <1>2, <1>4, <1>5, <1>6
(***************************************************************************)
(* Releasing all keys, the abstract queue after the first n.               *)
(***************************************************************************)
LEMMA ReleaseEndsUp ==
  ASSUME HostKeysTypeOK, \A k \in Key : keyDown[k] = FALSE => EndsUp(keyQueue, k)
  PROVE  Abstract!released[NumKeys] \in Queues /\ \A k \in Key : EndsUp(Abstract!released[NumKeys], k)
  <1> DEFINE N == NumKeys
             rel(n) == Abstract!released[n]
             Fine(n) == /\ rel(n) \in Queues
                        /\ \A k \in Key : keyDown[k] = FALSE \/ k < n => EndsUp(rel(n), k)
             Good == {n \in Nat : n <= N => Fine(n)}
  <1>0. ring \in Rings /\ keyDown \in [Key -> BOOLEAN] /\ keyQueue = QueueOf(ring) /\ N \in Nat
        /\ Key = 0 .. N - 1
    BY TypesAreRings, QueueOfRing, HostKeyRingConstants DEF Key
  <1>1. /\ rel(0) = keyQueue
        /\ \A n \in 1 .. N : rel(n) = IF keyDown[n - 1]
                                      THEN Abstract!EnqueueKeyEvent(rel(n - 1), Edge(n - 1, TRUE))
                                      ELSE rel(n - 1)
    BY <1>0, ReleasedIs
  <1> HIDE DEF rel
  <1>2. keyQueue \in Queues
    BY <1>0, QueueIs, CountIs, HostKeyRingConstants DEF Queues, Index
  <1>3. 0 \in Good
    BY <1>0, <1>1, <1>2
  <1>4. ASSUME NEW n \in Nat, n \in Good PROVE n + 1 \in Good
    <2> SUFFICES ASSUME n + 1 <= N
                 PROVE  Fine(n + 1)
      <3>1. n + 1 \in Nat
        OBVIOUS
      <3> HIDE DEF Fine
      <3> QED BY <3>1
    <2>1. n + 1 \in 1 .. N /\ (n + 1) - 1 = n /\ n \in Key /\ n <= N
      BY <1>0
    <2>2. rel(n + 1) = IF keyDown[n] THEN Abstract!EnqueueKeyEvent(rel(n), Edge(n, TRUE)) ELSE rel(n)
      BY <1>1, <2>1
    <2>3. rel(n) \in Queues /\ \A k \in Key : keyDown[k] = FALSE \/ k < n => EndsUp(rel(n), k)
      BY <1>4, <2>1
    <2>4. CASE keyDown[n] = TRUE
      <3> DEFINE e == Edge(n, TRUE)
      <3>1. e \in KeyEvent /\ e.scancode = n /\ e.isRelease = TRUE
        BY <2>1 DEF Edge, KeyEvent
      <3>2. rel(n + 1) = Abstract!EnqueueKeyEvent(rel(n), e)
        BY <2>2, <2>4
      <3> HIDE DEF e
      <3>3. rel(n + 1) \in Queues /\ EndsUp(rel(n + 1), n)
            /\ \A k : k # n /\ EndsUp(rel(n), k) => EndsUp(rel(n + 1), k)
        BY <2>3, <3>1, <3>2, EnqueueEndsUp
      <3>4. ASSUME NEW k \in Key, keyDown[k] = FALSE \/ k < n + 1 PROVE EndsUp(rel(n + 1), k)
        <4>1. CASE k = n
          BY <3>3, <4>1
        <4>2. CASE k # n
          <5>1. keyDown[k] = FALSE \/ k < n
            BY <1>0, <3>4, <4>2
          <5> QED BY <2>3, <3>3, <4>2, <5>1
        <4> QED BY <4>1, <4>2
      <3> QED BY <3>3, <3>4
    <2>5. CASE keyDown[n] = FALSE
      <3>1. rel(n + 1) = rel(n)
        BY <2>2, <2>5
      <3>2. \A k \in Key : k < n + 1 => k = n \/ k < n
        BY <1>0
      <3> QED BY <2>1, <2>3, <2>5, <3>1, <3>2
    <2> QED BY <1>0, <2>1, <2>4, <2>5
  <1> HIDE DEF Good
  <1>5. N \in Good
    BY <1>0, <1>3, <1>4, SetInduction
  <1>6. \A k \in Key : k < N
    BY <1>0
  <1> QED BY <1>0, <1>5, <1>6 DEF Good, rel

\* The keys that are up end with a release.
LastIsHeld == \A k \in Key : keyDown[k] = FALSE => EndsUp(keyQueue, k)

LEMMA LastIsHeldStep ==
  ASSUME HostKeysTypeOK, LastIsHeld, [HostKeysNext]_hostKeysVars
  PROVE  LastIsHeld'
  <1>0. ring \in Rings /\ keyDown \in [Key -> BOOLEAN] /\ keyQueue = QueueOf(ring)
    BY TypesAreRings, QueueOfRing
  <1>1. keyQueue \in Queues /\ keyQueue \in Seq(KeyEvent)
    BY <1>0, QueueIs, CountIs, HostKeyRingConstants DEF Queues, Index
  <1>2. [Abstract!HostKeysNext]_(Abstract!hostKeysVars) /\ keyDown' \in [Key -> BOOLEAN]
    BY KeysStep, TypesAreRings, HostKeysTypeOK' DEF HostKeysTypeOK
  <1>3. ASSUME NEW k \in Key, NEW down \in BOOLEAN, Abstract!HostKey(k, down) PROVE LastIsHeld'
    <2> DEFINE e == Edge(k, ~down)
               q == Abstract!EnqueueKeyEvent(keyQueue, e)
    <2>1. keyDown' = [keyDown EXCEPT ![k] = down] /\ keyQueue' = q
      BY <1>3 DEF Abstract!HostKey, Abstract!Edge, Edge
    <2>2. e \in KeyEvent /\ e.scancode = k /\ (down = FALSE => e.isRelease = TRUE)
      BY DEF Edge, KeyEvent
    <2> HIDE DEF e
    <2>3. /\ \A i : i # k /\ EndsUp(keyQueue, i) => EndsUp(q, i)
          /\ down = FALSE => EndsUp(q, k)
      BY <1>1, <2>2, EnqueueEndsUp
    <2> HIDE DEF q
    <2>4. ASSUME NEW i \in Key, keyDown'[i] = FALSE PROVE EndsUp(q, i)
      BY <1>0, <2>1, <2>3, <2>4 DEF LastIsHeld
    <2>5. \A i : EndsUp(keyQueue, i)' <=> EndsUp(q, i)
      BY <2>1 DEF EndsUp, Last
    <2> QED BY <2>4, <2>5 DEF LastIsHeld, Key
  <1>4. CASE Abstract!HostReleaseAllKeys
    <2>1. keyQueue' = Abstract!released[NumKeys]
      BY <1>4 DEF Abstract!HostReleaseAllKeys
    <2>2. \A k \in Key : EndsUp(Abstract!released[NumKeys], k)
      BY ReleaseEndsUp DEF LastIsHeld
    <2> DEFINE q == Abstract!released[NumKeys]
    <2>3. PICK s : s = q
      OBVIOUS
    <2> HIDE DEF q
    <2>4. keyQueue' = s /\ \A k \in Key : EndsUp(s, k)
      BY <2>1, <2>2, <2>3 DEF q
    <2>5. \A i : EndsUp(keyQueue, i)' <=> EndsUp(s, i)
      BY <2>4 DEF EndsUp, Last
    <2> QED BY <2>4, <2>5 DEF LastIsHeld, Key
  <1>5. CASE Abstract!HostPopKeyEvent
    <2>1. keyQueue # <<>> /\ keyQueue' = Tail(keyQueue) /\ keyDown' = keyDown
      BY <1>5 DEF Abstract!HostPopKeyEvent
    <2>2. ASSUME NEW k, EndsUp(keyQueue, k) PROVE EndsUp(keyQueue, k)'
      <3> DEFINE n == Len(keyQueue)
      <3>1. n \in Nat /\ n >= 1 /\ Len(Tail(keyQueue)) = n - 1
            /\ \A i \in 1 .. n - 1 : Tail(keyQueue)[i] = keyQueue[i + 1]
        BY <1>1, <2>1
      <3>2. PICK s : s = keyQueue'
        OBVIOUS
      <3>3. Len(s) = n - 1 /\ \A i \in 1 .. n - 1 : s[i] = keyQueue[i + 1]
        BY <2>1, <3>1, <3>2
      <3>4. \A i \in 1 .. n : keyQueue[i].scancode = k /\ (\A j \in i + 1 .. n : keyQueue[j].scancode # k)
                              => keyQueue[i].isRelease = TRUE
        BY <2>2 DEF EndsUp, Last
      <3> HIDE DEF n
      <3>5. ASSUME NEW i \in Last(s, k) PROVE s[i].isRelease = TRUE
        <4>1. i \in 1 .. n - 1 /\ s[i].scancode = k /\ \A j \in i + 1 .. n - 1 : s[j].scancode # k
          BY <3>3 DEF Last
        <4>2. i + 1 \in 1 .. n /\ s[i] = keyQueue[i + 1]
          BY <3>1, <3>3, <4>1
        <4>3. ASSUME NEW j \in (i + 1) + 1 .. n PROVE keyQueue[j].scancode # k
          <5>1. j - 1 \in i + 1 .. n - 1 /\ j - 1 \in 1 .. n - 1 /\ (j - 1) + 1 = j
            BY <3>1, <4>1
          <5> QED BY <3>3, <4>1, <5>1
        <4> QED BY <3>4, <4>1, <4>2, <4>3
      <3>6. EndsUp(s, k)
        BY <3>5 DEF EndsUp
      <3> QED BY <3>2, <3>6 DEF EndsUp, Last
    <2> QED BY <2>1, <2>2 DEF LastIsHeld, Key
  <1>6. CASE Abstract!HostReset
    <2>1. keyQueue' = <<>>
      BY <1>6 DEF Abstract!HostReset
    <2> QED BY <2>1 DEF LastIsHeld, EndsUp, Last
  <1>7. CASE UNCHANGED Abstract!hostKeysVars
    <2>1. keyQueue' = keyQueue /\ keyDown' = keyDown
      BY <1>7 DEF Abstract!hostKeysVars
    <2> QED BY <2>1 DEF LastIsHeld, EndsUp, Last, Key
  <1> QED BY <1>2, <1>3, <1>4, <1>5, <1>6, <1>7 DEF Abstract!HostKeysNext, Abstract!Key, Key
(***************************************************************************)
(* The guest's view.  The keys that are down after the edges of s, from    *)
(* the keys D: what a guest that reads s makes of them.                    *)
(***************************************************************************)
DownAfter(s, D) ==
    {k \in Key : IF Last(s, k) = {} THEN k \in D ELSE \A i \in Last(s, k) : s[i].isRelease = FALSE}
After(D, e) == IF e.isRelease = TRUE THEN D \ {e.scancode} ELSE D \cup {e.scancode}

LEMMA DownAfterNothing ==
  ASSUME NEW D \in SUBSET Key
  PROVE  DownAfter(<<>>, D) = D
  BY DEF DownAfter, Last

LEMMA DownAfterAppend ==
  ASSUME NEW D \in SUBSET Key, NEW s \in Seq(KeyEvent), NEW e \in KeyEvent
  PROVE  DownAfter(Append(s, e), D) = After(DownAfter(s, D), e)
  <1>1. e.scancode \in Key /\ e.isRelease \in BOOLEAN
    BY DEF KeyEvent
  <1>2. PICK t : t = Append(s, e)
    OBVIOUS
  <1>3. t[Len(s) + 1] = e
    BY <1>2
  <1>4. ASSUME NEW k \in Key PROVE k \in DownAfter(t, D) <=> k \in After(DownAfter(s, D), e)
    <2>1. Last(t, k) = IF e.scancode = k THEN {Len(s) + 1} ELSE Last(s, k)
      BY <1>2, LastOfAppend
    <2>2. CASE e.scancode = k
      <3>1. k \in DownAfter(t, D) <=> e.isRelease = FALSE
        <4>1. Last(t, k) = {Len(s) + 1}
          BY <2>1, <2>2
        <4> QED BY <1>3, <4>1 DEF DownAfter
      <3> QED BY <1>1, <2>2, <3>1 DEF After
    <2>3. CASE e.scancode # k
      <3>1. Last(t, k) = Last(s, k)
        BY <2>1, <2>3
      <3>2. \A i \in Last(s, k) : t[i] = s[i]
        BY <1>2 DEF Last
      <3>3. k \in DownAfter(t, D) <=> k \in DownAfter(s, D)
        BY <3>1, <3>2 DEF DownAfter
      <3> QED BY <2>3, <3>3 DEF After
    <2> QED BY <2>2, <2>3
  <1>5. DownAfter(t, D) \subseteq Key /\ After(DownAfter(s, D), e) \subseteq Key
    BY <1>1 DEF DownAfter, After
  <1>6. DownAfter(t, D) = After(DownAfter(s, D), e)
    BY <1>4, <1>5
  <1> QED BY <1>2, <1>6

LEMMA DownAfterFirst ==
  ASSUME NEW D \in SUBSET Key, NEW q \in Seq(KeyEvent), q # <<>>
  PROVE  DownAfter(q, D) = DownAfter(Tail(q), After(D, Head(q))) /\ Head(q) \in KeyEvent
  <1> DEFINE n == Len(q)
  <1>1. PICK s \in Seq(KeyEvent) : s = Tail(q)
    <2>1. Tail(q) \in Seq(KeyEvent)
      OBVIOUS
    <2> QED BY <2>1
  <1>2. PICK e \in KeyEvent : e = Head(q)
    <2>1. 1 \in 1 .. Len(q) /\ Head(q) = q[1]
      OBVIOUS
    <2>2. q[1] \in KeyEvent
      BY <2>1
    <2> QED BY <2>1, <2>2
  <1>3. n \in Nat /\ n >= 1 /\ Len(s) = n - 1 /\ q[1] = e /\ \A i \in 1 .. n - 1 : s[i] = q[i + 1]
    BY <1>1, <1>2
  <1>4. e.scancode \in Key /\ e.isRelease \in BOOLEAN
    BY DEF KeyEvent
  <1> HIDE DEF n
  <1>5. ASSUME NEW k \in Key PROVE k \in DownAfter(q, D) <=> k \in DownAfter(s, After(D, e))
    <2>1. Last(s, k) = {i \in 1 .. n - 1 : s[i].scancode = k /\ \A j \in i + 1 .. n - 1 : s[j].scancode # k}
      BY <1>3 DEF Last
    <2>2. Last(q, k) = {i \in 1 .. n : q[i].scancode = k /\ \A j \in i + 1 .. n : q[j].scancode # k}
      BY DEF Last, n
    <2>3. \A i \in 1 .. n - 1 : i \in Last(s, k) <=> i + 1 \in Last(q, k)
      <3> SUFFICES ASSUME NEW i \in 1 .. n - 1 PROVE i \in Last(s, k) <=> i + 1 \in Last(q, k)
        OBVIOUS
      <3>1. i + 1 \in 1 .. n /\ s[i] = q[i + 1]
        BY <1>3
      <3>2. ASSUME \A j \in i + 1 .. n - 1 : s[j].scancode # k, NEW j \in (i + 1) + 1 .. n
            PROVE  q[j].scancode # k
        <4>1. j - 1 \in i + 1 .. n - 1 /\ j - 1 \in 1 .. n - 1 /\ (j - 1) + 1 = j
          BY <1>3
        <4> QED BY <1>3, <3>2, <4>1
      <3>3. ASSUME \A j \in (i + 1) + 1 .. n : q[j].scancode # k, NEW j \in i + 1 .. n - 1
            PROVE  s[j].scancode # k
        <4>1. j + 1 \in (i + 1) + 1 .. n /\ j \in 1 .. n - 1
          BY <1>3
        <4> QED BY <1>3, <3>3, <4>1
      <3> QED BY <2>1, <2>2, <3>1, <3>2, <3>3
    <2>4. Last(s, k) = {} => Last(q, k) = IF e.scancode = k THEN {1} ELSE {}
      <3> SUFFICES ASSUME Last(s, k) = {} PROVE Last(q, k) = IF e.scancode = k THEN {1} ELSE {}
        OBVIOUS
      <3>1. \A i \in 2 .. n : i \notin Last(q, k)
        <4> SUFFICES ASSUME NEW i \in 2 .. n PROVE i \notin Last(q, k)
          OBVIOUS
        <4>1. i - 1 \in 1 .. n - 1 /\ (i - 1) + 1 = i
          BY <1>3
        <4> QED BY <2>3, <4>1
      <3>2. \A j \in 2 .. n : q[j].scancode # k
        <4> DEFINE P == {j \in 2 .. n : q[j].scancode = k}
        <4> SUFFICES ASSUME P # {} PROVE FALSE
          OBVIOUS
        <4>1. PICK m \in P : \A j \in P : j <= m
          <5>1. \E x \in {n - j : j \in P} : \A y \in {n - j : j \in P} : x <= y
            <6>1. {n - j : j \in P} \subseteq Nat /\ {n - j : j \in P} # {}
              BY <1>3
            <6> QED BY <6>1, NatMin
          <5>2. PICK m \in P : \A j \in P : n - m <= n - j
            BY <5>1
          <5> QED BY <1>3, <5>2
        <4>2. m \in Last(q, k)
          <5>1. \A j \in m + 1 .. n : j \in 2 .. n /\ ~(j <= m)
            BY <1>3
          <5> QED BY <1>3, <2>2, <4>1, <5>1
        <4> QED BY <3>1, <4>2
      <3>3. 1 \in Last(q, k) <=> e.scancode = k
        <4>1. \A j \in 1 + 1 .. n : q[j].scancode # k
          BY <3>2
        <4> QED BY <1>3, <2>2, <4>1
      <3>4. \A i \in Last(q, k) : i = 1
        BY <1>3, <2>2, <3>1
      <3> QED BY <3>3, <3>4
    <2>5. ASSUME Last(s, k) # {}
          PROVE  Last(q, k) # {} /\ Last(q, k) = {i + 1 : i \in Last(s, k)}
      <3>1. \A i \in Last(s, k) : i \in 1 .. n - 1 /\ s[i].scancode = k
        BY <2>1
      <3>2. PICK m \in 1 .. n - 1 : s[m].scancode = k
        BY <2>5, <3>1
      <3>3. 1 \notin Last(q, k)
        <4>1. m + 1 \in 1 + 1 .. n /\ q[m + 1].scancode = k
          BY <1>3, <3>2
        <4> QED BY <2>2, <4>1
      <3>4. ASSUME NEW i \in Last(q, k) PROVE i - 1 \in Last(s, k) /\ (i - 1) + 1 = i
        <4>1. i \in 1 .. n /\ i # 1
          BY <2>2, <3>3
        <4>2. i - 1 \in 1 .. n - 1 /\ (i - 1) + 1 = i
          BY <1>3, <4>1
        <4> QED BY <2>3, <4>2
      <3>5. \A i \in Last(s, k) : i + 1 \in Last(q, k)
        BY <2>3, <3>1
      <3> QED BY <2>5, <3>4, <3>5
    <2>6. CASE Last(s, k) = {}
      <3>1. k \in DownAfter(s, After(D, e)) <=> k \in After(D, e)
        BY <2>6 DEF DownAfter
      <3>2. CASE e.scancode = k
        <4>1. Last(q, k) = {1}
          BY <2>4, <2>6, <3>2
        <4>2. k \in DownAfter(q, D) <=> e.isRelease = FALSE
          BY <1>3, <4>1 DEF DownAfter
        <4> QED BY <1>4, <3>1, <3>2, <4>2 DEF After
      <3>3. CASE e.scancode # k
        <4>1. Last(q, k) = {}
          BY <2>4, <2>6, <3>3
        <4> QED BY <3>1, <3>3, <4>1 DEF DownAfter, After
      <3> QED BY <3>2, <3>3
    <2>7. CASE Last(s, k) # {}
      <3>1. \A i \in Last(s, k) : i \in 1 .. n - 1 /\ s[i] = q[i + 1]
        BY <1>3, <2>1
      <3>2. (\A i \in Last(q, k) : q[i].isRelease = FALSE) <=> (\A i \in Last(s, k) : s[i].isRelease = FALSE)
        BY <2>5, <2>7, <3>1
      <3> QED BY <2>5, <2>7, <3>2 DEF DownAfter
    <2> QED BY <2>6, <2>7
  <1>6. DownAfter(q, D) = DownAfter(s, After(D, e))
    BY <1>5 DEF DownAfter
  <1> QED BY <1>1, <1>2, <1>6
\* Edges taken but not read come before the queued ones.
LEMMA DownAfterBoth ==
  ASSUME NEW D \in SUBSET Key, NEW q \in Seq(KeyEvent), NEW t,
         t = <<>> \/ \E e \in KeyEvent : t = <<e>>
  PROVE  t \o q \in Seq(KeyEvent) /\ DownAfter(t \o q, D) = DownAfter(q, DownAfter(t, D))
  <1>1. CASE t = <<>>
    <2>1. t \o q = q
      BY <1>1
    <2> QED BY <1>1, <2>1, DownAfterNothing
  <1>2. CASE \E e \in KeyEvent : t = <<e>>
    <2>1. PICK e \in KeyEvent : t = <<e>>
      BY <1>2
    <2>2. PICK s : s = t \o q
      OBVIOUS
    <2>3. s \in Seq(KeyEvent) /\ s # <<>> /\ Head(s) = e /\ Tail(s) = q
      BY <2>1, <2>2
    <2>4. t \in Seq(KeyEvent) /\ t # <<>> /\ Head(t) = e /\ Tail(t) = <<>>
      BY <2>1
    <2>5. After(D, e) \subseteq Key
      BY DEF After, KeyEvent
    <2>6. DownAfter(s, D) = DownAfter(q, After(D, e))
      BY <2>3, DownAfterFirst
    <2>7. DownAfter(t, D) = After(D, e)
      BY <2>4, <2>5, DownAfterFirst, DownAfterNothing
    <2> QED BY <2>2, <2>3, <2>6, <2>7
  <1> QED BY <1>1, <1>2

(***************************************************************************)
(* Releasing all keys when the buffer has room for them.                   *)
(***************************************************************************)
LEMMA ReleaseDelivers ==
  ASSUME HostKeysTypeOK, Count(ring) + Cardinality(Held) < QueueSize, NEW D \in SUBSET Key,
         Held = DownAfter(keyQueue, D)
  PROVE  DownAfter(Abstract!released[NumKeys], D) = {}
  <1> DEFINE N == NumKeys
             rel(n) == Abstract!released[n]
             rest(n) == {k \in Held : n <= k}
             Fine(n) == /\ rel(n) \in Queues
                        /\ Len(rel(n)) + Cardinality(rest(n)) < QueueSize
                        /\ DownAfter(rel(n), D) = rest(n)
             Good == {n \in Nat : n <= N => Fine(n)}
  <1>0. ring \in Rings /\ keyDown \in [Key -> BOOLEAN] /\ keyQueue = QueueOf(ring) /\ N \in Nat
        /\ Key = 0 .. N - 1 /\ QueueSize \in Nat
    BY TypesAreRings, QueueOfRing, HostKeyRingConstants DEF Key
  <1>1. /\ rel(0) = keyQueue
        /\ \A n \in 1 .. N : rel(n) = IF keyDown[n - 1]
                                      THEN Abstract!EnqueueKeyEvent(rel(n - 1), Edge(n - 1, TRUE))
                                      ELSE rel(n - 1)
    BY <1>0, ReleasedIs
  <1> HIDE DEF rel
  <1>2. keyQueue \in Queues /\ Len(keyQueue) = Count(ring)
    BY <1>0, QueueIs, CountIs, HostKeyRingConstants DEF Queues, Index
  <1>3. Held \subseteq Key /\ IsFiniteSet(Held) /\ \A k \in Key : k \in Held <=> keyDown[k] = TRUE
    <2>1. IsFiniteSet(0 .. N - 1)
      BY <1>0, FS_Interval
    <2>2. Held \subseteq Key
      BY DEF Held
    <2> QED BY <1>0, <2>1, <2>2, FS_Subset DEF Held
  <1>4. \A n \in Nat : IsFiniteSet(rest(n)) /\ Cardinality(rest(n)) \in Nat
    <2> SUFFICES ASSUME NEW n \in Nat PROVE IsFiniteSet(rest(n)) /\ Cardinality(rest(n)) \in Nat
      OBVIOUS
    <2>1. rest(n) \subseteq Held
      OBVIOUS
    <2> HIDE DEF rest
    <2> QED BY <1>3, <2>1, FS_Subset, FS_CardinalityType
  <1>5. 0 \in Good
    <2>1. rest(0) = Held
      BY <1>0, <1>3
    <2> HIDE DEF rest
    <2> QED BY <1>1, <1>2, <2>1
  <1>6. ASSUME NEW n \in Nat, n \in Good PROVE n + 1 \in Good
    <2> SUFFICES ASSUME n + 1 <= N PROVE Fine(n + 1)
      <3>1. n + 1 \in Nat
        OBVIOUS
      <3> HIDE DEF Fine
      <3> QED BY <3>1
    <2>1. n + 1 \in 1 .. N /\ (n + 1) - 1 = n /\ n \in Key /\ n <= N
      BY <1>0
    <2>2. rel(n + 1) = IF keyDown[n] THEN Abstract!EnqueueKeyEvent(rel(n), Edge(n, TRUE)) ELSE rel(n)
      BY <1>1, <2>1
    <2>3. Fine(n)
      BY <1>6, <2>1
    <2>4. CASE keyDown[n] = TRUE
      <3> DEFINE e == Edge(n, TRUE)
      <3>1. e \in KeyEvent /\ e.scancode = n /\ e.isRelease = TRUE
        BY <2>1 DEF Edge, KeyEvent
      <3>2. rel(n + 1) = Abstract!EnqueueKeyEvent(rel(n), e)
        BY <2>2, <2>4
      <3> HIDE DEF e
      <3>3. n \in rest(n) /\ rest(n + 1) = rest(n) \ {n}
        BY <1>0, <1>3, <2>1, <2>4
      <3>4. Cardinality(rest(n + 1)) = Cardinality(rest(n)) - 1 /\ Cardinality(rest(n)) \in Nat
            /\ Cardinality(rest(n + 1)) \in Nat
        <4> HIDE DEF rest
        <4>0. n + 1 \in Nat
          OBVIOUS
        <4>1. IsFiniteSet(rest(n)) /\ Cardinality(rest(n)) \in Nat
              /\ Cardinality(rest(n + 1)) \in Nat
          BY <1>4, <4>0
        <4> QED BY <3>3, <4>1, FS_RemoveElement
      <3> HIDE DEF rest
      <3>5. rel(n) \in Seq(KeyEvent) /\ Len(rel(n)) \in Nat
        BY <2>3 DEF Queues
      <3>6. ~Abstract!QueueIsFull(rel(n))
        BY <1>0, <2>3, <3>4, <3>5 DEF Abstract!QueueIsFull
      <3>7. rel(n + 1) = Append(rel(n), e)
        BY <3>2, <3>6 DEF Abstract!EnqueueKeyEvent
      <3>8. rel(n + 1) \in Seq(KeyEvent) /\ Len(rel(n + 1)) = Len(rel(n)) + 1
        BY <3>1, <3>5, <3>7
      <3>9. Len(rel(n + 1)) + Cardinality(rest(n + 1)) < QueueSize
        BY <1>0, <2>3, <3>4, <3>5, <3>8
      <3>10. rel(n + 1) \in Queues
        BY <1>0, <3>4, <3>5, <3>8, <3>9 DEF Queues
      <3>11. DownAfter(rel(n + 1), D) = After(rest(n), e)
        BY <2>3, <3>1, <3>5, <3>7, DownAfterAppend
      <3>12. After(rest(n), e) = rest(n + 1)
        BY <3>1, <3>3 DEF After
      <3> QED BY <3>9, <3>10, <3>11, <3>12
    <2>5. CASE keyDown[n] = FALSE
      <3>1. rel(n + 1) = rel(n)
        BY <2>2, <2>5
      <3>2. rest(n + 1) = rest(n)
        BY <1>0, <1>3, <2>1, <2>5
      <3> HIDE DEF rest
      <3> QED BY <2>3, <3>1, <3>2
    <2> QED BY <1>0, <2>1, <2>4, <2>5
  <1> HIDE DEF Fine
  <1>7. Fine(N)
    <2> HIDE DEF Good
    <2>1. N \in Good
      BY <1>0, <1>5, <1>6, SetInduction
    <2> QED BY <1>0, <2>1 DEF Good
  <1>8. rest(N) = {}
    BY <1>0, <1>3
  <1> HIDE DEF rest
  <1> QED BY <1>7, <1>8 DEF Fine, rel
(***************************************************************************)
(* Whatever happens, the keys that are down are those the guest will have  *)
(* down once it has read the edges under way, if none of them was lost.    *)
(***************************************************************************)
GuestHeld == {k \in Key : guestDown[k] = TRUE}
ViewFollows == Held = DownAfter(keyQueue, DownAfter(taken, GuestHeld))

LEMMA TakenIs ==
  ASSUME Protocol
  PROVE  taken = <<>> \/ \E e \in KeyEvent : taken = <<e>>
  <1>1. Phases /\ Between /\ Asked
    BY DEF Protocol
  <1> QED BY <1>1 DEF Phases, Between, Asked, ForInquiry, ForInstant

\* An emulator step either leaves the queue alone or takes its first edge.
LEMMA TakeFollows ==
  ASSUME HostKeysTypeOK, Protocol, ViewFollows, Track, guestDown' = guestDown,
         HostPopKeyEvent \/ UNCHANGED hostKeysVars
  PROVE  ViewFollows'
  <1>1. GuestHeld' = GuestHeld /\ GuestHeld \subseteq Key
    BY DEF GuestHeld, Key
  <1>2. taken \in Seq(KeyEvent)
    <2>1. CASE taken = <<>>
      BY <2>1
    <2>2. CASE \E e \in KeyEvent : taken = <<e>>
      BY <2>2
    <2> QED BY <2>1, <2>2, TakenIs
  <1>3. keyQueue \in Seq(KeyEvent)
    BY TypesAreRings, QueueOfRing, QueueIs
  <1>4. Held' = Held
    <2>1. keyDown' = keyDown
      BY KeysMove
    <2> QED BY <2>1 DEF Held, Key
  <1>5. \A s, D : DownAfter(s, D) \subseteq Key
    BY DEF DownAfter
  <1>6. PICK t, q, G : t = taken' /\ q = keyQueue' /\ G = GuestHeld
    OBVIOUS
  <1>7. ViewFollows' <=> Held = DownAfter(q, DownAfter(t, G))
    BY <1>1, <1>4, <1>6 DEF ViewFollows, DownAfter, Last, Key
  <1>8. CASE HostPopKeyEvent
    <2>1. keyQueue # <<>> /\ q = Tail(keyQueue) /\ t = Append(taken, Head(keyQueue))
      BY <1>6, <1>8, KeysMove, TrackIs
    <2>2. DownAfter(keyQueue, DownAfter(taken, G)) = DownAfter(q, After(DownAfter(taken, G), Head(keyQueue)))
          /\ Head(keyQueue) \in KeyEvent
      BY <1>3, <1>5, <2>1, DownAfterFirst
    <2>3. DownAfter(t, G) = After(DownAfter(taken, G), Head(keyQueue))
      BY <1>1, <1>2, <1>6, <2>1, <2>2, DownAfterAppend
    <2> QED BY <1>6, <1>7, <2>2, <2>3 DEF ViewFollows
  <1>9. CASE UNCHANGED hostKeysVars
    <2>1. q = keyQueue /\ t = taken
      BY <1>6, <1>9, KeysMove, TrackIs
    <2> QED BY <1>6, <1>7, <2>1 DEF ViewFollows
  <1> QED BY <1>8, <1>9
\* The guest reads a byte: it is the edge it was told of, or no edge.
LEMMA ReadFollows ==
  ASSUME HostKeysTypeOK, Protocol, ViewFollows, RomReceive, guestDown \in [Key -> BOOLEAN]
  PROVE  ViewFollows'
  <1>1. UNCHANGED hostKeysVars
    BY DEF RomReceive, ReadSR
  <1>2. keyQueue' = keyQueue /\ Held' = Held
    BY <1>1, KeysMove DEF Held, Key
  <1>3. CASE ~IsEdge(sr) /\ UNCHANGED <<guestDown, taken>>
    BY <1>2, <1>3 DEF ViewFollows, GuestHeld, DownAfter, Last, Key
  <1>4. CASE /\ IsEdge(sr)
             /\ guestDown' = [guestDown EXCEPT ![Decoded(sr).scancode] = ~Decoded(sr).isRelease]
             /\ taken' = IF taken = <<>> THEN taken ELSE Tail(taken)
    <2>1. PICK e \in KeyEvent : taken = <<e>>
      BY <1>4, PollDelivers, TakenIs
    <2>2. Decoded(sr) = e
      BY <1>4, <2>1, PollDelivers
    <2>3. taken' = <<>>
      BY <1>4, <2>1
    <2>4. PICK G, H : G = GuestHeld /\ H = GuestHeld'
      OBVIOUS
    <2>5. e.scancode \in Key /\ e.isRelease \in BOOLEAN
      BY DEF KeyEvent
    <2>6. guestDown' = [guestDown EXCEPT ![e.scancode] = ~e.isRelease]
      BY <1>4, <2>2
    <2>7. H = After(G, e)
      <3>1. H = {k \in Key : guestDown'[k] = TRUE} /\ G = {k \in Key : guestDown[k] = TRUE}
        BY <2>4 DEF GuestHeld, Key
      <3>2. \A k \in Key : guestDown'[k] = IF k = e.scancode THEN ~e.isRelease ELSE guestDown[k]
        BY <2>6
      <3>3. CASE e.isRelease = TRUE
        BY <2>5, <3>1, <3>2, <3>3 DEF After
      <3>4. CASE e.isRelease = FALSE
        BY <2>5, <3>1, <3>2, <3>4 DEF After
      <3> QED BY <2>5, <3>3, <3>4
    <2>8. G \subseteq Key /\ H \subseteq Key
      BY <2>4, <2>5, <2>7 DEF GuestHeld, After
    <2>9. DownAfter(<<e>>, G) = H
      <3>1. <<e>> \in Seq(KeyEvent) /\ <<e>> # <<>> /\ Head(<<e>>) = e /\ Tail(<<e>>) = <<>>
        OBVIOUS
      <3> QED BY <2>7, <2>8, <3>1, DownAfterFirst, DownAfterNothing
    <2>10. DownAfter(<<>>, H) = H
      BY <2>8, DownAfterNothing
    <2>11. Held = DownAfter(keyQueue, H)
      BY <2>1, <2>4, <2>9 DEF ViewFollows
    <2>12. ViewFollows' <=> Held' = DownAfter(keyQueue', DownAfter(taken', H))
      BY <2>4 DEF ViewFollows, DownAfter, Last, Key
    <2> QED BY <1>2, <2>3, <2>10, <2>11, <2>12
  <1> QED BY <1>3, <1>4 DEF RomReceive

\* A client that leaves room for its edges.
LEMMA ClientFollows ==
  ASSUME HostKeysTypeOK, Protocol, ViewFollows, Client, patient = TRUE
  PROVE  ViewFollows'
  <1>1. keyDown \in [Key -> BOOLEAN] /\ ring \in Rings /\ keyQueue = QueueOf(ring)
        /\ keyQueue \in Seq(KeyEvent)
    BY TypesAreRings, QueueOfRing, QueueIs
  <1>2. taken' = taken /\ guestDown' = guestDown
    BY DEF Client, guestVars
  <1>3. PICK D, q : D = DownAfter(taken, GuestHeld) /\ q = keyQueue'
    OBVIOUS
  <1>4. D \subseteq Key /\ Held = DownAfter(keyQueue, D)
    BY <1>3 DEF ViewFollows, DownAfter
  <1>5. ViewFollows' <=> Held' = DownAfter(q, D)
    BY <1>2, <1>3 DEF ViewFollows, DownAfter, Last, GuestHeld, Key
  <1>6. ASSUME ~QueueIsFull(ring), NEW k \in Key, NEW down \in BOOLEAN, HostKey(k, down)
        PROVE  ViewFollows'
    <2> DEFINE e == Edge(k, ~down)
    <2>1. e \in KeyEvent /\ e.scancode = k /\ (e.isRelease = TRUE <=> down = FALSE)
      BY DEF Edge, KeyEvent
    <2>2. q = Abstract!EnqueueKeyEvent(keyQueue, e)
      BY <1>3, <1>6, KeysMove
    <2> HIDE DEF e
    <2>3. q = Append(keyQueue, e)
      BY <1>1, <1>6, <2>2, FullMatches DEF Abstract!EnqueueKeyEvent
    <2>4. DownAfter(q, D) = After(Held, e)
      BY <1>1, <1>4, <2>1, <2>3, DownAfterAppend
    <2>5. Held' = After(Held, e)
      <3>1. keyDown' = [keyDown EXCEPT ![k] = down]
        BY <1>6 DEF HostKey
      <3>2. Held' = {i \in Key : keyDown'[i] = TRUE} /\ Held = {i \in Key : keyDown[i] = TRUE}
        <4>1. keyDown' \in [Key -> BOOLEAN]
          BY <1>1, <3>1
        <4> QED BY <1>1, <4>1 DEF Held, Key
      <3>3. CASE down = TRUE
        BY <1>1, <2>1, <3>1, <3>2, <3>3 DEF After
      <3>4. CASE down = FALSE
        BY <1>1, <2>1, <3>1, <3>2, <3>4 DEF After
      <3> QED BY <3>3, <3>4
    <2> QED BY <1>5, <2>4, <2>5
  <1>7. ASSUME Count(ring) + Cardinality(Held) < QueueSize, HostReleaseAllKeys
        PROVE  ViewFollows'
    <2>1. q = Abstract!released[NumKeys]
      BY <1>3, <1>7, KeysMove
    <2>2. DownAfter(q, D) = {}
      BY <1>4, <1>7, <2>1, ReleaseDelivers
    <2>3. Held' = {}
      BY <1>7 DEF HostReleaseAllKeys, Held, Key
    <2> QED BY <1>5, <2>2, <2>3
  <1> QED BY <1>6, <1>7 DEF Client

LEMMA ViewStep ==
  ASSUME AllTypes, Protocol, patient = TRUE, ViewFollows, [KeyboardNext]_keyboardVars
  PROVE  ViewFollows'
  <1>0. HostKeysTypeOK /\ guestDown \in [Key -> BOOLEAN]
    BY DEF AllTypes, GuestTypes
  <1>1. ASSUME RomTransmitMode \/ RomReceiveMode PROVE ViewFollows'
    <2>1. Track /\ guestDown' = guestDown
      BY <1>1 DEF RomTransmitMode, RomReceiveMode
    <2>2. HostPopKeyEvent \/ UNCHANGED hostKeysVars
      BY <1>1 DEF RomTransmitMode, RomReceiveMode, WriteACR, StartSrReceive
    <2> QED BY <1>0, <2>1, <2>2, TakeFollows
  <1>2. ASSUME RomCommand PROVE ViewFollows'
    <2>1. Track /\ guestDown' = guestDown
      BY <1>2 DEF RomCommand
    <2>2. HostPopKeyEvent \/ UNCHANGED hostKeysVars
      BY <1>2 DEF RomCommand, WriteSR, RespondToCommand
    <2> QED BY <1>0, <2>1, <2>2, TakeFollows
  <1>3. ASSUME TimePasses PROVE ViewFollows'
    <2>1. Track /\ guestDown' = guestDown
      BY <1>3 DEF TimePasses, guestVars
    <2>2. HostPopKeyEvent \/ UNCHANGED hostKeysVars
      BY <1>3 DEF TimePasses, ViaStep, StepShiftRegister
    <2> QED BY <1>0, <2>1, <2>2, TakeFollows
  <1>4. ASSUME MachineReset PROVE ViewFollows'
    <2>1. PICK t, q, G, H : t = taken' /\ q = keyQueue' /\ G = GuestHeld' /\ H = Held'
      OBVIOUS
    <2>2. t = <<>> /\ q = <<>>
      BY <1>0, <1>4, <2>1, KeysMove DEF MachineReset, ViaReset
    <2>3. G = {} /\ H = {}
      BY <1>4, <2>1 DEF MachineReset, ViaReset, HostReset, GuestHeld, Held, Key
    <2>4. DownAfter(<<>>, {}) = {}
      BY DownAfterNothing
    <2>5. ViewFollows' <=> H = DownAfter(q, DownAfter(t, G))
      BY <2>1 DEF ViewFollows, DownAfter, Last, Key
    <2> QED BY <2>2, <2>3, <2>4, <2>5
  <1>5. ASSUME UNCHANGED keyboardVars PROVE ViewFollows'
    <2>1. keyQueue' = keyQueue /\ Held' = Held
      BY <1>0, <1>5, KeysMove DEF keyboardVars, allViaVars, Held, Key
    <2>2. taken' = taken /\ guestDown' = guestDown
      BY <1>5 DEF keyboardVars, guestVars
    <2> QED BY <2>1, <2>2 DEF ViewFollows, GuestHeld, DownAfter, Last, Key
  <1> QED BY <1>0, <1>1, <1>2, <1>3, <1>4, <1>5, ReadFollows, ClientFollows DEF KeyboardNext, Rom
LEMMA ViewStart == KeyboardInit => LastIsHeld /\ ViewFollows
  <1> SUFFICES ASSUME KeyboardInit PROVE LastIsHeld /\ ViewFollows
    OBVIOUS
  <1>1. HostKeysTypeOK /\ keyQueue = <<>>
    BY KeysStart DEF KeyboardInit, ViaStart, Abstract!HostKeysInit
  <1>2. Held = {} /\ GuestHeld = {} /\ taken = <<>>
    BY DEF KeyboardInit, ViaStart, HostKeysInit, Held, GuestHeld
  <1>3. DownAfter(<<>>, {}) = {}
    BY DownAfterNothing
  <1> QED BY <1>1, <1>2, <1>3 DEF LastIsHeld, EndsUp, Last, ViewFollows

GuestView == AllTypes /\ Protocol /\ LastIsHeld /\ (patient = TRUE => ViewFollows)

LEMMA GuestViewStep == GuestView /\ [KeyboardNext]_keyboardVars => GuestView'
  <1> SUFFICES ASSUME GuestView, [KeyboardNext]_keyboardVars PROVE GuestView'
    OBVIOUS
  <1>1. AllTypes' /\ Protocol' /\ LastIsHeld'
    BY AllTypesStep, PollStep, LastIsHeldStep, KeyboardNextActs, ActsOnKeys DEF GuestView, AllTypes
  <1>2. patient' = patient
    BY DEF KeyboardNext, Rom, RomTransmitMode, RomCommand, RomReceiveMode, RomReceive, TimePasses,
           Client, MachineReset, guestVars, keyboardVars
  <1> QED BY <1>1, <1>2, ViewStep DEF GuestView

LEMMA GuestViewGives == GuestView => GuestAgrees
  <1> SUFFICES ASSUME GuestView PROVE GuestAgrees
    OBVIOUS
  <1>1. KeyboardTypeOK /\ HostKeysTypeOK /\ patient \in BOOLEAN /\ guestDown \in [Key -> BOOLEAN]
    BY TypesAre DEF GuestView, AllTypes, GuestTypes
  <1>2. keyDown \in [Key -> BOOLEAN] /\ ring \in Rings /\ keyQueue = QueueOf(ring)
        /\ keyQueue \in Seq(KeyEvent)
    BY <1>1, TypesAreRings, QueueOfRing, QueueIs
  <1>3. Abstract!LastPressIsHeld
    <2> SUFFICES ASSUME NEW k \in Key, NEW i \in Abstract!LastEdges(k), ~keyDown[k]
                 PROVE  keyQueue[i].isRelease
      BY DEF Abstract!LastPressIsHeld, Abstract!Key, Key
    <2>1. i \in Last(keyQueue, k)
      BY DEF Abstract!LastEdges, Last
    <2>2. keyDown[k] = FALSE
      BY <1>2
    <2> QED BY <2>1, <2>2 DEF GuestView, LastIsHeld, EndsUp
  <1>4. ASSUME patient = TRUE, NEW k \in Key
        PROVE  keyDown[k] <=> IF Latest(k) = {} THEN guestDown[k]
                              ELSE \A i \in Latest(k) : ~UnderWay[i].isRelease
    <2> DEFINE G == GuestHeld
               u == UnderWay
    <2>1. G \subseteq Key
      BY DEF GuestHeld
    <2>2. u \in Seq(KeyEvent) /\ Held = DownAfter(u, G)
      BY <1>2, <1>4, <2>1, TakenIs, DownAfterBoth DEF GuestView, ViewFollows, UnderWay
    <2>3. Latest(k) = Last(u, k)
      BY DEF Latest, Last
    <2>4. (keyDown[k] = TRUE) <=> k \in Held
      BY <1>2 DEF Held
    <2>5. (guestDown[k] = TRUE) <=> k \in G
      BY DEF GuestHeld
    <2> HIDE DEF u, G
    <2>6. k \in Held <=> IF Last(u, k) = {} THEN k \in G ELSE \A i \in Last(u, k) : u[i].isRelease = FALSE
      BY <2>2 DEF DownAfter
    <2>7. \A i \in Last(u, k) : u[i].isRelease = FALSE <=> ~u[i].isRelease
      <3> SUFFICES ASSUME NEW i \in Last(u, k) PROVE u[i].isRelease = FALSE <=> ~u[i].isRelease
        OBVIOUS
      <3>1. u[i] \in KeyEvent
        BY <2>2 DEF Last
      <3>2. u[i].isRelease \in BOOLEAN
        BY <3>1 DEF KeyEvent
      <3> QED BY <3>2
    <2>8. keyDown[k] \in BOOLEAN /\ guestDown[k] \in BOOLEAN
      BY <1>1, <1>2
    <2>9. u = UnderWay
      BY DEF u
    <2>10. CASE Latest(k) = {}
      <3>1. (keyDown[k] = TRUE) <=> (guestDown[k] = TRUE)
        BY <2>3, <2>4, <2>5, <2>6, <2>10
      <3> QED BY <2>8, <2>10, <3>1
    <2>11. CASE Latest(k) # {}
      <3>1. (keyDown[k] = TRUE) <=> \A i \in Latest(k) : ~u[i].isRelease
        BY <2>3, <2>4, <2>6, <2>7, <2>11
      <3> QED BY <2>8, <2>9, <2>11, <3>1
    <2> QED BY <2>10, <2>11
  <1> QED BY <1>1, <1>3, <1>4 DEF GuestAgrees

\* However the client and the polling guest interleave, whatever the sizes: the
\* last queued edge of a key that is up is a release, and as long as no edge was
\* lost to a full buffer, the guest's keys, brought up to date with the edges under
\* way, are those the host holds.
THEOREM GuestWillAgree == KeyboardSpec => []GuestAgrees
  <1>1. KeyboardInit => GuestView
    BY AllTypesStart, PollStart, ViewStart DEF GuestView
  <1>2. GuestView /\ [KeyboardNext]_keyboardVars => GuestView'
    BY GuestViewStep
  <1>3. GuestView => GuestAgrees
    BY GuestViewGives
  <1> QED BY <1>1, <1>2, <1>3, PTL DEF KeyboardSpec
=============================================================================
