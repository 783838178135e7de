---------------------------- MODULE RtcM68kProofs ----------------------------
(***************************************************************************)
(* Proofs about numbers and their bits.                                    *)
(*                                                                         *)
(* The 68000 core (module M68kArith): what the flag formulas stand for, at *)
(* every width; a number has half a signed range h above and below zero,   *)
(* 2 * h values.                                                           *)
(*                                                                         *)
(* The clock chip (module Rtc), for every width of byte and command, every *)
(* number of clock bytes and of registers, with the guest, its emulator,   *)
(* the time task and restarts interleaved without the restrictions that    *)
(* MCRtc makes for TLC.                                                    *)
(***************************************************************************)
EXTENDS M68kArith, Rtc, WellFoundedInduction, TLAPS

\* Reduction modulo 2h of a number that is out of range by at most one turn.
LEMMA OneTurn ==
    ASSUME NEW h \in Nat \ {0}, NEW x \in Int, -2 * h <= x, x < 4 * h
    PROVE  x % (2 * h) = IF x < 0 THEN x + 2 * h
                         ELSE IF x < 2 * h THEN x ELSE x - 2 * h
<1>1. ASSUME NEW q \in Int, NEW r \in 0 .. 2 * h - 1, x = q * (2 * h) + r
      PROVE  x % (2 * h) = r
  BY <1>1
<1>2. CASE x < 0
  BY <1>2, <1>1
<1>3. CASE 0 <= x /\ x < 2 * h
  BY <1>3
<1>4. CASE 2 * h <= x
  BY <1>4
<1> QED  BY <1>2, <1>3, <1>4

\* Operands of width 2h, and a carry in.
Operands(h, s, d, k) ==
    h \in Nat \ {0} /\ s \in Width(2 * h) /\ d \in Width(2 * h) /\ k \in {0, 1}

LEMMA SumInWidth ==
    ASSUME NEW h, NEW s, NEW d, NEW k, Operands(h, s, d, k)
    PROVE  /\ Sum(s, d, k, 2 * h) \in Width(2 * h)
           /\ Sum(s, d, k, 2 * h) = IF s + d + k < 2 * h THEN s + d + k ELSE s + d + k - 2 * h
<1> DEFINE x == s + d + k
<1>1. h \in Nat \ {0} /\ x \in Int /\ 0 <= x /\ x < 4 * h /\ -2 * h <= x
  BY DEF Operands, Width
<1> HIDE DEF x
<1>2. x % (2 * h) = IF x < 2 * h THEN x ELSE x - 2 * h
  <2>1. x % (2 * h) = IF x < 0 THEN x + 2 * h ELSE IF x < 2 * h THEN x ELSE x - 2 * h
    BY <1>1, OneTurn
  <2> QED  BY <1>1, <2>1
<1> USE DEF x
<1> QED  BY <1>1, <1>2 DEF Sum, Operands, Width

LEMMA DifferenceInWidth ==
    ASSUME NEW h, NEW s, NEW d, NEW k, Operands(h, s, d, k)
    PROVE  /\ Difference(s, d, k, 2 * h) \in Width(2 * h)
           /\ Difference(s, d, k, 2 * h) = IF d - s - k < 0 THEN d - s - k + 2 * h ELSE d - s - k
<1>1. h \in Nat \ {0} /\ d - s - k \in Int /\ -2 * h <= d - s - k /\ d - s - k < 2 * h
  BY DEF Operands, Width
<1>2. (d - s - k) % (2 * h) = IF d - s - k < 0 THEN d - s - k + 2 * h ELSE d - s - k
  BY <1>1, OneTurn
<1> QED  BY <1>1, <1>2 DEF Difference, Operands, Width

-----------------------------------------------------------------------------
(* Carry and overflow.                                                     *)

\* The sign formula of a 32-bit addition is the carry the narrower additions
\* read from the bit above the result, and with it the sum is exact: a chain
\* of ADDX adds numbers of any length.
THEOREM AdditionIsExact ==
    ASSUME NEW h, NEW s, NEW d, NEW k, Operands(h, s, d, k)
    PROVE  LET r == Sum(s, d, k, 2 * h)
           IN  /\ CFLAG_ADD_32(s, d, r, 2 * h) <=> CarryOut(s, d, k, 2 * h)
               /\ r + 2 * h * Bit(CFLAG_ADD_32(s, d, r, 2 * h)) = s + d + k
<1> DEFINE r == Sum(s, d, k, 2 * h)
<1>1. r \in Width(2 * h) /\ r = IF s + d + k < 2 * h THEN s + d + k ELSE s + d + k - 2 * h
  BY SumInWidth
<1>2. CFLAG_ADD_32(s, d, r, 2 * h) <=> CarryOut(s, d, k, 2 * h)
  BY <1>1 DEF CFLAG_ADD_32, CarryOut, Msb, Operands, Width
<1>3. r + 2 * h * Bit(CarryOut(s, d, k, 2 * h)) = s + d + k
  BY <1>1 DEF CarryOut, Bit, Operands, Width
<1>4. Bit(CFLAG_ADD_32(s, d, r, 2 * h)) = Bit(CarryOut(s, d, k, 2 * h))
  BY <1>2 DEF Bit
<1> HIDE DEF r
<1>5. r + 2 * h * Bit(CFLAG_ADD_32(s, d, r, 2 * h)) = s + d + k
  BY <1>3, <1>4
<1> QED  BY <1>2, <1>5 DEF r

\* The same of a subtraction, SUBX and NEGX with it.
THEOREM SubtractionIsExact ==
    ASSUME NEW h, NEW s, NEW d, NEW k, Operands(h, s, d, k)
    PROVE  LET r == Difference(s, d, k, 2 * h)
           IN  /\ CFLAG_SUB_32(s, d, r, 2 * h) <=> BorrowOut(s, d, k)
               /\ r - 2 * h * Bit(CFLAG_SUB_32(s, d, r, 2 * h)) = d - s - k
<1> DEFINE r == Difference(s, d, k, 2 * h)
<1>1. r \in Width(2 * h) /\ r = IF d - s - k < 0 THEN d - s - k + 2 * h ELSE d - s - k
  BY DifferenceInWidth
<1>2. CFLAG_SUB_32(s, d, r, 2 * h) <=> BorrowOut(s, d, k)
  BY <1>1 DEF CFLAG_SUB_32, BorrowOut, Msb, Operands, Width
<1>3. r - 2 * h * Bit(BorrowOut(s, d, k)) = d - s - k
  BY <1>1 DEF BorrowOut, Bit, Operands, Width
<1>4. Bit(CFLAG_SUB_32(s, d, r, 2 * h)) = Bit(BorrowOut(s, d, k))
  BY <1>2 DEF Bit
<1> HIDE DEF r
<1>5. r - 2 * h * Bit(CFLAG_SUB_32(s, d, r, 2 * h)) = d - s - k
  BY <1>3, <1>4
<1> QED  BY <1>2, <1>5 DEF r

\* V is set by an addition exactly when the signed sum does not fit, and
\* while it is clear the result is that sum.
THEOREM AdditionOverflow ==
    ASSUME NEW h, NEW s, NEW d, NEW k, Operands(h, s, d, k)
    PROVE  LET r == Sum(s, d, k, 2 * h)
               exact == Signed(s, 2 * h) + Signed(d, 2 * h) + k
           IN  /\ VFLAG_ADD(s, d, r, 2 * h) <=> exact \notin -h .. h - 1
               /\ ~VFLAG_ADD(s, d, r, 2 * h) => Signed(r, 2 * h) = exact
<1> DEFINE r == Sum(s, d, k, 2 * h)
<1>1. r \in Width(2 * h) /\ r = IF s + d + k < 2 * h THEN s + d + k ELSE s + d + k - 2 * h
  BY SumInWidth
<1> QED  BY <1>1 DEF VFLAG_ADD, Signed, Msb, Operands, Width

\* The same of a subtraction and a comparison.
THEOREM SubtractionOverflow ==
    ASSUME NEW h, NEW s, NEW d, NEW k, Operands(h, s, d, k)
    PROVE  LET r == Difference(s, d, k, 2 * h)
               exact == Signed(d, 2 * h) - Signed(s, 2 * h) - k
           IN  /\ VFLAG_SUB(s, d, r, 2 * h) <=> exact \notin -h .. h - 1
               /\ ~VFLAG_SUB(s, d, r, 2 * h) => Signed(r, 2 * h) = exact
<1> DEFINE r == Difference(s, d, k, 2 * h)
<1>1. r \in Width(2 * h) /\ r = IF d - s - k < 0 THEN d - s - k + 2 * h ELSE d - s - k
  BY DifferenceInWidth
<1> QED  BY <1>1 DEF VFLAG_SUB, Signed, Msb, Operands, Width

-----------------------------------------------------------------------------
(* The conditions after CMP s, d.                                          *)

LEMMA CmpFlagsMean ==
    ASSUME NEW h, NEW s, NEW d, Operands(h, s, d, 0)
    PROVE  LET f == CmpFlags(s, d, 2 * h)
           IN  /\ f.n \in BOOLEAN /\ f.v \in BOOLEAN
               /\ f.c <=> d < s
               /\ f.z <=> d = s
               /\ (f.n # f.v) <=> Signed(d, 2 * h) < Signed(s, 2 * h)
<1> DEFINE r == Difference(s, d, 0, 2 * h)
           f == CmpFlags(s, d, 2 * h)
<1>1. r \in Width(2 * h) /\ r = IF d - s < 0 THEN d - s + 2 * h ELSE d - s
  <2>1. r \in Width(2 * h) /\ r = IF d - s - 0 < 0 THEN d - s - 0 + 2 * h ELSE d - s - 0
    BY DifferenceInWidth
  <2> QED  BY <2>1 DEF Operands, Width
<1>2. /\ f.n = Msb(r, 2 * h) /\ f.z = (r = 0) /\ f.v = VFLAG_SUB(s, d, r, 2 * h)
      /\ f.c = CFLAG_SUB_32(s, d, r, 2 * h)
  BY DEF CmpFlags
<1>3. CFLAG_SUB_32(s, d, r, 2 * h) <=> d < s
  BY <1>1 DEF CFLAG_SUB_32, Msb, Operands, Width
<1>4. (r = 0) <=> d = s
  BY <1>1 DEF Operands, Width
<1>5. (Msb(r, 2 * h) # VFLAG_SUB(s, d, r, 2 * h)) <=> Signed(d, 2 * h) < Signed(s, 2 * h)
  BY <1>1 DEF VFLAG_SUB, Signed, Msb, Operands, Width
<1>6. f.n \in BOOLEAN /\ f.v \in BOOLEAN
  <2>1. Msb(r, 2 * h) \in BOOLEAN /\ VFLAG_SUB(s, d, r, 2 * h) \in BOOLEAN
    BY DEF Msb, VFLAG_SUB
  <2> QED  BY <1>2, <2>1, Zenon
<1> HIDE DEF f, r
<1> QED  BY <1>2, <1>3, <1>4, <1>5, <1>6 DEF f

\* After CMP s, d: CC, CS, HI and LS order the numbers as unsigned, GE, LT,
\* GT and LE as signed, EQ and NE tell them apart, VS and VC say whether the
\* signed difference fits, and MI and PL have its sign where it does and the
\* opposite one where it does not.
THEOREM ConditionsCompare ==
    ASSUME NEW h, NEW s, NEW d, Operands(h, s, d, 0)
    PROVE  LET f == CmpFlags(s, d, 2 * h)
               sd == Signed(d, 2 * h)
               ss == Signed(s, 2 * h)
               fits == sd - ss \in -h .. h - 1
           IN  /\ Holds(f).EQ <=> d = s
               /\ Holds(f).NE <=> d # s
               /\ Holds(f).CC <=> d >= s
               /\ Holds(f).CS <=> d < s
               /\ Holds(f).HI <=> d > s
               /\ Holds(f).LS <=> d <= s
               /\ Holds(f).GE <=> sd >= ss
               /\ Holds(f).LT <=> sd < ss
               /\ Holds(f).GT <=> sd > ss
               /\ Holds(f).LE <=> sd <= ss
               /\ Holds(f).VC <=> fits
               /\ Holds(f).VS <=> ~fits
               /\ Holds(f).MI <=> IF fits THEN sd < ss ELSE sd > ss
               /\ Holds(f).PL <=> IF fits THEN sd >= ss ELSE sd <= ss
<1> DEFINE f == CmpFlags(s, d, 2 * h)
           sd == Signed(d, 2 * h)
           ss == Signed(s, 2 * h)
           fits == sd - ss \in -h .. h - 1
<1>1. /\ f.n \in BOOLEAN /\ f.v \in BOOLEAN
      /\ f.c <=> d < s
      /\ f.z <=> d = s
      /\ (f.n # f.v) <=> sd < ss
  BY CmpFlagsMean
<1>2. /\ Holds(f).EQ <=> f.z
      /\ Holds(f).NE <=> ~f.z
      /\ Holds(f).CC <=> ~f.c
      /\ Holds(f).CS <=> f.c
      /\ Holds(f).HI <=> (~f.c /\ ~f.z)
      /\ Holds(f).LS <=> (f.c \/ f.z)
      /\ Holds(f).GE <=> f.n = f.v
      /\ Holds(f).LT <=> f.n # f.v
      /\ Holds(f).GT <=> (f.n = f.v /\ ~f.z)
      /\ Holds(f).LE <=> (f.n # f.v \/ f.z)
      /\ Holds(f).VC <=> ~f.v
      /\ Holds(f).VS <=> f.v
      /\ Holds(f).MI <=> f.n
      /\ Holds(f).PL <=> ~f.n
  BY DEF Holds
<1>3. s \in Int /\ d \in Int /\ sd \in Int /\ ss \in Int
  BY DEF Operands, Width, Signed
<1>4. sd = ss <=> d = s
  BY DEF Operands, Width, Signed, Msb
<1>8. f.v <=> ~fits
  <2>1. LET r == Difference(s, d, 0, 2 * h)
            exact == sd - ss - 0
        IN  VFLAG_SUB(s, d, r, 2 * h) <=> exact \notin -h .. h - 1
    <3>1. h \in Nat \ {0} /\ s \in Width(2 * h) /\ d \in Width(2 * h) /\ 0 \in {0, 1}
      BY DEF Operands
    <3> QED  BY SubtractionOverflow
  <2>2. sd - ss - 0 = sd - ss
    BY <1>3
  <2>3. f.v = VFLAG_SUB(s, d, Difference(s, d, 0, 2 * h), 2 * h)
    BY DEF CmpFlags
  <2> QED  BY <2>1, <2>2, <2>3
<1> HIDE DEF f, sd, ss, fits
<1>5. /\ Holds(f).EQ <=> d = s
      /\ Holds(f).NE <=> d # s
      /\ Holds(f).CC <=> d >= s
      /\ Holds(f).CS <=> d < s
      /\ Holds(f).HI <=> d > s
      /\ Holds(f).LS <=> d <= s
  BY <1>1, <1>2, <1>3
<1>6. (f.n = f.v) <=> sd >= ss
  BY <1>1, <1>3
<1>7. /\ Holds(f).GE <=> sd >= ss
      /\ Holds(f).LT <=> sd < ss
      /\ Holds(f).GT <=> sd > ss
      /\ Holds(f).LE <=> sd <= ss
  BY <1>1, <1>2, <1>3, <1>4, <1>6
<1>9. h \in Nat \ {0}
  BY DEF Operands
<1>10. f.n \in BOOLEAN /\ f.v \in BOOLEAN /\ fits \in BOOLEAN
  BY <1>1 DEF fits
<1>11. (~fits /\ ~(sd < ss)) => sd > ss
  BY <1>3, <1>4, <1>9 DEF fits
<1>12. /\ Holds(f).VC <=> fits
       /\ Holds(f).VS <=> ~fits
  BY <1>2, <1>8
<1>13. f.n <=> IF fits THEN sd < ss ELSE ~(sd < ss)
  BY <1>1, <1>8, <1>10
<1>14. ~fits => (~(sd < ss) <=> sd > ss)
  BY <1>3, <1>11
<1>15. /\ Holds(f).MI <=> IF fits THEN sd < ss ELSE sd > ss
       /\ Holds(f).PL <=> IF fits THEN sd >= ss ELSE sd <= ss
  BY <1>2, <1>3, <1>13, <1>14
<1> QED  BY <1>5, <1>7, <1>12, <1>15 DEF f, sd, ss, fits

-----------------------------------------------------------------------------
(* Numbers and their digits.  Recursion is made a fact about sets: a set of  *)
(* naturals with 0 in it and with every successor is all of them, so a       *)
(* recursive function exists because its beginnings do.                      *)

LEMMA Induct ==
    ASSUME NEW S, S \subseteq Nat, 0 \in S, \A n \in S : n + 1 \in S
    PROVE  S = Nat
<1> DEFINE T == Nat \ S
<1> SUFFICES ASSUME T # {} PROVE FALSE
  OBVIOUS
<1>1. IsWellFoundedOn(OpToRel(<, Nat), Nat)
  BY NatLessThanWellFounded
<1>2. PICK x \in T : \A y \in T : ~ (<<y, x>> \in OpToRel(<, Nat))
  <2>1. T \subseteq Nat /\ T # {}
    OBVIOUS
  <2> HIDE DEF T
  <2> QED  BY <1>1, <2>1, WFMin
<1>3. \A y \in T : ~ (y < x)
  BY <1>2 DEF OpToRel
<1>4. x # 0 /\ x - 1 \in Nat /\ x - 1 < x
  OBVIOUS
<1>5. x - 1 \in S
  BY <1>3, <1>4
<1>6. (x - 1) + 1 \in S
  BY <1>5
<1> QED  BY <1>6

\* What a beginning of a recursive function is.
Beginning(f, n, z, step) ==
    f \in [0 .. n -> Int] /\ f[0] = z /\ \A i \in 0 .. n - 1 : f[i + 1] = step[<<i, f[i]>>]

LEMMA BeginningsExist ==
    ASSUME NEW z \in Int, NEW step \in [Nat \X Int -> Int]
    PROVE  \A n \in Nat : \E f : Beginning(f, n, z, step)
<1> DEFINE S == {n \in Nat : \E f : Beginning(f, n, z, step)}
<1>1. 0 \in S
  <2> DEFINE f == [i \in 0 .. 0 |-> z]
  <2>1. Beginning(f, 0, z, step)
    BY DEF Beginning
  <2> QED  BY <2>1
<1>2. ASSUME NEW n \in S PROVE n + 1 \in S
  <2>1. PICK f : Beginning(f, n, z, step)
    BY <1>2
  <2> DEFINE g == [i \in 0 .. n + 1 |-> IF i = n + 1 THEN step[<<n, f[n]>>] ELSE f[i]]
  <2>2. n \in Nat /\ f[n] \in Int /\ step[<<n, f[n]>>] \in Int
    BY <2>1 DEF Beginning
  <2>3. g \in [0 .. n + 1 -> Int]
    BY <2>1, <2>2 DEF Beginning
  <2>4. g[0] = z
    BY <2>1, <2>2 DEF Beginning
  <2>5. ASSUME NEW i \in 0 .. (n + 1) - 1 PROVE g[i + 1] = step[<<i, g[i]>>]
    <3>1. i \in 0 .. n /\ g[i] = f[i]
      BY <2>2
    <3>2. CASE i = n
      <4>1. g[i + 1] = step[<<n, f[n]>>]
        BY <3>2, <2>2
      <4>2. <<i, g[i]>> = <<n, f[n]>>
        BY <3>1, <3>2
      <4> HIDE DEF g
      <4> QED  BY <4>1, <4>2
    <3>3. CASE i # n
      BY <3>1, <3>3, <2>1, <2>2 DEF Beginning
    <3> QED  BY <3>2, <3>3
  <2>6. Beginning(g, n + 1, z, step)
    <3> HIDE DEF g
    <3> QED  BY <2>3, <2>4, <2>5 DEF Beginning
  <2> QED  BY <2>6, <2>2
<1>3. S = Nat
  <2>1. S \subseteq Nat
    OBVIOUS
  <2> HIDE DEF S
  <2> QED  BY <1>1, <1>2, <2>1, Induct
<1> QED  BY <1>3

LEMMA BeginningsAgree ==
    ASSUME NEW z \in Int, NEW step \in [Nat \X Int -> Int], NEW n \in Nat, NEW m \in Nat,
           NEW f, NEW g, Beginning(f, n, z, step), Beginning(g, m, z, step)
    PROVE  \A i \in Nat : i <= n /\ i <= m => f[i] = g[i]
<1> DEFINE S == {i \in Nat : i <= n /\ i <= m => f[i] = g[i]}
<1>1. 0 \in S
  BY DEF Beginning
<1>2. ASSUME NEW i \in S PROVE i + 1 \in S
  <2> SUFFICES ASSUME i + 1 <= n, i + 1 <= m PROVE f[i + 1] = g[i + 1]
    OBVIOUS
  <2>1. i \in 0 .. n - 1 /\ i \in 0 .. m - 1 /\ f[i] = g[i]
    OBVIOUS
  <2>2. f[i + 1] = step[<<i, f[i]>>] /\ g[i + 1] = step[<<i, g[i]>>]
    BY <2>1 DEF Beginning
  <2> QED  BY <2>1, <2>2
<1>3. S = Nat
  <2>1. S \subseteq Nat
    OBVIOUS
  <2> HIDE DEF S
  <2> QED  BY <1>1, <1>2, <2>1, Induct
<1> QED  BY <1>3

LEMMA RecursionExists ==
    ASSUME NEW z \in Int, NEW step \in [Nat \X Int -> Int]
    PROVE  \E f \in [Nat -> Int] : f[0] = z /\ \A i \in Nat : f[i + 1] = step[<<i, f[i]>>]
<1> DEFINE B(n) == CHOOSE f : Beginning(f, n, z, step)
<1> DEFINE F == [n \in Nat |-> B(n)[n]]
<1>1. \A n \in Nat : Beginning(B(n), n, z, step)
  BY BeginningsExist
<1> HIDE DEF B
<1>2. F \in [Nat -> Int]
  BY <1>1 DEF Beginning
<1>3. F[0] = z
  BY <1>1 DEF Beginning
<1>4. ASSUME NEW i \in Nat PROVE F[i + 1] = step[<<i, F[i]>>]
  <2>1. Beginning(B(i), i, z, step) /\ Beginning(B(i + 1), i + 1, z, step)
    BY <1>1
  <2>2. B(i)[i] = B(i + 1)[i]
    BY <2>1, BeginningsAgree
  <2>3. i \in 0 .. (i + 1) - 1
    OBVIOUS
  <2>4. B(i + 1)[i + 1] = step[<<i, B(i + 1)[i]>>]
    BY <2>1, <2>3 DEF Beginning
  <2> QED  BY <2>2, <2>4
<1> HIDE DEF F
<1> QED  BY <1>2, <1>3, <1>4

LEMMA Pow2Def ==
    Pow2 \in [Nat -> Nat] /\ Pow2[0] = 1 /\ \A n \in Nat : Pow2[n + 1] = 2 * Pow2[n]
<1> DEFINE step == [p \in Nat \X Int |-> 2 * p[2]]
<1>1. step \in [Nat \X Int -> Int]
  OBVIOUS
<1>2. PICK f \in [Nat -> Int] : f[0] = 1 /\ \A i \in Nat : f[i + 1] = step[<<i, f[i]>>]
  <2>1. 1 \in Int
    OBVIOUS
  <2> HIDE DEF step
  <2> QED  BY <1>1, <2>1, RecursionExists, Zenon
<1>3. \A i \in Nat : f[i + 1] = 2 * f[i]
  BY <1>2
<1> HIDE DEF step
<1>4. f = [n \in Nat |-> IF n = 0 THEN 1 ELSE 2 * f[n - 1]]
  <2>1. ASSUME NEW n \in Nat PROVE f[n] = IF n = 0 THEN 1 ELSE 2 * f[n - 1]
    <3>1. CASE n = 0
      BY <3>1, <1>2
    <3>2. CASE n # 0
      <4>1. n - 1 \in Nat /\ (n - 1) + 1 = n
        BY <3>2
      <4> QED  BY <4>1, <1>3, <3>2
    <3> QED  BY <3>1, <3>2
  <2> QED  BY <2>1, <1>2
<1>5. Pow2 = [n \in Nat |-> IF n = 0 THEN 1 ELSE 2 * Pow2[n - 1]]
  BY <1>4 DEF Pow2
<1>6. Pow2[0] = 1
  BY <1>5
<1>7. ASSUME NEW n \in Nat PROVE Pow2[n + 1] = 2 * Pow2[n]
  <2>1. n + 1 \in Nat /\ n + 1 # 0 /\ (n + 1) - 1 = n
    OBVIOUS
  <2> QED  BY <2>1, <1>5
<1>8. \A n \in Nat : Pow2[n] \in Nat
  <2> DEFINE S == {n \in Nat : Pow2[n] \in Nat}
  <2>1. 0 \in S
    BY <1>6
  <2>2. \A n \in S : n + 1 \in S
    BY <1>7
  <2>3. S = Nat
    <3>1. S \subseteq Nat
      OBVIOUS
    <3> HIDE DEF S
    <3> QED  BY <2>1, <2>2, <3>1, Induct
  <2> QED  BY <2>3
<1> QED  BY <1>5, <1>6, <1>7, <1>8

LEMMA Pow2Positive == \A n \in Nat : Pow2[n] \in Nat \ {0}
<1> DEFINE S == {n \in Nat : Pow2[n] > 0}
<1>1. 0 \in S /\ \A n \in S : n + 1 \in S
  BY Pow2Def
<1>2. S = Nat
  <2>1. S \subseteq Nat
    OBVIOUS
  <2> HIDE DEF S
  <2> QED  BY <1>1, <2>1, Induct
<1> QED  BY <1>2, Pow2Def

\* Division by a product, and remainders.  The operators keep the provers
\* from products and quotients where a lemma is only cited.
Product(x, y) == x * y
Quotient(x, m) == x \div m
Remainder(x, m) == x % m

LEMMA DividesOnce ==
    ASSUME NEW x \in Int, NEW m \in Nat \ {0}, NEW q \in Int, NEW r \in Nat, r < m,
           NEW v, v = Product(q, m), x = v + r
    PROVE  Quotient(x, m) = q /\ Remainder(x, m) = r
BY DEF Quotient, Remainder, Product

LEMMA Divided ==
    ASSUME NEW x \in Nat, NEW m \in Nat \ {0}
    PROVE  /\ Quotient(x, m) \in Nat
           /\ Remainder(x, m) \in 0 .. m - 1
           /\ x = Product(Quotient(x, m), m) + Remainder(x, m)
BY DEF Quotient, Remainder, Product

\* t digits of weight p and less than p of the rest.
LEMMA DigitsFit ==
    ASSUME NEW p \in Nat \ {0}, NEW b \in Nat \ {0}, NEW t \in 0 .. b - 1, NEW r \in 0 .. p - 1
    PROVE  Product(t, p) + r \in 0 .. Product(p, b) - 1
<1>1. t * p \in Nat /\ t * p <= (b - 1) * p
  OBVIOUS
<1>2. (b - 1) * p = p * b - p
  OBVIOUS
<1>3. p * b \in Int
  OBVIOUS
<1> QED  BY <1>1, <1>2, <1>3 DEF Product

LEMMA ProductPositive ==
    ASSUME NEW p \in Nat \ {0}, NEW b \in Nat \ {0}
    PROVE  Product(p, b) \in Nat \ {0}
BY DEF Product

LEMMA ProductNat ==
    ASSUME NEW p \in Nat, NEW b \in Nat
    PROVE  Product(p, b) \in Nat
BY DEF Product

LEMMA ProductTwice ==
    ASSUME NEW s \in Int, NEW b \in Int, NEW t \in Int, NEW p \in Int
    PROVE  Product(Product(s, b) + t, p) = Product(s, Product(p, b)) + Product(t, p)
BY DEF Product

LEMMA DividedTwice ==
    ASSUME NEW x \in Nat, NEW p \in Nat \ {0}, NEW b \in Nat \ {0}, NEW m, m = Product(p, b)
    PROVE  /\ m \in Nat \ {0}
           /\ Quotient(x, m) = Quotient(Quotient(x, p), b)
           /\ Remainder(x, m) = Remainder(x, p) + Product(Remainder(Quotient(x, p), b), p)
<1>1. PICK q \in Nat, r \in 0 .. p - 1 :
        q = Quotient(x, p) /\ r = Remainder(x, p) /\ x = Product(q, p) + r
  BY Divided
<1>2. PICK s \in Nat, t \in 0 .. b - 1 :
        s = Quotient(q, b) /\ t = Remainder(q, b) /\ q = Product(s, b) + t
  BY Divided
<1>3. m \in Nat \ {0}
  BY ProductPositive
<1>4. Product(q, p) = Product(s, m) + Product(t, p)
  BY <1>2, ProductTwice
<1>5. PICK y \in 0 .. m - 1 : y = Product(t, p) + r
  BY DigitsFit
<1>6. x = Product(s, m) + y
  <2>1. t \in Nat /\ p \in Nat /\ m \in Nat
    BY <1>3
  <2>2. Product(t, p) \in Nat /\ Product(s, m) \in Nat
    BY <2>1, ProductNat
  <2>3. PICK u \in Nat, v \in Nat : u = Product(t, p) /\ v = Product(s, m)
    BY <2>2
  <2>4. x = (v + u) + r /\ y = u + r
    BY <2>3, <1>1, <1>4, <1>5
  <2>5. x = v + y
    BY <2>4
  <2> QED  BY <2>3, <2>5
<1>7. Quotient(x, m) = s /\ Remainder(x, m) = y
  <2>1. PICK v : v = Product(s, m)
    OBVIOUS
  <2>2. x \in Int /\ s \in Int /\ y \in Nat /\ y < m /\ x = v + y
    BY <2>1, <1>3, <1>6
  <2> QED  BY <2>1, <2>2, <1>3, DividesOnce
<1>8. y = r + Product(t, p)
  <2>1. t \in Nat /\ p \in Nat
    OBVIOUS
  <2>2. Product(t, p) \in Nat
    BY <2>1, ProductNat
  <2> QED  BY <2>2, <1>5
<1> QED  BY <1>1, <1>2, <1>3, <1>7, <1>8

\* A number without its last n bits.
Shifted(x, n) == Quotient(x, Pow2[n])

\* One more bit.
LEMMA ShiftedOnce ==
    ASSUME NEW x \in Nat, NEW n \in Nat
    PROVE  /\ Shifted(x, n) \in Nat /\ Shifted(x, 0) = x
           /\ Shifted(x, n) = 2 * Shifted(x, n + 1) + (Shifted(x, n) % 2)
           /\ x < Pow2[n] => Shifted(x, n) = 0
<1>1. PICK p \in Nat \ {0}, m \in Nat, b \in Nat \ {0} :
        p = Pow2[n] /\ Pow2[n + 1] = m /\ m = Product(p, b) /\ b = 2
  BY Pow2Positive, Pow2Def DEF Product
<1>2. Quotient(x, m) = Quotient(Quotient(x, p), b)
  BY <1>1, DividedTwice
<1>3. PICK q \in Nat : q = Quotient(x, p)
  BY Divided
<1>4. q = 2 * Quotient(q, b) + (q % 2)
  BY <1>1 DEF Quotient
<1>5. Shifted(x, 0) = x
  <2>1. Pow2[0] = 1
    BY Pow2Def
  <2> QED  BY <2>1 DEF Shifted, Quotient
<1>6. x < p => q = 0
  BY <1>3 DEF Quotient
<1> QED  BY <1>1, <1>2, <1>3, <1>4, <1>5, <1>6 DEF Shifted

\* The n bits of a number, the highest first, stand for it.
LEMMA NumberOfBits ==
    ASSUME NEW c, NEW first \in Nat, NEW n \in Nat, NEW x \in Nat, x < Pow2[n],
           \A i \in 0 .. n - 1 : c[first + i] = Shifted(x, (n - 1) - i) % 2
    PROVE  Number(c, first, n) = x
<1> DEFINE Sums(f) ==
        f = [i \in 0 .. n |-> IF i = 0 THEN 0 ELSE 2 * f[i - 1] + c[first + i - 1]]
<1>0. Shifted(x, n) = 0 /\ Shifted(x, 0) = x
  BY ShiftedOnce
<1>1. \E f : Sums(f)
  <2> DEFINE f == [i \in 0 .. n |-> Shifted(x, n - i)]
  <2>1. ASSUME NEW i \in 0 .. n
        PROVE  f[i] = IF i = 0 THEN 0 ELSE 2 * f[i - 1] + c[first + i - 1]
    <3>1. CASE i = 0
      <4>1. n - i = n
        BY <3>1
      <4> QED  BY <3>1, <4>1, <1>0
    <3>2. CASE i # 0
      <4>1. PICK k \in 0 .. n - 1 : k = i - 1
        BY <3>2
      <4>2. PICK j \in Nat : j = n - i
        OBVIOUS
      <4>3. n - (i - 1) = j + 1 /\ (n - 1) - k = j /\ first + i - 1 = first + k /\ i - 1 \in 0 .. n
        BY <4>1, <4>2, <3>2
      <4>4. f[i] = Shifted(x, j) /\ f[i - 1] = Shifted(x, j + 1)
        BY <4>2, <4>3
      <4>5. c[first + k] = Shifted(x, j) % 2
        BY <4>1, <4>3
      <4>6. Shifted(x, j) = 2 * Shifted(x, j + 1) + (Shifted(x, j) % 2)
        BY ShiftedOnce
      <4> HIDE DEF f
      <4> QED  BY <3>2, <4>3, <4>4, <4>5, <4>6
    <3> QED  BY <3>1, <3>2
  <2>2. f = [i \in DOMAIN f |-> f[i]] /\ DOMAIN f = 0 .. n
    OBVIOUS
  <2> HIDE DEF f
  <2>3. Sums(f)
    BY <2>1, <2>2
  <2> QED  BY <2>3
<1>2. PICK f : f = (CHOOSE sum : Sums(sum)) /\ Sums(f)
  BY <1>1
<1>3. Number(c, first, n) = f[n]
  BY <1>2 DEF Number
<1>4. \A i \in 0 .. n : f[i] = IF i = 0 THEN 0 ELSE 2 * f[i - 1] + c[first + i - 1]
  BY <1>2
<1> DEFINE S == {i \in Nat : i <= n => f[i] = Shifted(x, n - i)}
<1>5. 0 \in S
  <2>1. n - 0 = n /\ 0 \in 0 .. n
    OBVIOUS
  <2>2. f[0] = 0
    BY <2>1, <1>4
  <2> QED  BY <2>1, <2>2, <1>0
<1>6. ASSUME NEW i \in S PROVE i + 1 \in S
  <2> SUFFICES ASSUME i + 1 <= n PROVE f[i + 1] = Shifted(x, n - (i + 1))
    OBVIOUS
  <2>1. PICK j \in Nat : j = n - (i + 1)
    OBVIOUS
  <2>2. /\ i + 1 \in 0 .. n /\ i \in 0 .. n - 1 /\ (i + 1) - 1 = i /\ i + 1 # 0
        /\ first + (i + 1) - 1 = first + i /\ (n - 1) - i = j /\ n - i = j + 1
    BY <2>1
  <2>3. f[i + 1] = 2 * f[i] + c[first + i]
    BY <2>2, <1>4
  <2>4. c[first + i] = Shifted(x, j) % 2
    BY <2>2
  <2>5. f[i] = Shifted(x, j + 1)
    BY <2>2
  <2>6. Shifted(x, j) = 2 * Shifted(x, j + 1) + (Shifted(x, j) % 2)
    BY ShiftedOnce
  <2> QED  BY <2>1, <2>3, <2>4, <2>5, <2>6
<1>7. n \in S
  <2>1. S \subseteq Nat
    OBVIOUS
  <2> HIDE DEF S
  <2> QED  BY <1>5, <1>6, <2>1, Induct
<1>8. n <= n /\ n - n = 0
  OBVIOUS
<1> QED  BY <1>3, <1>7, <1>8, <1>0

-----------------------------------------------------------------------------
(* The bytes of a time. *)

LEMMA Pow2Sum == \A a, b \in Nat : Pow2[a + b] = Product(Pow2[a], Pow2[b])
<1> SUFFICES ASSUME NEW a \in Nat PROVE \A b \in Nat : Pow2[a + b] = Product(Pow2[a], Pow2[b])
  OBVIOUS
<1>1. PICK p \in Nat \ {0} : p = Pow2[a]
  BY Pow2Positive
<1> DEFINE S == {b \in Nat : Pow2[a + b] = Product(p, Pow2[b])}
<1>2. 0 \in S
  <2>1. a + 0 = a /\ Pow2[0] = 1
    BY Pow2Def
  <2> QED  BY <2>1, <1>1 DEF Product
<1>3. ASSUME NEW b \in S PROVE b + 1 \in S
  <2>1. PICK q \in Nat \ {0} : q = Pow2[b]
    BY Pow2Positive
  <2>2. a + b \in Nat /\ a + (b + 1) = (a + b) + 1
    OBVIOUS
  <2>3. Pow2[a + (b + 1)] = 2 * Pow2[a + b] /\ Pow2[b + 1] = 2 * q
    BY <2>1, <2>2, Pow2Def
  <2>4. Pow2[a + b] = p * q
    BY <2>1 DEF Product
  <2>5. 2 * (p * q) = p * (2 * q)
    OBVIOUS
  <2> QED  BY <2>3, <2>4, <2>5 DEF Product
<1>4. S = Nat
  <2>1. S \subseteq Nat
    OBVIOUS
  <2> HIDE DEF S
  <2> QED  BY <1>2, <1>3, <2>1, Induct
<1> QED  BY <1>1, <1>4

LEMMA Weights ==
    /\ Base \in Nat \ {0} /\ Weight(0) = 1
    /\ \A i \in Nat : Weight(i) \in Nat \ {0} /\ Weight(i + 1) = Product(Weight(i), Base)
<1>1. DataBits \in Nat \ {0}
  BY RtcConstants
<1>2. Base \in Nat \ {0} /\ Weight(0) = 1
  <2>1. DataBits * 0 = 0
    BY <1>1
  <2> QED  BY <1>1, <2>1, Pow2Positive, Pow2Def DEF Base, Weight
<1>3. ASSUME NEW i \in Nat
      PROVE  Weight(i) \in Nat \ {0} /\ Weight(i + 1) = Product(Weight(i), Base)
  <2>1. PICK k \in Nat : k = DataBits * i
    BY <1>1
  <2>2. DataBits * (i + 1) = k + DataBits
    BY <1>1, <2>1
  <2>3. DataBits \in Nat
    BY <1>1
  <2> QED  BY <2>1, <2>2, <2>3, Pow2Sum, Pow2Positive DEF Base, Weight
<1> QED  BY <1>2, <1>3

LEMMA BytesInRange ==
    ASSUME NEW t \in Times, NEW i \in Nat
    PROVE  ByteOf(t, i) \in 0 .. Base - 1
<1>1. PICK w \in Nat \ {0} : w = Weight(i)
  BY Weights
<1>2. t \in Nat
  BY Weights DEF Times
<1>3. t \div w \in Nat
  BY <1>2
<1> QED  BY <1>1, <1>3, Weights DEF ByteOf

\* The sum that rtcReadMacTimeFromMem makes.
Sums(f, m, base) ==
    f = [i \in 0 .. ClockBytes |-> IF i = 0 THEN 0 ELSE f[i - 1] + m[base + i - 1] * Weight(i - 1)]

LEMMA SumIsMade ==
    ASSUME NEW base \in Nat, NEW m,
           \A i \in 0 .. ClockBytes - 1 : m[base + i] \in 0 .. Base - 1
    PROVE  \E f : /\ TimeIn(m, base) = f[ClockBytes] /\ f[0] = 0
                  /\ \A i \in 0 .. ClockBytes - 1 :
                        f[i + 1] = f[i] + Product(m[base + i], Weight(i))
<1>0. ClockBytes \in Nat \ {0}
  BY RtcConstants
<1> DEFINE a == [i \in Nat |-> IF i < ClockBytes THEN m[base + i] * Weight(i) ELSE 0]
<1>1. a \in [Nat -> Int]
  <2>1. ASSUME NEW i \in Nat, i < ClockBytes PROVE m[base + i] * Weight(i) \in Int
    <3>1. i \in 0 .. ClockBytes - 1
      BY <1>0, <2>1
    <3>2. PICK d \in Int, w \in Int : d = m[base + i] /\ w = Weight(i)
      <4>1. m[base + i] \in 0 .. Base - 1
        BY <3>1
      <4>2. m[base + i] \in Int /\ Weight(i) \in Int
        BY <4>1, <2>1, Weights
      <4> QED  BY <4>2
    <3>3. d * w \in Int
      OBVIOUS
    <3> QED  BY <3>2, <3>3
  <2> QED  BY <2>1
<1>2. \A i \in 0 .. ClockBytes - 1 : a[i] = m[base + i] * Weight(i)
  BY <1>0
<1> HIDE DEF a
<1> DEFINE step == [p \in Nat \X Int |-> p[2] + a[p[1]]]
<1>3. step \in [Nat \X Int -> Int]
  BY <1>1
<1>4. \A i \in Nat, s \in Int : step[<<i, s>>] = s + a[i]
  OBVIOUS
<1> HIDE DEF step
<1>5. PICK F \in [Nat -> Int] : F[0] = 0 /\ \A i \in Nat : F[i + 1] = step[<<i, F[i]>>]
  <2>1. 0 \in Int
    OBVIOUS
  <2> QED  BY <1>3, <2>1, RecursionExists, Zenon
<1>6. ASSUME NEW i \in 0 .. ClockBytes - 1 PROVE F[i + 1] = F[i] + m[base + i] * Weight(i)
  <2>1. i \in Nat /\ F[i] \in Int
    BY <1>0
  <2>2. F[i + 1] = step[<<i, F[i]>>] /\ step[<<i, F[i]>>] = F[i] + a[i]
    BY <2>1, <1>4, <1>5
  <2> QED  BY <2>2, <1>2
<1> DEFINE G == [i \in 0 .. ClockBytes |-> F[i]]
<1>7. Sums(G, m, base)
  <2>1. ASSUME NEW i \in 0 .. ClockBytes
        PROVE  G[i] = IF i = 0 THEN 0 ELSE G[i - 1] + m[base + i - 1] * Weight(i - 1)
    <3>1. CASE i = 0
      BY <3>1, <1>5
    <3>2. CASE i # 0
      <4>1. PICK k \in 0 .. ClockBytes - 1 : k = i - 1
        BY <3>2, <1>0
      <4>2. i = k + 1 /\ base + i - 1 = base + k /\ k \in 0 .. ClockBytes
        BY <4>1, <1>0
      <4>3. F[k + 1] = F[k] + m[base + k] * Weight(k)
        BY <1>6
      <4> QED  BY <3>2, <4>1, <4>2, <4>3
    <3> QED  BY <3>1, <3>2
  <2>2. DOMAIN G = 0 .. ClockBytes /\ G = [i \in DOMAIN G |-> G[i]]
    OBVIOUS
  <2> HIDE DEF G
  <2> QED  BY <2>1, <2>2 DEF Sums
<1> HIDE DEF G
<1>8. PICK f : f = (CHOOSE sum : Sums(sum, m, base)) /\ Sums(f, m, base)
  BY <1>7
<1>9. TimeIn(m, base) = f[ClockBytes]
  BY <1>8 DEF TimeIn, Sums
<1>10. f[0] = 0
  <2>1. 0 \in 0 .. ClockBytes
    BY <1>0
  <2> QED  BY <2>1, <1>8 DEF Sums
<1>11. ASSUME NEW i \in 0 .. ClockBytes - 1
       PROVE  f[i + 1] = f[i] + Product(m[base + i], Weight(i))
  <2>1. i + 1 \in 0 .. ClockBytes /\ i + 1 # 0 /\ (i + 1) - 1 = i /\ base + (i + 1) - 1 = base + i
    BY <1>0
  <2> QED  BY <2>1, <1>8 DEF Sums, Product
<1> QED  BY <1>9, <1>10, <1>11

LEMMA TimeInRange ==
    ASSUME NEW base \in Nat, NEW m,
           \A i \in 0 .. ClockBytes - 1 : m[base + i] \in 0 .. Base - 1
    PROVE  TimeIn(m, base) \in Times
<1>0. ClockBytes \in Nat \ {0}
  BY RtcConstants
<1>1. PICK f : /\ TimeIn(m, base) = f[ClockBytes] /\ f[0] = 0
               /\ \A i \in 0 .. ClockBytes - 1 :
                     f[i + 1] = f[i] + Product(m[base + i], Weight(i))
  BY SumIsMade
<1> DEFINE S == {i \in Nat : i <= ClockBytes => f[i] \in 0 .. Weight(i) - 1}
<1>2. 0 \in S
  BY <1>1, Weights
<1>3. ASSUME NEW i \in S PROVE i + 1 \in S
  <2> SUFFICES ASSUME i + 1 <= ClockBytes PROVE f[i + 1] \in 0 .. Weight(i + 1) - 1
    OBVIOUS
  <2>1. i \in 0 .. ClockBytes - 1 /\ f[i] \in 0 .. Weight(i) - 1 /\ i \in Nat
    BY <1>0
  <2>2. PICK w \in Nat \ {0}, b \in Nat \ {0} : w = Weight(i) /\ b = Base
    BY Weights
  <2>3. PICK d \in 0 .. b - 1, r \in 0 .. w - 1 : d = m[base + i] /\ r = f[i]
    BY <2>1, <2>2
  <2>4. Product(d, w) + r \in 0 .. Product(w, b) - 1
    BY DigitsFit
  <2>5. Product(d, w) \in Nat
    <3>1. d \in Nat /\ w \in Nat
      OBVIOUS
    <3> QED  BY <3>1, ProductNat
  <2>6. f[i + 1] = r + Product(d, w) /\ Weight(i + 1) = Product(w, b)
    BY <1>1, <2>1, <2>2, <2>3, Weights
  <2> QED  BY <2>4, <2>5, <2>6
<1>4. ClockBytes \in S
  <2>1. S \subseteq Nat
    OBVIOUS
  <2> HIDE DEF S
  <2> QED  BY <1>0, <1>2, <1>3, <2>1, Induct
<1> QED  BY <1>0, <1>1, <1>4 DEF Times

\* The bytes of a time stand for it.
LEMMA TimeOfBytes ==
    ASSUME NEW base \in Nat, NEW m, NEW t \in Times,
           \A i \in 0 .. ClockBytes - 1 : m[base + i] = ByteOf(t, i)
    PROVE  TimeIn(m, base) = t
<1>0. ClockBytes \in Nat \ {0} /\ t \in Nat
  BY RtcConstants, Weights DEF Times
<1>1. PICK f : /\ TimeIn(m, base) = f[ClockBytes] /\ f[0] = 0
               /\ \A i \in 0 .. ClockBytes - 1 :
                     f[i + 1] = f[i] + Product(m[base + i], Weight(i))
  <2>1. \A i \in 0 .. ClockBytes - 1 : m[base + i] \in 0 .. Base - 1
    BY <1>0, BytesInRange
  <2> QED  BY <2>1, SumIsMade
<1> DEFINE S == {i \in Nat : i <= ClockBytes => f[i] = Remainder(t, Weight(i))}
<1>2. 0 \in S
  BY <1>0, <1>1, Weights DEF Remainder
<1>3. ASSUME NEW i \in S PROVE i + 1 \in S
  <2> SUFFICES ASSUME i + 1 <= ClockBytes PROVE f[i + 1] = Remainder(t, Weight(i + 1))
    OBVIOUS
  <2>1. i \in 0 .. ClockBytes - 1 /\ f[i] = Remainder(t, Weight(i)) /\ i \in Nat
    BY <1>0
  <2>2. PICK w \in Nat \ {0}, b \in Nat \ {0} :
          w = Weight(i) /\ b = Base /\ Weight(i + 1) = Product(w, b)
    BY <2>1, Weights
  <2>3. m[base + i] = Remainder(Quotient(t, w), b)
    BY <2>1, <2>2 DEF ByteOf, Remainder, Quotient
  <2>4. Remainder(t, Product(w, b)) = Remainder(t, w) + Product(Remainder(Quotient(t, w), b), w)
    BY <1>0, DividedTwice
  <2> QED  BY <1>1, <2>1, <2>2, <2>3, <2>4
<1>4. ClockBytes \in S
  <2>1. S \subseteq Nat
    OBVIOUS
  <2> HIDE DEF S
  <2> QED  BY <1>0, <1>2, <1>3, <2>1, Induct
<1>5. Remainder(t, Weight(ClockBytes)) = t
  <2>1. PICK w \in Nat \ {0} : w = Weight(ClockBytes)
    BY <1>0, Weights
  <2>2. t \in 0 .. w - 1
    BY <2>1 DEF Times
  <2> QED  BY <2>1, <2>2 DEF Remainder
<1> QED  BY <1>0, <1>1, <1>4, <1>5

-----------------------------------------------------------------------------
(* The clock chip: what is true of it in every state, one part per concern.  *)

\* A task is at one of some places, or writes a time and goes on from there.
IsTask(task, places, nexts) ==
    \/ \E p \in places : task = [at |-> p]
    \/ \E t \in Times, s \in 0 .. 2 * ClockBytes - 1, x \in nexts :
           task = [at |-> "write", time |-> t, store |-> s, next |-> x]

EmuTask == IsTask(emu, {"idle", "fetch", "save", "saving"}, {"idle", "fetch"})
NetTask == IsTask(net, {"idle", "zone", "set", "save", "saving"}, {"set", "save"})

Memories == [Registers -> 0 .. Base - 1]

\* The bytes, those in flash and those on their way there.
FlashTypes ==
    /\ mem \in Memories /\ nvs \in Memories
    /\ flash # <<>> => flash[1] \in {"emu", "net"} /\ flash[2] \in Memories
    /\ unsaved \in BOOLEAN

ChipTypes == pos \in 0 .. Frame /\ cmd \in [Bits -> {0, 1}] /\ lastClkVal \in {0, 1} /\ line \in {0, 1}

HostTypes ==
    /\ zone \in {0, ZoneOffset} /\ host \in Nat /\ macTime \in Times
    /\ real \subseteq Times /\ disturbed \in BOOLEAN

Accesses == [write : BOOLEAN, addr : Registers, byte : 0 .. Base - 1]

\* The guest's program is a record, and has accesses to make while it runs.
GuestTypes ==
    /\ guest = [op |-> guest.op, value |-> guest.value, todo |-> guest.todo, n |-> guest.n,
                got |-> guest.got, bytes |-> guest.bytes]
    /\ guest.op \in {"rest", "timeRead", "pramRead", "readTime", "setTime", "setPram", "readPram"}
    /\ guest.todo \in Seq(Accesses) /\ guest.n \in 0 .. 2 * Frame + 1
    /\ guest.todo = <<>> <=> guest.op \in {"rest", "timeRead", "pramRead"}
    /\ guest.todo = <<>> => guest.n = 0

\* Accesses the guest's program has left, and the half of the clock it sets.
Left == Len(guest.todo)
Done == ClockBytes - Left            \* bytes of a time that are set
SetBase == guest.todo[1].addr - Done

\* What is left of each program.
ProgramTypes ==
    /\ guest.op = "readTime" =>
         \A k \in 1 .. Left : guest.todo[k].write = FALSE
    /\ guest.op = "setTime" =>
         /\ guest.value \in Times /\ Left <= ClockBytes /\ SetBase \in {0, ClockBytes}
         /\ \A k \in 1 .. Left :
                guest.todo[k] = [write |-> TRUE, addr |-> SetBase + Done + k - 1,
                                 byte |-> ByteOf(guest.value, Done + k - 1)]
    /\ guest.op = "setPram" =>
         Left = 1 /\ guest.todo[1].write = TRUE /\ guest.todo[1].addr \in PramUsed
         /\ guest.todo[1].byte = guest.value
    /\ guest.op = "readPram" =>
         Left = 1 /\ guest.todo[1].write = FALSE /\ guest.todo[1].addr \in PramUsed
         /\ guest.bytes = <<>>

\* The edge that fetches a byte is under way.
Fetching == emu.at = "fetch" \/ (emu.at = "write" /\ emu.next = "fetch")

\* The chip is as far in the frame as the guest.
Clocked ==
    /\ guest.n = 0 => pos = 0 /\ cmd = NoBits /\ ~Fetching
    /\ guest.n > 0 /\ ~Fetching => guest.n = 2 * pos + 1 \/ guest.n = 2 * pos + 2
    /\ Fetching => /\ guest.n = 2 * CommandBits + 3 /\ pos = CommandBits
                   /\ guest.todo[1].write = FALSE
    /\ guest.n > 0 => (lastClkVal = 1 <=> \/ Fetching
                                          \/ pos > 0 /\ guest.n = 2 * pos + 1)

\* The chip has the bits the guest has sent, and no others.
SentBits ==
    guest.n > 0 =>
        \A i \in Bits : i < CommandBits \/ guest.todo[1].write = TRUE =>
            cmd[i] = IF i < pos THEN Sent(guest.todo[1], i) ELSE 0

\* The byte a read asks for; after the command the register holds its bits,
\* and the guest has heard as many of them as edges have passed.
Asked == mem[guest.todo[1].addr]

AnswerBits ==
    guest.op = "readPram" /\ guest.n > 0 =>
        \A i \in CommandBits .. Frame - 1 :
            cmd[i] = IF pos <= CommandBits THEN 0 ELSE Shifted(Asked, (Frame - 1) - i) % 2

AnswerHeard ==
    ~Pb7Driven /\ guest.op = "readPram" =>
        /\ guest.n <= 2 * CommandBits + 2 => guest.got = 0
        /\ guest.n >= 2 * CommandBits + 2 => guest.got = Shifted(Asked, (Frame + 1) - guest.n \div 2)
        /\ guest.n >= 2 * CommandBits + 3 /\ guest.n = 2 * pos + 1 => line = cmd[pos - 1]

\* What the guest has read of parameter memory is what it wrote there.
AnswerTaken ==
    ~Pb7Driven /\ guest.op = "pramRead" =>
        guest.bytes[1] \in PramUsed /\ guest.value = pram[guest.bytes[1]]

\* Flash is being written by the task that says so.
Flashing ==
    /\ flash # <<>> /\ flash[1] = "emu" <=> emu.at = "saving"
    /\ flash # <<>> /\ flash[1] = "net" <=> net.at = "saving"

\* Parameter memory on its way to flash: no save, the time task's either,
\* carries older bytes than the guest's last write unless the guest's own save
\* still waits or has failed.
PramKept ==
    /\ pram \in [PramUsed -> 0 .. Base - 1]
    /\ \A a \in PramUsed :
        /\ mem[a] = pram[a]
        /\ emu.at = "saving" => flash[2][a] = pram[a]
        /\ emu.at # "save" /\ ~unsaved /\ flash # <<>> => flash[2][a] = pram[a]
        /\ emu.at \notin {"save", "saving"} /\ ~unsaved => nvs[a] = pram[a]

\* The bytes of a time the guest sets stay while it sets the others.
BytesSet ==
    guest.op = "setTime" /\ ~disturbed =>
        /\ emu.at \in {"idle", "save", "saving"}
        /\ \A i \in 0 .. ClockBytes - 1 :
              i < Done + (IF guest.n = 2 * Frame + 1 THEN 1 ELSE 0) =>
                  mem[SetBase + i] = ByteOf(guest.value, i)

ClockInv ==
    /\ EmuTask /\ NetTask /\ FlashTypes /\ ChipTypes /\ HostTypes /\ GuestTypes /\ ProgramTypes
    /\ Clocked /\ SentBits /\ AnswerBits /\ AnswerHeard /\ AnswerTaken
    /\ Flashing /\ PramKept /\ BytesSet

-----------------------------------------------------------------------------
(* The frame: what the guest sends is what the chip takes in.                *)

LEMMA Sizes ==
    /\ CommandBits \in Nat \ {0} /\ DataBits \in Nat \ {0} /\ AddressBits \in Nat \ {0}
    /\ ClockBytes \in Nat \ {0} /\ AddressBits < CommandBits
    /\ Frame = CommandBits + DataBits /\ Bits = 0 .. (CommandBits + DataBits) - 1
    /\ Base \in Nat \ {0} /\ (\A t \in Times : t \in Nat) /\ 0 \in Times
    /\ \A r \in Registers : r \in Nat
    /\ \A r \in 0 .. 2 * ClockBytes - 1 : r \in Registers
    /\ \A a \in PramUsed : a \in Registers /\ a >= 2 * ClockBytes
<1>1. {ClockBytes, DataBits, CommandBits, AddressBits} \subseteq Nat \ {0} /\ AddressBits < CommandBits
  BY RtcConstants
<1>2. PICK p \in Nat \ {0}, w \in Nat \ {0} : p = Pow2[AddressBits] /\ w = Weight(ClockBytes)
  BY <1>1, Pow2Positive, Weights
<1>3. (\A r \in Registers : r \in Nat) /\ (\A t \in Times : t \in Nat) /\ 0 \in Times
  BY <1>2 DEF Registers, Times
<1>4. \A r \in 0 .. 2 * ClockBytes - 1 : r \in Registers
  BY RtcConstants DEF ClockRegisters
<1>5. \A a \in PramUsed : a \in Registers /\ ~ (a \in 0 .. 2 * ClockBytes - 1)
  BY RtcConstants DEF ClockRegisters
<1>6. ASSUME NEW a \in PramUsed PROVE a \in Registers /\ a >= 2 * ClockBytes
  <2>1. a \in Nat /\ 2 * ClockBytes \in Nat
    BY <1>1, <1>3, <1>5
  <2> QED  BY <2>1, <1>5
<1> QED  BY <1>1, <1>3, <1>4, <1>6, Weights DEF Frame, Bits

LEMMA SentTypes ==
    ASSUME NEW access \in Accesses, NEW i \in Bits
    PROVE  Sent(access, i) \in {0, 1}
<1>1. access.addr \in Nat /\ access.byte \in Nat /\ access.write \in BOOLEAN
  <2>1. access.addr \in Registers /\ access.byte \in 0 .. Base - 1 /\ access.write \in BOOLEAN
    BY DEF Accesses
  <2> QED  BY <2>1, Sizes
<1>2. \A x, n \in Nat : (x \div Pow2[n]) % 2 \in {0, 1}
  <2> SUFFICES ASSUME NEW x \in Nat, NEW n \in Nat PROVE (x \div Pow2[n]) % 2 \in {0, 1}
    OBVIOUS
  <2>1. PICK q \in Nat : q = x \div Pow2[n]
    BY ShiftedOnce DEF Shifted, Quotient
  <2> QED  BY <2>1
<1>3. i <= AddressBits => AddressBits - i \in Nat
  BY Sizes
<1>4. (Frame - 1) - i \in Nat /\ (Frame - 1) - i = Frame - 1 - i
  BY Sizes
<1> QED  BY <1>1, <1>2, <1>3, <1>4 DEF Sent

\* What the chip takes for the address and the byte.
LEMMA AddressDecoded ==
    ASSUME NEW access \in Accesses, NEW c, \A i \in 1 .. AddressBits : c[i] = Sent(access, i)
    PROVE  Address(c) = access.addr
<1>1. PICK x \in Nat : x = access.addr /\ x < Pow2[AddressBits]
  <2>1. Pow2[AddressBits] \in Nat
    BY Sizes, Pow2Def
  <2> QED  BY <2>1 DEF Accesses, Registers
<1>2. ASSUME NEW i \in 0 .. AddressBits - 1
      PROVE  c[1 + i] = Shifted(x, (AddressBits - 1) - i) % 2
  <2>1. PICK k \in 1 .. AddressBits : k = 1 + i
    BY Sizes
  <2>2. k # 0 /\ k <= AddressBits /\ AddressBits - k = (AddressBits - 1) - i
    BY <2>1, Sizes
  <2>3. Sent(access, k) = (x \div Pow2[AddressBits - k]) % 2
    BY <2>2, <1>1 DEF Sent
  <2> QED  BY <2>1, <2>2, <2>3 DEF Shifted, Quotient
<1>3. Number(c, 1, AddressBits) = x
  <2>1. 1 \in Nat /\ AddressBits \in Nat
    BY Sizes
  <2> QED  BY <2>1, <1>1, <1>2, NumberOfBits
<1> QED  BY <1>1, <1>3 DEF Address

LEMMA DataDecoded ==
    ASSUME NEW access \in Accesses, access.write = TRUE, NEW c,
           \A i \in CommandBits .. Frame - 1 : c[i] = Sent(access, i)
    PROVE  Data(c) = access.byte
<1>1. PICK x \in Nat : x = access.byte /\ x < Pow2[DataBits]
  BY Sizes DEF Accesses, Base
<1>2. ASSUME NEW i \in 0 .. DataBits - 1
      PROVE  c[CommandBits + i] = Shifted(x, (DataBits - 1) - i) % 2
  <2>1. PICK k \in CommandBits .. Frame - 1 : k = CommandBits + i
    BY Sizes
  <2>2. k # 0 /\ ~ (k <= AddressBits) /\ ~ (k < CommandBits) /\ Frame - 1 - k = (DataBits - 1) - i
    BY <2>1, Sizes
  <2>3. Sent(access, k) = (x \div Pow2[Frame - 1 - k]) % 2
    BY <2>2, <1>1 DEF Sent
  <2> QED  BY <2>1, <2>2, <2>3 DEF Shifted, Quotient
<1>3. Number(c, CommandBits, DataBits) = x
  <2>1. CommandBits \in Nat /\ DataBits \in Nat
    BY Sizes
  <2> QED  BY <2>1, <1>1, <1>2, NumberOfBits
<1> QED  BY <1>1, <1>3 DEF Data

\* The register c after a rising edge.
TakenIn(c, access) ==
    /\ pos \in Bits /\ lastClkVal = 0
    /\ c \in [Bits -> {0, 1}]
    /\ \A i \in Bits : i < CommandBits \/ access.write = TRUE =>
         c[i] = IF i < pos + 1 THEN Sent(access, i) ELSE 0
    /\ Reads(c) <=> access.write = FALSE
    /\ pos > 0 => (Reads(cmd) <=> access.write = FALSE)
    /\ pos >= CommandBits /\ access.write = FALSE => c = cmd
    /\ access.write = TRUE \/ pos < CommandBits =>
         \A i \in Bits : i # pos => c[i] = cmd[i]

LEMMA Edge ==
    ASSUME ChipTypes, GuestTypes, Clocked, SentBits, guest.n > 0, ~Fetching,
           guest.n = 2 * pos + 2, guest.n <= 2 * Frame, NEW access, access = guest.todo[1],
           NEW c, c = Accumulated(Sent(access, pos))
    PROVE  TakenIn(c, access)
<1>1. access \in Accesses
  <2>1. guest.todo # <<>> /\ guest.todo \in Seq(Accesses)
    BY DEF GuestTypes
  <2> QED  BY <2>1
<1>2. pos \in Bits /\ lastClkVal = 0 /\ pos \in Nat /\ lastClkVal \in {0, 1}
  BY Sizes DEF ChipTypes, Clocked
<1>3. PICK bit \in {0, 1} : bit = Sent(access, pos)
  BY <1>1, <1>2, SentTypes
<1>4. cmd \in [Bits -> {0, 1}] /\ 0 \in Bits
  BY Sizes DEF ChipTypes
<1>5. access.write \in BOOLEAN
  BY <1>1 DEF Accesses
<1>6. Sent(access, 0) = 1 <=> access.write = FALSE
  BY <1>5 DEF Sent
<1>7. \A i \in Bits : i < CommandBits \/ access.write = TRUE =>
         cmd[i] = IF i < pos THEN Sent(access, i) ELSE 0
  BY DEF SentBits
<1>8. pos > 0 => (Reads(cmd) <=> access.write = FALSE)
  <2>1. 0 < CommandBits /\ (pos > 0 => 0 < pos)
    BY Sizes, <1>2
  <2> QED  BY <2>1, <1>4, <1>6, <1>7 DEF Reads
<1>9. CASE pos < CommandBits \/ access.write = TRUE
  <2>1. cmd[pos] = 0
    BY <1>2, <1>7, <1>9
  <2>2. pos < CommandBits \/ (pos < Frame /\ ~Reads(cmd))
    BY <1>2, <1>8, <1>9, <1>5, Sizes
  <2>3. c = [cmd EXCEPT ![pos] = bit]
    <3>1. CASE bit = 1
      BY <3>1, <1>3, <2>2 DEF Accumulated
    <3>2. CASE bit = 0
      <4>1. c = cmd
        BY <3>2, <1>3 DEF Accumulated
      <4> QED  BY <4>1, <3>2, <2>1, <1>4
    <3> QED  BY <3>1, <3>2
  <2>4. c \in [Bits -> {0, 1}] /\ c[pos] = bit /\ \A i \in Bits : i # pos => c[i] = cmd[i]
    BY <2>3, <1>2, <1>4
  <2>5. ASSUME NEW i \in Bits, i < CommandBits \/ access.write = TRUE
        PROVE  c[i] = IF i < pos + 1 THEN Sent(access, i) ELSE 0
    <3>1. CASE i = pos
      BY <3>1, <2>4, <1>2, <1>3
    <3>2. CASE i # pos
      <4>1. i < pos + 1 <=> i < pos
        BY <3>2, <1>2, Sizes
      <4> QED  BY <3>2, <4>1, <2>4, <2>5, <1>7
    <3> QED  BY <3>1, <3>2
  <2>6. c[0] = Sent(access, 0)
    <3>1. 0 < CommandBits /\ 0 < pos + 1
      BY Sizes, <1>2
    <3> QED  BY <3>1, <2>5, <1>4
  <2>7. Reads(c) <=> access.write = FALSE
    BY <2>6, <1>6 DEF Reads
  <2>8. ~ (pos >= CommandBits /\ access.write = FALSE)
    BY <1>9, <1>2, <1>5, Sizes
  <2> QED  BY <1>2, <1>8, <2>4, <2>5, <2>7, <2>8 DEF TakenIn
<1>10. CASE ~ (pos < CommandBits) /\ access.write = FALSE
  <2>1. pos > 0 /\ Reads(cmd)
    BY <1>10, <1>2, <1>8, Sizes
  <2>2. c = cmd
    BY <2>1, <1>10 DEF Accumulated
  <2>3. ASSUME NEW i \in Bits, i < CommandBits
        PROVE  cmd[i] = IF i < pos + 1 THEN Sent(access, i) ELSE 0
    BY <2>3, <1>7, <1>10, <1>2, Sizes
  <2> QED  BY <1>2, <1>4, <1>8, <1>10, <2>1, <2>2, <2>3 DEF TakenIn
<1> QED  BY <1>5, <1>9, <1>10

-----------------------------------------------------------------------------
(* The steps beside the guest: the stores of a refresh, the saves, the sync. *)

\* What is said of the chip and the guest holds as long as both stay, and the
\* parameter bytes with them.
LEMMA ChipStays ==
    ASSUME ClockInv, UNCHANGED <<pos, cmd, lastClkVal, line, guest, pram>>, Fetching' <=> Fetching,
           \A a \in PramUsed : mem'[a] = mem[a]
    PROVE  /\ ChipTypes' /\ GuestTypes' /\ ProgramTypes' /\ Clocked' /\ SentBits'
           /\ AnswerBits' /\ AnswerHeard' /\ AnswerTaken'
<1>1. ChipTypes' /\ GuestTypes' /\ AnswerTaken'
  BY DEF ClockInv, ChipTypes, GuestTypes, AnswerTaken
<1>2. ProgramTypes'
  BY DEF ClockInv, ProgramTypes, SetBase, Done, Left
<1>3. Clocked'
  <2>1. Clocked
    BY DEF ClockInv
  <2> HIDE DEF Fetching
  <2> QED  BY <2>1 DEF Clocked
<1>4. SentBits'
  BY DEF ClockInv, SentBits
<1>5. guest.op = "readPram" => Asked' = Asked
  BY DEF ClockInv, ProgramTypes, Asked
<1>6. AnswerBits'
  <2>1. AnswerBits
    BY DEF ClockInv
  <2> QED  BY <2>1, <1>5 DEF AnswerBits
<1>7. AnswerHeard'
  <2>1. AnswerHeard
    BY DEF ClockInv
  <2> QED  BY <2>1, <1>5 DEF AnswerHeard
<1> QED  BY <1>1, <1>2, <1>3, <1>4, <1>6, <1>7

\* One store of a refresh: to a byte of the clock.
LEMMA StoreKeeps ==
    ASSUME NEW task, NEW places, NEW nexts, IsTask(task, places, nexts), "write" \notin places,
           mem \in Memories, StoreByte(task)
    PROVE  /\ mem' \in Memories
           /\ \A a \in PramUsed : mem'[a] = mem[a]
           /\ IsTask(AfterStore(task), places \cup nexts, nexts)
           /\ task.next \in nexts
           /\ AfterStore(task) = [at |-> task.next] \/ AfterStore(task).at = "write"
<1>1. PICK t \in Times, s \in 0 .. 2 * ClockBytes - 1, x \in nexts :
         task = [at |-> "write", time |-> t, store |-> s, next |-> x]
  <2>1. task.at = "write"
    BY DEF StoreByte
  <2>2. ~ \E p \in places : task = [at |-> p]
    BY <2>1
  <2> QED  BY <2>2 DEF IsTask
<1>2. task.at = "write" /\ task.time = t /\ task.store = s /\ task.next = x
  BY <1>1
<1>3. PICK i \in 0 .. ClockBytes - 1 : i = s \div 2
  BY Sizes
<1>4. PICK b : b = ByteOf(t, i) /\ b \in 0 .. Base - 1
  BY <1>3, BytesInRange
<1>5. /\ i \in Registers /\ ClockBytes + i \in Registers /\ mem[i] \in 0 .. Base - 1
      /\ i < 2 * ClockBytes /\ ClockBytes + i < 2 * ClockBytes
  BY <1>3, Sizes DEF Memories
<1>6. \E r \in {i, ClockBytes + i}, v \in 0 .. Base - 1 : mem' = [mem EXCEPT ![r] = v]
  BY <1>2, <1>3, <1>4, <1>5 DEF StoreByte
<1>7. PICK r \in {i, ClockBytes + i}, v \in 0 .. Base - 1 : mem' = [mem EXCEPT ![r] = v]
  BY <1>6
<1>8. mem' \in Memories
  BY <1>5, <1>7 DEF Memories
<1>9. ASSUME NEW a \in PramUsed PROVE mem'[a] = mem[a]
  <2>1. a \in Registers /\ a >= 2 * ClockBytes /\ a \in Nat
    BY Sizes
  <2>2. a # r
    BY <2>1, <1>5, Sizes
  <2> QED  BY <2>1, <2>2, <1>7 DEF Memories
<1>10. CASE s + 1 = 2 * ClockBytes
  <2>1. AfterStore(task) = [at |-> x]
    BY <1>10, <1>2 DEF AfterStore
  <2> QED  BY <2>1, <1>2, <1>8, <1>9 DEF IsTask
<1>11. CASE s + 1 # 2 * ClockBytes
  <2>1. AfterStore(task) = [at |-> "write", time |-> t, store |-> s + 1, next |-> x]
    BY <1>11, <1>1, <1>2 DEF AfterStore
  <2>2. s + 1 \in 0 .. 2 * ClockBytes - 1
    BY <1>11, Sizes
  <2> QED  BY <2>1, <2>2, <1>2, <1>8, <1>9 DEF IsTask
<1> QED  BY <1>10, <1>11

LEMMA MacTimes == \A u, z \in Int : MacTime(u, z) \in Times
<1>1. PICK w \in Nat \ {0} : w = Weight(ClockBytes)
  BY Sizes, Weights
<1> SUFFICES ASSUME NEW u \in Int, NEW z \in Int PROVE MacTime(u, z) \in Times
  OBVIOUS
<1>2. PICK x \in Int : x = u + Epoch + z
  BY RtcConstants
<1>3. x % w \in 0 .. w - 1
  OBVIOUS
<1> QED  BY <1>1, <1>2, <1>3 DEF MacTime, Times

LEMMA HostFacts ==
    ASSUME HostTypes
    PROVE  /\ zone \in Int /\ host \in Int /\ ZoneOffset \in Int /\ MinHost \in Nat
           /\ MacTime(host, zone) \in Times /\ MacTime(host, ZoneOffset) \in Times
<1>1. zone \in Int /\ host \in Int /\ ZoneOffset \in Int /\ MinHost \in Nat
  BY RtcConstants DEF HostTypes
<1> QED  BY <1>1, MacTimes

LEMMA NewWriting ==
    ASSUME NEW t \in Times, NEW places, NEW nexts, NEW x \in nexts
    PROVE  IsTask(Writing(t, x), places, nexts)
<1>1. 0 \in 0 .. 2 * ClockBytes - 1
  BY Sizes
<1> QED  BY <1>1 DEF IsTask, Writing

LEMMA TickStep == ClockInv /\ rtcTick => ClockInv'
<1> SUFFICES ASSUME ClockInv, rtcTick PROVE ClockInv'
  OBVIOUS
<1>1. /\ emu = [at |-> "idle"] /\ emu' = Writing(MacTime(host, zone), "idle")
      /\ UNCHANGED <<chipVars, mem, hostVars, flashVars, netVars, guest, pram, real>>
      /\ disturbed' = (disturbed \/ guest.op = "setTime")
  BY DEF rtcTick, Idle
<1>2. emu.at = "idle" /\ emu'.at = "write" /\ emu'.next = "idle"
  BY <1>1 DEF Writing
<1>3. /\ ChipTypes' /\ GuestTypes' /\ ProgramTypes' /\ Clocked' /\ SentBits'
      /\ AnswerBits' /\ AnswerHeard' /\ AnswerTaken'
  <2>1. Fetching' <=> Fetching
    BY <1>2 DEF Fetching
  <2>2. UNCHANGED <<pos, cmd, lastClkVal, line, guest, pram>> /\ mem' = mem
    BY <1>1 DEF chipVars
  <2> QED  BY <2>1, <2>2, ChipStays
<1>4. EmuTask' /\ NetTask'
  <2>1. EmuTask'
    <3>1. MacTime(host, zone) \in Times /\ "idle" \in {"idle", "fetch"}
      BY HostFacts DEF ClockInv
    <3>2. IsTask(emu', {"idle", "fetch", "save", "saving"}, {"idle", "fetch"})
      BY <1>1, <3>1, NewWriting
    <3> QED  BY <3>2 DEF EmuTask
  <2>2. NetTask'
    BY <1>1 DEF ClockInv, NetTask, netVars
  <2> QED  BY <2>1, <2>2
<1>5. FlashTypes' /\ HostTypes'
  BY <1>1 DEF ClockInv, FlashTypes, HostTypes, flashVars, hostVars, netVars
<1>6. Flashing'
  BY <1>1, <1>2 DEF ClockInv, Flashing, flashVars, netVars
<1>7. PramKept'
  BY <1>1, <1>2 DEF ClockInv, PramKept, flashVars
<1>8. BytesSet'
  BY <1>1 DEF BytesSet
<1> QED  BY <1>3, <1>4, <1>5, <1>6, <1>7, <1>8 DEF ClockInv

LEMMA EmuStoresStep == ClockInv /\ EmuStores => ClockInv'
<1> SUFFICES ASSUME ClockInv, EmuStores PROVE ClockInv'
  OBVIOUS
<1>1. /\ StoreByte(emu) /\ emu' = AfterStore(emu) /\ emu.at = "write"
      /\ UNCHANGED <<chipVars, hostVars, flashVars, netVars, guest, pram, real, disturbed>>
  BY DEF EmuStores, StoreByte
<1>2. /\ mem' \in Memories /\ \A a \in PramUsed : mem'[a] = mem[a]
      /\ IsTask(emu', {"idle", "fetch", "save", "saving"}, {"idle", "fetch"})
      /\ emu.next \in {"idle", "fetch"}
      /\ emu' = [at |-> emu.next] \/ emu'.at = "write"
  <2>1. IsTask(emu, {"idle", "fetch", "save", "saving"}, {"idle", "fetch"}) /\ mem \in Memories
    BY DEF ClockInv, EmuTask, FlashTypes
  <2>2. "write" \notin {"idle", "fetch", "save", "saving"}
    OBVIOUS
  <2>3. {"idle", "fetch", "save", "saving"} \cup {"idle", "fetch"} = {"idle", "fetch", "save", "saving"}
    OBVIOUS
  <2>4. /\ mem' \in Memories /\ \A a \in PramUsed : mem'[a] = mem[a]
        /\ IsTask(AfterStore(emu), {"idle", "fetch", "save", "saving"} \cup {"idle", "fetch"}, {"idle", "fetch"})
        /\ emu.next \in {"idle", "fetch"}
        /\ AfterStore(emu) = [at |-> emu.next] \/ AfterStore(emu).at = "write"
    BY <1>1, <2>1, <2>2, StoreKeeps
  <2> QED  BY <1>1, <2>3, <2>4
<1>3. emu'.at \in {"idle", "fetch", "write"} /\ (emu'.at = "write" => emu'.next = emu.next)
      /\ (emu'.at # "write" => emu'.at = emu.next)
  <2>1. emu'.at = "write" => emu'.next = emu.next
    BY <1>1, <1>2 DEF AfterStore
  <2> QED  BY <1>2, <2>1
<1>4. /\ ChipTypes' /\ GuestTypes' /\ ProgramTypes' /\ Clocked' /\ SentBits'
      /\ AnswerBits' /\ AnswerHeard' /\ AnswerTaken'
  <2>1. Fetching' <=> Fetching
    BY <1>1, <1>3 DEF Fetching
  <2>2. UNCHANGED <<pos, cmd, lastClkVal, line, guest, pram>>
    BY <1>1 DEF chipVars
  <2> QED  BY <2>1, <2>2, <1>2, ChipStays
<1>5. EmuTask' /\ NetTask'
  BY <1>1, <1>2 DEF ClockInv, EmuTask, NetTask, netVars
<1>6. FlashTypes' /\ HostTypes'
  BY <1>1, <1>2 DEF ClockInv, FlashTypes, HostTypes, flashVars, hostVars, netVars
<1>7. Flashing'
  BY <1>1, <1>3 DEF ClockInv, Flashing, flashVars, netVars
<1>8. PramKept'
  BY <1>1, <1>2, <1>3 DEF ClockInv, PramKept, flashVars
<1>9. BytesSet'
  BY <1>1 DEF ClockInv, BytesSet
<1> QED  BY <1>4, <1>5, <1>6, <1>7, <1>8, <1>9 DEF ClockInv

\* A save by either task: nothing but the flash and the task.
LEMMA SaveKeeps ==
    ASSUME ClockInv, NEW me \in {"emu", "net"}, NEW task, NEW after,
           \/ SaveBegins(me, task) /\ after = [at |-> "saving"]
           \/ (SaveFails(me, task) \/ SaveEnds(me, task)) /\ after = [at |-> "idle"]
    PROVE  /\ task.at \in {"save", "saving"} /\ after.at \in {"saving", "idle"}
           /\ nvs' \in Memories /\ unsaved' \in BOOLEAN
           /\ flash' # <<>> => flash'[1] \in {"emu", "net"} /\ flash'[2] \in Memories
           /\ \/ flash = <<>> /\ flash' = <<me, mem>> /\ nvs' = nvs /\ unsaved' = unsaved
                 /\ after.at = "saving" /\ task.at = "save" /\ flash'[1] = me /\ flash'[2] = mem
                 /\ flash' # <<>>
              \/ flash' = flash /\ nvs' = nvs /\ after.at = "idle" /\ task.at = "save"
                 /\ unsaved' = (unsaved \/ me = "emu")
              \/ flash # <<>> /\ flash[1] = me /\ flash' = <<>> /\ nvs' = flash[2]
                 /\ unsaved' = (unsaved /\ me # "emu") /\ after.at = "idle" /\ task.at = "saving"
<1>1. /\ mem \in Memories /\ nvs \in Memories /\ unsaved \in BOOLEAN
      /\ flash # <<>> => flash[1] \in {"emu", "net"} /\ flash[2] \in Memories
  BY DEF ClockInv, FlashTypes
<1>2. CASE SaveBegins(me, task) /\ after = [at |-> "saving"]
  BY <1>1, <1>2 DEF SaveBegins
<1>3. CASE SaveFails(me, task) /\ after = [at |-> "idle"]
  BY <1>1, <1>3 DEF SaveFails
<1>4. CASE SaveEnds(me, task) /\ after = [at |-> "idle"]
  BY <1>1, <1>4 DEF SaveEnds
<1> QED  BY <1>2, <1>3, <1>4

LEMMA EmuSavesStep == ClockInv /\ EmuSaves => ClockInv'
<1> SUFFICES ASSUME ClockInv, EmuSaves PROVE ClockInv'
  OBVIOUS
<1>1. UNCHANGED <<chipVars, mem, hostVars, netVars, guest, pram, real, disturbed>>
  BY DEF EmuSaves
<1>2. /\ emu.at \in {"save", "saving"} /\ emu'.at \in {"saving", "idle"}
      /\ nvs' \in Memories /\ unsaved' \in BOOLEAN
      /\ flash' # <<>> => flash'[1] \in {"emu", "net"} /\ flash'[2] \in Memories
      /\ \/ flash = <<>> /\ flash' = <<"emu", mem>> /\ nvs' = nvs /\ unsaved' = unsaved
            /\ emu'.at = "saving" /\ emu.at = "save" /\ flash'[1] = "emu" /\ flash'[2] = mem
            /\ flash' # <<>>
         \/ flash' = flash /\ nvs' = nvs /\ emu'.at = "idle" /\ emu.at = "save"
            /\ unsaved' = TRUE
         \/ flash # <<>> /\ flash[1] = "emu" /\ flash' = <<>> /\ nvs' = flash[2]
            /\ unsaved' = FALSE /\ emu'.at = "idle" /\ emu.at = "saving"
  <2>1. \/ SaveBegins("emu", emu) /\ emu' = [at |-> "saving"]
        \/ (SaveFails("emu", emu) \/ SaveEnds("emu", emu)) /\ emu' = [at |-> "idle"]
    BY DEF EmuSaves, Idle
  <2>2. "emu" \in {"emu", "net"}
    OBVIOUS
  <2> QED  BY <2>1, <2>2, SaveKeeps
<1>3. /\ ChipTypes' /\ GuestTypes' /\ ProgramTypes' /\ Clocked' /\ SentBits'
      /\ AnswerBits' /\ AnswerHeard' /\ AnswerTaken'
  <2>1. Fetching' <=> Fetching
    BY <1>2 DEF Fetching
  <2>2. UNCHANGED <<pos, cmd, lastClkVal, line, guest, pram>> /\ mem' = mem
    BY <1>1 DEF chipVars
  <2> QED  BY <2>1, <2>2, ChipStays
<1>4. EmuTask' /\ NetTask'
  <2>1. emu' \in {[at |-> "saving"], [at |-> "idle"]}
    BY DEF EmuSaves, Idle
  <2> QED  BY <1>1, <2>1 DEF ClockInv, EmuTask, NetTask, netVars, IsTask
<1>5. FlashTypes' /\ HostTypes'
  BY <1>1, <1>2 DEF ClockInv, FlashTypes, HostTypes, hostVars, netVars
<1>6. Flashing'
  BY <1>1, <1>2 DEF ClockInv, Flashing, netVars
<1>7. PramKept'
  BY <1>1, <1>2 DEF ClockInv, PramKept, Flashing
<1>8. BytesSet'
  BY <1>1, <1>2 DEF ClockInv, BytesSet, SetBase, Done, Left
<1> QED  BY <1>3, <1>4, <1>5, <1>6, <1>7, <1>8 DEF ClockInv

\* A step of the time task or of the host's clock that stores and saves nothing.
LEMMA HostStep ==
    ASSUME ClockInv, UNCHANGED <<chipVars, mem, flashVars, emu, guest, pram>>,
           NetTask', HostTypes', net'.at = "saving" <=> net.at = "saving", disturbed => disturbed'
    PROVE  ClockInv'
<1>1. /\ ChipTypes' /\ GuestTypes' /\ ProgramTypes' /\ Clocked' /\ SentBits'
      /\ AnswerBits' /\ AnswerHeard' /\ AnswerTaken'
  <2>1. Fetching' <=> Fetching
    BY DEF Fetching
  <2>2. UNCHANGED <<pos, cmd, lastClkVal, line, guest, pram>> /\ mem' = mem
    BY DEF chipVars
  <2> QED  BY <2>1, <2>2, ChipStays
<1>2. EmuTask' /\ FlashTypes' /\ Flashing' /\ PramKept'
  BY DEF ClockInv, EmuTask, FlashTypes, Flashing, PramKept, flashVars
<1>3. BytesSet'
  BY DEF ClockInv, BytesSet, SetBase, Done, Left
<1> QED  BY <1>1, <1>2, <1>3 DEF ClockInv

LEMMA SyncBeginsStep == ClockInv /\ SyncBegins => ClockInv'
<1> SUFFICES ASSUME ClockInv, SyncBegins PROVE ClockInv'
  OBVIOUS
<1>1. PICK t \in MinHost .. MaxHost :
        host' = t /\ macTime' = MacTime(t, ZoneOffset) /\ Note(MacTime(t, zone))
  BY DEF SyncBegins
<1>2. /\ net = [at |-> "idle"] /\ net' = [at |-> "zone"]
      /\ disturbed' = (disturbed \/ Busy)
      /\ UNCHANGED <<chipVars, mem, zone, flashVars, emu, guest, pram>>
  BY DEF SyncBegins, Idle
<1>3. NetTask'
  BY <1>2 DEF NetTask, IsTask
<1>4. HostTypes'
  <2>1. HostTypes /\ zone \in Int /\ ZoneOffset \in Int /\ MinHost \in Nat /\ MaxHost \in Nat
    BY HostFacts, RtcConstants DEF ClockInv
  <2>2. t \in Nat /\ t \in Int
    BY <2>1
  <2>3. MacTime(t, ZoneOffset) \in Times /\ MacTime(t, zone) \in Times
    BY <2>1, <2>2, MacTimes
  <2> QED  BY <1>1, <1>2, <2>1, <2>2, <2>3 DEF HostTypes, Note, Busy
<1>5. net.at # "saving" /\ net'.at # "saving"
  BY <1>2
<1> QED  BY <1>2, <1>3, <1>4, <1>5, HostStep

LEMMA SyncSetsZoneStep == ClockInv /\ SyncSetsZone => ClockInv'
<1> SUFFICES ASSUME ClockInv, SyncSetsZone PROVE ClockInv'
  OBVIOUS
<1>1. /\ net.at = "zone" /\ zone' = ZoneOffset
      /\ net' = IF HostSet THEN Writing(MacTime(host, ZoneOffset), "set") ELSE [at |-> "set"]
      /\ Note(MacTime(host, ZoneOffset))
      /\ disturbed' = (disturbed \/ Busy)
      /\ UNCHANGED <<chipVars, mem, host, flashVars, emu, macTime, guest, pram>>
  BY DEF SyncSetsZone
<1>2. HostTypes /\ MacTime(host, ZoneOffset) \in Times
  BY HostFacts DEF ClockInv
<1>3. NetTask'
  <2>1. CASE HostSet
    <3>1. "set" \in {"set", "save"}
      OBVIOUS
    <3>2. IsTask(net', {"idle", "zone", "set", "save", "saving"}, {"set", "save"})
      BY <1>1, <1>2, <2>1, <3>1, NewWriting
    <3> QED  BY <3>2 DEF NetTask
  <2>2. CASE ~HostSet
    BY <1>1, <2>2 DEF NetTask, IsTask
  <2> QED  BY <2>1, <2>2
<1>4. HostTypes'
  BY <1>1, <1>2 DEF HostTypes, Note, Busy
<1>5. net.at # "saving" /\ net'.at # "saving"
  BY <1>1 DEF Writing
<1> QED  BY <1>1, <1>3, <1>4, <1>5, HostStep

LEMMA SyncSetsTimeStep == ClockInv /\ SyncSetsTime => ClockInv'
<1> SUFFICES ASSUME ClockInv, SyncSetsTime PROVE ClockInv'
  OBVIOUS
<1>1. /\ net.at = "set" /\ net' = Writing(macTime, "save")
      /\ UNCHANGED <<chipVars, mem, hostVars, flashVars, emu, macTime, guest, pram, real, disturbed>>
  BY DEF SyncSetsTime
<1>2. HostTypes /\ macTime \in Times
  BY DEF ClockInv, HostTypes
<1>3. NetTask'
  <2>1. "save" \in {"set", "save"}
    OBVIOUS
  <2>2. IsTask(net', {"idle", "zone", "set", "save", "saving"}, {"set", "save"})
    BY <1>1, <1>2, <2>1, NewWriting
  <2> QED  BY <2>2 DEF NetTask
<1>4. HostTypes'
  BY <1>1, <1>2 DEF HostTypes, hostVars
<1>5. net.at # "saving" /\ net'.at # "saving"
  BY <1>1 DEF Writing
<1> QED  BY <1>1, <1>3, <1>4, <1>5, HostStep

LEMMA NetStoresStep == ClockInv /\ NetStores => ClockInv'
<1> SUFFICES ASSUME ClockInv, NetStores PROVE ClockInv'
  OBVIOUS
<1>1. /\ StoreByte(net) /\ net' = AfterStore(net) /\ net.at = "write"
      /\ disturbed' = (disturbed \/ Busy)
      /\ UNCHANGED <<chipVars, hostVars, flashVars, emu, macTime, guest, pram, real>>
  BY DEF NetStores, StoreByte
<1>2. /\ mem' \in Memories /\ \A a \in PramUsed : mem'[a] = mem[a]
      /\ IsTask(net', {"idle", "zone", "set", "save", "saving"}, {"set", "save"})
      /\ net.next \in {"set", "save"}
      /\ net' = [at |-> net.next] \/ net'.at = "write"
  <2>1. IsTask(net, {"idle", "zone", "set", "save", "saving"}, {"set", "save"}) /\ mem \in Memories
    BY DEF ClockInv, NetTask, FlashTypes
  <2>2. "write" \notin {"idle", "zone", "set", "save", "saving"}
    OBVIOUS
  <2>3. {"idle", "zone", "set", "save", "saving"} \cup {"set", "save"}
          = {"idle", "zone", "set", "save", "saving"}
    OBVIOUS
  <2>4. /\ mem' \in Memories /\ \A a \in PramUsed : mem'[a] = mem[a]
        /\ IsTask(AfterStore(net), {"idle", "zone", "set", "save", "saving"} \cup {"set", "save"},
                  {"set", "save"})
        /\ net.next \in {"set", "save"}
        /\ AfterStore(net) = [at |-> net.next] \/ AfterStore(net).at = "write"
    BY <1>1, <2>1, <2>2, StoreKeeps
  <2> QED  BY <1>1, <2>3, <2>4
<1>3. net'.at # "saving"
  BY <1>2
<1>4. /\ ChipTypes' /\ GuestTypes' /\ ProgramTypes' /\ Clocked' /\ SentBits'
      /\ AnswerBits' /\ AnswerHeard' /\ AnswerTaken'
  <2>1. Fetching' <=> Fetching
    BY <1>1 DEF Fetching
  <2>2. UNCHANGED <<pos, cmd, lastClkVal, line, guest, pram>>
    BY <1>1 DEF chipVars
  <2> QED  BY <2>1, <2>2, <1>2, ChipStays
<1>5. EmuTask' /\ NetTask'
  BY <1>1, <1>2 DEF ClockInv, EmuTask, NetTask
<1>6. FlashTypes' /\ HostTypes'
  BY <1>1, <1>2 DEF ClockInv, FlashTypes, HostTypes, flashVars, hostVars, Busy
<1>7. Flashing'
  BY <1>1, <1>3 DEF ClockInv, Flashing, flashVars
<1>8. PramKept'
  BY <1>1, <1>2 DEF ClockInv, PramKept, flashVars
<1>9. BytesSet'
  BY <1>1 DEF ClockInv, BytesSet, Busy
<1> QED  BY <1>4, <1>5, <1>6, <1>7, <1>8, <1>9 DEF ClockInv

LEMMA NetSavesStep == ClockInv /\ NetSaves => ClockInv'
<1> SUFFICES ASSUME ClockInv, NetSaves PROVE ClockInv'
  OBVIOUS
<1>1. UNCHANGED <<chipVars, mem, hostVars, emu, macTime, guest, pram, real, disturbed>>
  BY DEF NetSaves
<1>2. /\ net.at \in {"save", "saving"} /\ net'.at \in {"saving", "idle"}
      /\ nvs' \in Memories /\ unsaved' \in BOOLEAN
      /\ flash' # <<>> => flash'[1] \in {"emu", "net"} /\ flash'[2] \in Memories
      /\ \/ flash = <<>> /\ flash' = <<"net", mem>> /\ nvs' = nvs /\ unsaved' = unsaved
            /\ net'.at = "saving" /\ net.at = "save" /\ flash'[1] = "net" /\ flash'[2] = mem
            /\ flash' # <<>>
         \/ flash' = flash /\ nvs' = nvs /\ net'.at = "idle" /\ net.at = "save"
            /\ unsaved' = unsaved
         \/ flash # <<>> /\ flash[1] = "net" /\ flash' = <<>> /\ nvs' = flash[2]
            /\ unsaved' = unsaved /\ net'.at = "idle" /\ net.at = "saving"
  <2>1. \/ SaveBegins("net", net) /\ net' = [at |-> "saving"]
        \/ (SaveFails("net", net) \/ SaveEnds("net", net)) /\ net' = [at |-> "idle"]
    BY DEF NetSaves, Idle
  <2>2. "net" \in {"emu", "net"} /\ "net" # "emu" /\ unsaved \in BOOLEAN
    BY DEF ClockInv, FlashTypes
  <2> QED  BY <2>1, <2>2, SaveKeeps
<1>3. /\ ChipTypes' /\ GuestTypes' /\ ProgramTypes' /\ Clocked' /\ SentBits'
      /\ AnswerBits' /\ AnswerHeard' /\ AnswerTaken'
  <2>1. Fetching' <=> Fetching
    BY <1>1 DEF Fetching
  <2>2. UNCHANGED <<pos, cmd, lastClkVal, line, guest, pram>> /\ mem' = mem
    BY <1>1 DEF chipVars
  <2> QED  BY <2>1, <2>2, ChipStays
<1>4. EmuTask' /\ NetTask'
  <2>1. net' \in {[at |-> "saving"], [at |-> "idle"]}
    BY DEF NetSaves, Idle
  <2> QED  BY <1>1, <2>1 DEF ClockInv, EmuTask, NetTask, IsTask
<1>5. FlashTypes' /\ HostTypes'
  BY <1>1, <1>2 DEF ClockInv, FlashTypes, HostTypes, hostVars
<1>6. Flashing'
  BY <1>1, <1>2 DEF ClockInv, Flashing
<1>7. PramKept'
  BY <1>1, <1>2 DEF ClockInv, PramKept, Flashing
<1>8. BytesSet'
  BY <1>1 DEF ClockInv, BytesSet, SetBase, Done, Left
<1> QED  BY <1>3, <1>4, <1>5, <1>6, <1>7, <1>8 DEF ClockInv

LEMMA HostTicksStep == ClockInv /\ HostTicks => ClockInv'
<1> SUFFICES ASSUME ClockInv, HostTicks PROVE ClockInv'
  OBVIOUS
<1>1. /\ host' = host + 1 /\ Note(MacTime(host', zone))
      /\ UNCHANGED <<chipVars, mem, zone, flashVars, emu, netVars, guest, pram, disturbed>>
  BY DEF HostTicks
<1>2. HostTypes /\ zone \in Int /\ host \in Nat
  BY HostFacts DEF ClockInv, HostTypes
<1>3. MacTime(host + 1, zone) \in Times
  <2>1. host + 1 \in Int
    BY <1>2
  <2> QED  BY <1>2, <2>1, MacTimes
<1>4. HostTypes'
  BY <1>1, <1>2, <1>3 DEF HostTypes, Note, netVars
<1>5. NetTask'
  BY <1>1 DEF ClockInv, NetTask, netVars
<1> QED  BY <1>1, <1>4, <1>5, HostStep DEF netVars

-----------------------------------------------------------------------------
(* The guest's programs begin.                                               *)

LEMMA BeginsStep ==
    ASSUME ClockInv, NEW op \in {"readTime", "setTime", "setPram", "readPram"}, NEW value,
           NEW todo, NEW seen, Begins(Program(op, value, todo), seen), seen \subseteq Times,
           todo \in Seq(Accesses), todo # <<>>, ProgramTypes',
           op = "setTime" => Len(todo) = ClockBytes
    PROVE  ClockInv'
<1>1. /\ guest.todo = <<>> /\ emu = [at |-> "idle"]
      /\ guest' = [op |-> op, value |-> value, todo |-> todo, n |-> 0, got |-> 0, bytes |-> <<>>]
      /\ real' = seen /\ disturbed' \in BOOLEAN
      /\ UNCHANGED <<pos, cmd, lastClkVal, line, mem, zone, host, flashVars, emu, net, macTime, pram>>
  BY DEF Begins, Program, AtRest, Idle, chipVars, hostVars, netVars
<1>2. guest.n = 0 /\ emu.at = "idle" /\ ~Fetching
  BY <1>1 DEF ClockInv, GuestTypes, Fetching
<1>3. pos = 0 /\ cmd = NoBits
  BY <1>2 DEF ClockInv, Clocked
<1>4. guest'.op = op /\ guest'.n = 0 /\ guest'.got = 0 /\ guest'.todo = todo
  BY <1>1
<1>5. EmuTask' /\ NetTask' /\ FlashTypes' /\ ChipTypes' /\ HostTypes' /\ Flashing' /\ PramKept'
  BY <1>1 DEF ClockInv, EmuTask, NetTask, FlashTypes, ChipTypes, HostTypes, Flashing, PramKept,
              flashVars
<1>6. GuestTypes'
  BY <1>1, <1>4, Sizes DEF GuestTypes
<1>7. Clocked' /\ SentBits' /\ AnswerBits'
  BY <1>1, <1>2, <1>3, <1>4 DEF Clocked, SentBits, AnswerBits, Fetching
<1>8. AnswerHeard' /\ AnswerTaken'
  BY <1>4, Sizes DEF AnswerHeard, AnswerTaken
<1>9. BytesSet'
  <2>1. emu'.at = "idle"
    BY <1>1
  <2>2. op = "setTime" => Done' = 0
    BY <1>4, Sizes DEF Done, Left
  <2>3. guest'.n # 2 * Frame + 1
    BY <1>4, Sizes
  <2> QED  BY <1>4, <2>1, <2>2, <2>3 DEF BytesSet
<1> QED  BY <1>5, <1>6, <1>7, <1>8, <1>9 DEF ClockInv

LEMMA ReadTimeStep == ClockInv /\ ReadTime => ClockInv'
<1> SUFFICES ASSUME ClockInv, ReadTime PROVE ClockInv'
  OBVIOUS
<1> DEFINE seen == {IF HostSet THEN MacTime(host, zone) ELSE TimeIn(mem, 0)}
<1>1. Begins(Program("readTime", 0, ReadAll), seen)
  BY DEF ReadTime
<1>2. seen \subseteq Times
  <2>1. MacTime(host, zone) \in Times
    BY HostFacts DEF ClockInv
  <2>2. \A i \in 0 .. ClockBytes - 1 : mem[0 + i] \in 0 .. Base - 1
    BY Sizes DEF ClockInv, FlashTypes, Memories
  <2>3. TimeIn(mem, 0) \in Times
    BY <2>2, TimeInRange
  <2> QED  BY <2>1, <2>3
<1>3. ReadAll \in Seq(Accesses) /\ ReadAll # <<>> /\ Len(ReadAll) = 2 * ClockBytes
      /\ \A k \in 1 .. Len(ReadAll) : ReadAll[k].write = FALSE
  <2>1. ASSUME NEW i \in 1 .. 2 * ClockBytes
        PROVE  Access(FALSE, (i - 1) % ClockBytes, 0) \in Accesses
    <3>1. (i - 1) % ClockBytes \in Registers
      BY Sizes
    <3>2. 0 \in 0 .. Base - 1
      BY Sizes
    <3> QED  BY <3>1, <3>2 DEF Access, Accesses
  <2>2. PICK length \in Nat \ {0} : length = 2 * ClockBytes
    BY Sizes
  <2>3. ReadAll = [i \in 1 .. length |-> Access(FALSE, (i - 1) % ClockBytes, 0)]
    BY <2>2 DEF ReadAll
  <2>4. ReadAll \in Seq(Accesses) /\ Len(ReadAll) = length
    <3> DEFINE entry(i) == Access(FALSE, (i - 1) % ClockBytes, 0)
    <3>1. \A i \in 1 .. length : entry(i) \in Accesses
      BY <2>1, <2>2
    <3>2. ReadAll = [i \in 1 .. length |-> entry(i)]
      BY <2>3
    <3> HIDE DEF entry
    <3> QED  BY <3>1, <3>2
  <2> QED  BY <2>2, <2>3, <2>4 DEF Access
<1>4. ProgramTypes'
  <2>1. guest'.op = "readTime" /\ guest'.todo = ReadAll
    BY <1>1 DEF Begins, Program, AtRest
  <2> QED  BY <1>3, <2>1 DEF ProgramTypes, Left
<1> HIDE DEF seen
<1> QED  BY <1>1, <1>2, <1>3, <1>4, BeginsStep

LEMMA SetTimeStep == ClockInv /\ SetTime => ClockInv'
<1> SUFFICES ASSUME ClockInv, SetTime PROVE ClockInv'
  OBVIOUS
<1>1. PICK t \in Times, base \in {0, ClockBytes} : Begins(Program("setTime", t, SetAll(t, base)), {})
  BY RtcConstants DEF SetTime
<1>2. PICK todo : todo = SetAll(t, base)
  OBVIOUS
<1>3. /\ todo \in Seq(Accesses) /\ todo # <<>> /\ Len(todo) = ClockBytes
      /\ \A k \in 1 .. ClockBytes :
            todo[k] = [write |-> TRUE, addr |-> base + k - 1, byte |-> ByteOf(t, k - 1)]
  <2>1. ASSUME NEW i \in 1 .. ClockBytes
        PROVE  Access(TRUE, base + i - 1, ByteOf(t, i - 1)) \in Accesses
    <3>1. base + i - 1 \in Registers /\ i - 1 \in Nat
      BY Sizes
    <3>2. ByteOf(t, i - 1) \in 0 .. Base - 1
      BY <3>1, BytesInRange
    <3> QED  BY <3>1, <3>2 DEF Access, Accesses
  <2>2. PICK length \in Nat \ {0} : length = ClockBytes
    BY Sizes
  <2> DEFINE entry(i) == Access(TRUE, base + i - 1, ByteOf(t, i - 1))
  <2>3. todo = [i \in 1 .. length |-> entry(i)] /\ \A i \in 1 .. length : entry(i) \in Accesses
    BY <2>1, <2>2, <1>2 DEF SetAll
  <2>4. \A i \in 1 .. length :
          entry(i) = [write |-> TRUE, addr |-> base + i - 1, byte |-> ByteOf(t, i - 1)]
    BY DEF Access
  <2> HIDE DEF entry
  <2>5. todo \in Seq(Accesses) /\ Len(todo) = length
    BY <2>3
  <2>6. todo # <<>> /\ \A k \in 1 .. length : todo[k] = entry(k)
    BY <2>3, <2>5
  <2> QED  BY <2>2, <2>4, <2>5, <2>6
<1>4. guest'.op = "setTime" /\ guest'.todo = todo /\ guest'.value = t
  BY <1>1, <1>2 DEF Begins, Program, AtRest
<1>5. ProgramTypes'
  <2>1. Left' = ClockBytes /\ Done' = 0 /\ SetBase' = base
    <3>1. 1 \in 1 .. ClockBytes /\ ClockBytes \in Nat
      BY Sizes
    <3>2. Left' = ClockBytes /\ Done' = 0
      BY <1>3, <1>4, <3>1 DEF Left, Done
    <3>3. todo[1].addr = base
      BY <1>3, <3>1, Sizes
    <3> QED  BY <1>4, <3>1, <3>2, <3>3 DEF SetBase
  <2>2. \A k \in 1 .. ClockBytes : base + 0 + k - 1 = base + k - 1 /\ 0 + k - 1 = k - 1
    BY Sizes
  <2> QED  BY <1>3, <1>4, <2>1, <2>2 DEF ProgramTypes
<1>6. Begins(Program("setTime", t, todo), {})
  BY <1>1, <1>2
<1> QED  BY <1>3, <1>5, <1>6, BeginsStep

LEMMA SetPramStep == ClockInv /\ SetPram => ClockInv'
<1> SUFFICES ASSUME ClockInv, SetPram PROVE ClockInv'
  OBVIOUS
<1>1. PICK a \in PramUsed, v \in 0 .. Base - 1 :
        Begins(Program("setPram", v, <<Access(TRUE, a, v)>>), {})
  BY RtcConstants DEF SetPram
<1>2. PICK todo : todo = <<Access(TRUE, a, v)>>
  OBVIOUS
<1>3. /\ todo \in Seq(Accesses) /\ todo # <<>> /\ Len(todo) = 1
      /\ todo[1] = [write |-> TRUE, addr |-> a, byte |-> v]
  <2>1. Access(TRUE, a, v) \in Accesses
    BY Sizes DEF Access, Accesses
  <2> QED  BY <1>2, <2>1 DEF Access
<1>4. guest'.op = "setPram" /\ guest'.todo = todo /\ guest'.value = v
  BY <1>1, <1>2 DEF Begins, Program, AtRest
<1>5. ProgramTypes'
  BY <1>3, <1>4 DEF ProgramTypes, Left
<1>6. Begins(Program("setPram", v, todo), {})
  BY <1>1, <1>2
<1> QED  BY <1>3, <1>5, <1>6, BeginsStep

LEMMA ReadPramStep == ClockInv /\ ReadPram => ClockInv'
<1> SUFFICES ASSUME ClockInv, ReadPram PROVE ClockInv'
  OBVIOUS
<1>1. PICK a \in PramUsed : Begins(Program("readPram", 0, <<Access(FALSE, a, 0)>>), {})
  BY DEF ReadPram
<1>2. PICK todo : todo = <<Access(FALSE, a, 0)>>
  OBVIOUS
<1>3. /\ todo \in Seq(Accesses) /\ todo # <<>> /\ Len(todo) = 1
      /\ todo[1] = [write |-> FALSE, addr |-> a, byte |-> 0]
  <2>1. Access(FALSE, a, 0) \in Accesses
    BY Sizes DEF Access, Accesses
  <2> QED  BY <1>2, <2>1 DEF Access
<1>4. guest'.op = "readPram" /\ guest'.todo = todo /\ guest'.bytes = <<>>
  BY <1>1, <1>2 DEF Begins, Program, AtRest
<1>5. ProgramTypes'
  BY <1>3, <1>4 DEF ProgramTypes, Left
<1>6. Begins(Program("readPram", 0, todo), {})
  BY <1>1, <1>2
<1> QED  BY <1>3, <1>5, <1>6, BeginsStep

-----------------------------------------------------------------------------
(* The guest's clock: low edges, on which it also samples the line, and the  *)
(* three kinds of rising edge.                                               *)

\* The guest's next access.
LEMMA NextAccess ==
    ASSUME ClockInv, guest.todo # <<>>
    PROVE  /\ guest.todo[1] \in Accesses /\ Left \in Nat /\ Left >= 1
           /\ guest.todo[1].write \in BOOLEAN /\ guest.todo[1].addr \in Registers
           /\ guest.todo[1].byte \in 0 .. Base - 1
           /\ guest.op = "setTime" => guest.todo[1].write = TRUE
           /\ guest.op = "setPram" => guest.todo[1].write = TRUE
           /\ guest.op = "readPram" => guest.todo[1].write = FALSE
           /\ guest.op = "readTime" => guest.todo[1].write = FALSE
<1>1. guest.todo \in Seq(Accesses)
  BY DEF ClockInv, GuestTypes
<1>2. guest.todo[1] \in Accesses /\ Len(guest.todo) \in Nat /\ Len(guest.todo) >= 1
  BY <1>1
<1>3. PICK access \in Accesses : access = guest.todo[1]
  BY <1>2
<1>4. access.write \in BOOLEAN /\ access.addr \in Registers /\ access.byte \in 0 .. Base - 1
  BY DEF Accesses
<1>5. 1 \in 1 .. Left
  BY <1>2 DEF Left
<1>6. guest.op = "setTime" => access.write = TRUE
  <2> SUFFICES ASSUME guest.op = "setTime" PROVE access.write = TRUE
    OBVIOUS
  <2>1. \A k \in 1 .. Left : guest.todo[k] = [write |-> TRUE, addr |-> SetBase + Done + k - 1,
                                             byte |-> ByteOf(guest.value, Done + k - 1)]
    BY DEF ClockInv, ProgramTypes
  <2>2. PICK a, b : guest.todo[1] = [write |-> TRUE, addr |-> a, byte |-> b]
    BY <1>5, <2>1
  <2> QED  BY <1>3, <2>2
<1> QED  BY <1>2, <1>3, <1>4, <1>5, <1>6 DEF ClockInv, ProgramTypes, Left

\* What GuestClocks does to the guest.
LEMMA GuestMoves ==
    ASSUME ClockInv, GuestClocks
    PROVE  /\ guest.todo # <<>> /\ guest.n \in Nat /\ guest.n <= 2 * Frame /\ Frame \in Nat
           /\ emu = [at |-> "idle"] /\ emu.at = "idle" /\ ~Fetching
           /\ guest'.op = guest.op /\ guest'.value = guest.value /\ guest'.todo = guest.todo
           /\ guest'.bytes = guest.bytes /\ guest'.n = guest.n + 1
           /\ guest'.got = (IF guest.n % 2 = 1 THEN Sampled((guest.n - 1) \div 2) ELSE guest.got)
           /\ IF guest.n = 0 THEN RtcCom(0, 0, 0)
              ELSE RtcCom(0, Sent(guest.todo[1], (guest.n - 1) \div 2), (guest.n + 1) % 2)
           /\ UNCHANGED <<netVars, disturbed>>
           /\ GuestTypes' /\ ProgramTypes' /\ NetTask'
<1>1. /\ guest.todo # <<>> /\ guest.n <= 2 * Frame
      /\ IF guest.n = 0 THEN RtcCom(0, 0, 0)
         ELSE RtcCom(0, Sent(guest.todo[1], (guest.n - 1) \div 2), (guest.n + 1) % 2)
      /\ guest' = [guest EXCEPT !.n = @ + 1,
                                !.got = IF guest.n % 2 = 1 THEN Sampled((guest.n - 1) \div 2) ELSE @]
      /\ UNCHANGED <<netVars, disturbed>>
  BY DEF GuestClocks
<1>2. emu = [at |-> "idle"]
  BY <1>1 DEF RtcCom, Idle
<1>3. emu.at = "idle" /\ ~Fetching
  BY <1>2 DEF Fetching
<1>4. guest = [op |-> guest.op, value |-> guest.value, todo |-> guest.todo, n |-> guest.n,
                got |-> guest.got, bytes |-> guest.bytes]
  BY DEF ClockInv, GuestTypes
<1>5. PICK got : got = IF guest.n % 2 = 1 THEN Sampled((guest.n - 1) \div 2) ELSE guest.got
  OBVIOUS
<1>6. guest' = [guest EXCEPT !.n = @ + 1, !.got = got]
  BY <1>1, <1>5
<1>7. guest' = [op |-> guest.op, value |-> guest.value, todo |-> guest.todo, n |-> guest.n + 1,
                 got |-> got, bytes |-> guest.bytes]
  BY <1>4, <1>6
<1>8. /\ guest'.op = guest.op /\ guest'.value = guest.value /\ guest'.todo = guest.todo
      /\ guest'.bytes = guest.bytes /\ guest'.n = guest.n + 1 /\ guest'.got = got
  BY <1>7
<1>9. guest.n \in Nat /\ Frame \in Nat
  BY Sizes DEF ClockInv, GuestTypes
<1>10. GuestTypes'
  <2>1. guest'.n \in 0 .. 2 * Frame + 1
    BY <1>1, <1>8, <1>9
  <2>2. guest' = [op |-> guest'.op, value |-> guest'.value, todo |-> guest'.todo, n |-> guest'.n,
                  got |-> guest'.got, bytes |-> guest'.bytes]
    BY <1>7, <1>8
  <2> QED  BY <1>1, <1>8, <2>1, <2>2 DEF ClockInv, GuestTypes
<1>11. ProgramTypes'
  BY <1>8 DEF ClockInv, ProgramTypes, SetBase, Done, Left
<1>12. NetTask'
  BY <1>1 DEF ClockInv, NetTask, netVars
<1> QED  BY <1>1, <1>2, <1>3, <1>5, <1>8, <1>9, <1>10, <1>11, <1>12

\* The byte a read of parameter memory asks for.
LEMMA AskedByte ==
    ASSUME ClockInv, guest.op = "readPram"
    PROVE  /\ Asked \in Nat /\ Asked < Pow2[DataBits]
           /\ \A n \in Nat : Shifted(Asked, n) \in Nat
           /\ \A n \in Nat : Shifted(Asked, n) = 2 * Shifted(Asked, n + 1) + (Shifted(Asked, n) % 2)
           /\ Shifted(Asked, DataBits) = 0 /\ Shifted(Asked, 0) = Asked
<1>1. guest.todo[1].addr \in Registers
  BY Sizes DEF ClockInv, ProgramTypes
<1>2. PICK b \in 0 .. Base - 1 : b = Asked
  BY <1>1 DEF ClockInv, FlashTypes, Memories, Asked
<1>3. b \in Nat /\ b < Pow2[DataBits] /\ DataBits \in Nat
  BY Sizes DEF Base
<1> QED  BY <1>2, <1>3, ShiftedOnce

LEMMA LowStep ==
    ASSUME ClockInv, GuestClocks, guest.n = 0 \/ guest.n % 2 = 1
    PROVE  ClockInv'
<1>1. /\ guest.todo # <<>> /\ guest.n \in Nat /\ guest.n <= 2 * Frame /\ Frame \in Nat
      /\ emu.at = "idle" /\ ~Fetching
      /\ guest'.op = guest.op /\ guest'.value = guest.value /\ guest'.todo = guest.todo
      /\ guest'.bytes = guest.bytes /\ guest'.n = guest.n + 1
      /\ guest'.got = (IF guest.n % 2 = 1 THEN Sampled((guest.n - 1) \div 2) ELSE guest.got)
      /\ UNCHANGED <<netVars, disturbed>>
      /\ GuestTypes' /\ ProgramTypes' /\ NetTask'
  BY GuestMoves
<1>2. NoEdge(0, 0)
  <2>1. guest.n # 0 => (guest.n + 1) % 2 = 0
    BY <1>1
  <2>2. \E dat : RtcCom(0, dat, 0)
    BY <2>1, GuestMoves
  <2> QED  BY <2>2 DEF RtcCom
<1>3. /\ line' = 0 /\ lastClkVal' = 0 /\ pos' = pos /\ cmd' = cmd
      /\ UNCHANGED <<mem, hostVars, flashVars, emu, pram, real>>
  BY <1>2 DEF NoEdge
<1>4. pos \in Nat /\ (guest.n = 0 => pos = 0 /\ cmd = NoBits) /\ (guest.n > 0 => guest.n = 2 * pos + 1)
  BY <1>1, Sizes DEF ClockInv, Clocked, ChipTypes
<1>a. PICK n \in Nat, p \in Nat, F \in Nat, C \in Nat, D \in Nat :
        /\ n = guest.n /\ p = pos /\ F = Frame /\ C = CommandBits /\ D = DataBits
        /\ C > 0 /\ D > 0 /\ F = C + D /\ n <= 2 * F /\ guest'.n = n + 1
        /\ n = 0 => p = 0
        /\ n > 0 => n = 2 * p + 1
  <2>1. /\ CommandBits \in Nat /\ CommandBits > 0 /\ DataBits \in Nat /\ DataBits > 0
        /\ Frame = CommandBits + DataBits
    BY Sizes
  <2> QED  BY <2>1, <1>1, <1>4
<1>b. n > 0 => /\ (n - 1) \div 2 = p /\ n % 2 = 1 /\ n \div 2 = p /\ (n + 1) \div 2 = p + 1
  BY <1>a
<1>5. Fetching' <=> FALSE
  BY <1>1, <1>3 DEF Fetching
<1>6. EmuTask' /\ FlashTypes' /\ HostTypes' /\ Flashing' /\ PramKept'
  BY <1>1, <1>3 DEF ClockInv, EmuTask, FlashTypes, HostTypes, Flashing, PramKept, hostVars,
              flashVars, netVars
<1>7. ChipTypes'
  BY <1>3 DEF ClockInv, ChipTypes
<1>8. Clocked'
  <2>1. guest'.n > 0 /\ guest'.n # 0 /\ (guest'.n = 2 * pos + 1 => pos = 0)
        /\ (guest'.n = 2 * pos + 1 \/ guest'.n = 2 * pos + 2)
    BY <1>a
  <2> QED  BY <2>1, <1>3, <1>4, <1>5 DEF Clocked
<1>9. SentBits'
  <2>1. CASE guest.n = 0
    BY <2>1, <1>3, <1>4, Sizes DEF SentBits, NoBits
  <2>2. CASE guest.n > 0
    BY <2>2, <1>1, <1>3 DEF ClockInv, SentBits
  <2> QED  BY <2>1, <2>2, <1>1
<1>10. Asked' = Asked
  BY <1>1, <1>3 DEF Asked
<1>11. AnswerBits'
  <2>1. CASE guest.n = 0
    BY <2>1, <1>3, <1>4, Sizes DEF AnswerBits, NoBits
  <2>2. CASE guest.n > 0
    BY <2>2, <1>1, <1>3, <1>10 DEF ClockInv, AnswerBits
  <2> QED  BY <2>1, <2>2, <1>1
<1>12. AnswerHeard'
  <2> SUFFICES ASSUME ~Pb7Driven, guest.op = "readPram"
               PROVE  /\ guest'.n <= 2 * CommandBits + 2 => guest'.got = 0
                      /\ guest'.n >= 2 * CommandBits + 2 =>
                            guest'.got = Shifted(Asked, (Frame + 1) - guest'.n \div 2)
                      /\ ~ (guest'.n >= 2 * CommandBits + 3 /\ guest'.n = 2 * pos' + 1)
    BY <1>1, <1>10 DEF AnswerHeard
  <2>1. /\ guest.n <= 2 * CommandBits + 2 => guest.got = 0
        /\ guest.n >= 2 * CommandBits + 2 => guest.got = Shifted(Asked, (Frame + 1) - guest.n \div 2)
        /\ guest.n >= 2 * CommandBits + 3 /\ guest.n = 2 * pos + 1 => line = cmd[pos - 1]
    BY DEF ClockInv, AnswerHeard
  <2>2. guest.todo[1].write = FALSE
    BY <1>1, NextAccess
  <2>3. CommandBits \in Nat /\ CommandBits > 0 /\ DataBits \in Nat /\ Frame = CommandBits + DataBits
    BY Sizes
  <2>4. CASE n = 0
    BY <2>4, <1>a, <1>1, <1>3, <2>1
  <2>5. CASE n > 0 /\ p <= C
    <3>1. guest.got = 0
      BY <2>1, <2>5, <1>a
    <3>2. guest'.got = guest.got
      BY <1>1, <2>5, <1>a, <1>b DEF Sampled
    <3>3. n + 1 >= 2 * C + 2 => (F + 1) - (n + 1) \div 2 = D
      BY <2>5, <1>a, <1>b
    <3>4. ~ (n + 1 = 2 * p + 1)
      BY <2>5, <1>a
    <3> QED  BY <1>a, <1>3, <3>1, <3>2, <3>3, <3>4, AskedByte
  <2>6. CASE n > 0 /\ ~ (p <= C)
    <3>1. n >= 2 * C + 3 /\ p > C /\ ~ (n + 1 <= 2 * C + 2) /\ ~ (n + 1 = 2 * p + 1)
      BY <1>a, <2>6
    <3>2. PICK k \in Nat : k = F - p
      BY <1>a, <2>6
    <3>3. /\ p - 1 \in C .. F - 1 /\ (F - 1) - (p - 1) = k /\ (F + 1) - n \div 2 = k + 1
          /\ (F + 1) - (n + 1) \div 2 = k
      BY <1>a, <1>b, <3>1, <3>2
    <3>4. line = Shifted(Asked, k) % 2
      <4>1. cmd[p - 1] = Shifted(Asked, (F - 1) - (p - 1)) % 2
        BY <1>a, <3>1, <3>3 DEF ClockInv, AnswerBits
      <4> QED  BY <4>1, <3>1, <3>3, <2>1, <1>a
    <3>5. guest.got = Shifted(Asked, k + 1)
      BY <2>1, <1>a, <3>1, <3>3
    <3>6. guest'.got = 2 * guest.got + line
      BY <1>1, <1>a, <1>b, <2>2, <3>1 DEF Sampled
    <3>7. guest'.got = Shifted(Asked, k)
      BY <3>4, <3>5, <3>6, AskedByte
    <3> QED  BY <1>a, <1>3, <3>1, <3>3, <3>7
  <2> QED  BY <1>a, <2>4, <2>5, <2>6
<1>13. AnswerTaken'
  BY <1>1, <1>3 DEF ClockInv, AnswerTaken
<1>14. BytesSet'
  <2>1. guest'.n # 2 * Frame + 1
    BY <1>a
  <2>2. SetBase' = SetBase /\ Done' = Done
    BY <1>1 DEF SetBase, Done, Left
  <2>3. Done \in Int
    BY <1>1, NextAccess, Sizes DEF Done
  <2>4. guest.n # 2 * Frame + 1
    BY <1>1
  <2> QED  BY <1>1, <1>3, <2>1, <2>2, <2>3, <2>4 DEF ClockInv, BytesSet
<1> QED  BY <1>1, <1>6, <1>7, <1>8, <1>9, <1>11, <1>12, <1>13, <1>14 DEF ClockInv

\* The rising edge, whichever it is: the guest's part of it.
LEMMA HighGuest ==
    ASSUME ClockInv, GuestClocks, ~ (guest.n = 0 \/ guest.n % 2 = 1), NEW access, access = guest.todo[1]
    PROVE  /\ access \in Accesses /\ access.write \in BOOLEAN /\ guest.todo # <<>>
           /\ emu.at = "idle" /\ ~Fetching
           /\ guest'.op = guest.op /\ guest'.value = guest.value /\ guest'.todo = guest.todo
           /\ guest'.bytes = guest.bytes /\ guest'.got = guest.got
           /\ UNCHANGED <<netVars, disturbed>>
           /\ GuestTypes' /\ ProgramTypes' /\ NetTask'
<1>1. /\ guest.todo # <<>> /\ emu.at = "idle" /\ ~Fetching
      /\ guest'.op = guest.op /\ guest'.value = guest.value /\ guest'.todo = guest.todo
      /\ guest'.bytes = guest.bytes
      /\ guest'.got = (IF guest.n % 2 = 1 THEN Sampled((guest.n - 1) \div 2) ELSE guest.got)
      /\ UNCHANGED <<netVars, disturbed>>
      /\ GuestTypes' /\ ProgramTypes' /\ NetTask'
  BY GuestMoves
<1>2. access \in Accesses /\ access.write \in BOOLEAN
  BY <1>1, NextAccess
<1> QED  BY <1>1, <1>2

\* Its numbers.
LEMMA HighNumbers ==
    ASSUME ClockInv, GuestClocks, ~ (guest.n = 0 \/ guest.n % 2 = 1)
    PROVE  /\ pos \in Nat /\ CommandBits \in Nat /\ DataBits \in Nat /\ Frame \in Nat
           /\ CommandBits > 0 /\ DataBits > 0
           /\ guest.n = 2 * pos + 2 /\ guest.n > 0 /\ guest.n <= 2 * Frame
           /\ pos < Frame /\ Frame = CommandBits + DataBits
           /\ guest'.n = 2 * pos + 3
           /\ RtcCom(0, Sent(guest.todo[1], pos), 1)
<1>1. /\ guest.n \in Nat /\ guest.n <= 2 * Frame /\ Frame \in Nat /\ ~Fetching
      /\ guest'.n = guest.n + 1
      /\ IF guest.n = 0 THEN RtcCom(0, 0, 0)
         ELSE RtcCom(0, Sent(guest.todo[1], (guest.n - 1) \div 2), (guest.n + 1) % 2)
  BY GuestMoves
<1>2. guest.n > 0 /\ guest.n % 2 = 0
  BY <1>1
<1>3. guest.n = 2 * pos + 1 \/ guest.n = 2 * pos + 2
  BY <1>1, <1>2 DEF ClockInv, Clocked
<1>4. pos \in Nat
  BY <1>1 DEF ClockInv, ChipTypes
<1>5. guest.n = 2 * pos + 2
  BY <1>1, <1>2, <1>3, <1>4
<1>6. PICK n \in Nat, p \in Nat : n = guest.n /\ p = pos /\ n = 2 * p + 2
  BY <1>1, <1>4, <1>5
<1>7. (n - 1) \div 2 = p /\ (n + 1) % 2 = 1
  BY <1>6
<1>8. RtcCom(0, Sent(guest.todo[1], pos), 1)
  BY <1>1, <1>6, <1>7
<1>9. CommandBits \in Nat /\ DataBits \in Nat /\ CommandBits > 0 /\ DataBits > 0 /\ Frame = CommandBits + DataBits
  BY Sizes
<1>10. pos < Frame /\ guest'.n = 2 * pos + 3
  BY <1>1, <1>4, <1>5
<1> QED  BY <1>1, <1>2, <1>4, <1>5, <1>8, <1>9, <1>10

\* The command register after it.
LEMMA HighRegister ==
    ASSUME ClockInv, GuestClocks, ~ (guest.n = 0 \/ guest.n % 2 = 1), NEW access,
           access = guest.todo[1], NEW c, c = Accumulated(Sent(access, pos))
    PROVE  TakenIn(c, access)
<1>1. ChipTypes /\ GuestTypes /\ Clocked /\ SentBits
  BY DEF ClockInv
<1>2. guest.n > 0 /\ guest.n = 2 * pos + 2 /\ guest.n <= 2 * Frame
  BY HighNumbers
<1>3. ~Fetching
  BY GuestMoves
<1> QED  BY <1>1, <1>2, <1>3, Edge

\* One of the three.
LEMMA HighCases ==
    ASSUME ClockInv, GuestClocks, ~ (guest.n = 0 \/ guest.n % 2 = 1), NEW access,
           access = guest.todo[1]
    PROVE  \/ MovesBit(Sent(access, pos)) \/ FetchesByte(Sent(access, pos))
           \/ CompletesWrite(Sent(access, pos))
<1>1. lastClkVal = 0
  <2>1. PICK c : c = Accumulated(Sent(access, pos))
    OBVIOUS
  <2> QED  BY <2>1, HighRegister DEF TakenIn
<1>2. RtcCom(0, Sent(access, pos), 1)
  BY HighNumbers
<1> QED  BY <1>1, <1>2 DEF RtcCom

LEMMA MovesBitStep ==
    ASSUME ClockInv, GuestClocks, ~ (guest.n = 0 \/ guest.n % 2 = 1), NEW access,
           access = guest.todo[1], MovesBit(Sent(access, pos))
    PROVE  ClockInv'
<1>1. /\ access \in Accesses /\ access.write \in BOOLEAN /\ guest.todo # <<>>
      /\ emu.at = "idle" /\ ~Fetching
      /\ guest'.op = guest.op /\ guest'.value = guest.value /\ guest'.todo = guest.todo
      /\ guest'.bytes = guest.bytes /\ guest'.got = guest.got
      /\ UNCHANGED <<netVars, disturbed>>
      /\ GuestTypes' /\ ProgramTypes' /\ NetTask'
  BY HighGuest
<1>2. PICK c : /\ c = Accumulated(Sent(access, pos))
               /\ c \in [Bits -> {0, 1}] /\ pos \in Bits
               /\ \A i \in Bits : i < CommandBits \/ access.write = TRUE =>
                      c[i] = IF i < pos + 1 THEN Sent(access, i) ELSE 0
               /\ Reads(c) <=> access.write = FALSE
               /\ pos >= CommandBits /\ access.write = FALSE => c = cmd
               /\ access.write = TRUE \/ pos < CommandBits =>
                      \A i \in Bits : i # pos => c[i] = cmd[i]
  <2>1. PICK c : c = Accumulated(Sent(access, pos))
    OBVIOUS
  <2>2. TakenIn(c, access)
    BY <2>1, HighRegister
  <2> QED  BY <2>1, <2>2 DEF TakenIn
<1>3. PICK p \in Nat, F \in Nat, C \in Nat, D \in Nat :
        /\ p = pos /\ F = Frame /\ C = CommandBits /\ D = DataBits
        /\ C > 0 /\ D > 0 /\ F = C + D /\ p < F
        /\ guest.n = 2 * p + 2 /\ guest'.n = 2 * p + 3
  BY HighNumbers
<1>4. /\ (access.write = FALSE => p # C) /\ (access.write # FALSE => p # F - 1)
      /\ cmd' = c /\ line' = (IF access.write = FALSE THEN c[p] ELSE 0)
      /\ pos' = p + 1 /\ lastClkVal' = 1
      /\ UNCHANGED <<mem, hostVars, flashVars, emu, pram, real>>
  BY <1>2, <1>3 DEF MovesBit
<1>5. ~Fetching'
  BY <1>1, <1>4 DEF Fetching
<1>6. EmuTask' /\ FlashTypes' /\ HostTypes' /\ Flashing' /\ PramKept'
  BY <1>1, <1>4 DEF ClockInv, EmuTask, FlashTypes, HostTypes, Flashing, PramKept, hostVars,
              flashVars, netVars
<1>7. ChipTypes'
  BY <1>2, <1>3, <1>4 DEF ChipTypes
<1>8. Clocked'
  <2>1. 2 * p + 3 > 0 /\ 2 * p + 3 # 0 /\ 2 * p + 3 = 2 * (p + 1) + 1 /\ p + 1 > 0
    BY <1>3
  <2> QED  BY <2>1, <1>3, <1>4, <1>5 DEF Clocked
<1>9. SentBits'
  BY <1>1, <1>2, <1>3, <1>4 DEF SentBits
<1>10. Asked' = Asked
  BY <1>1, <1>4 DEF Asked
<1>11. guest.op = "readPram" => access.write = FALSE
  BY <1>1, NextAccess
<1>12. AnswerBits'
  <2> SUFFICES ASSUME guest.op = "readPram", NEW i \in C .. F - 1
               PROVE  c[i] = IF p + 1 <= C THEN 0 ELSE Shifted(Asked, (F - 1) - i) % 2
    BY <1>1, <1>3, <1>4, <1>10 DEF AnswerBits
  <2>1. cmd[i] = IF p <= C THEN 0 ELSE Shifted(Asked, (F - 1) - i) % 2
    BY <1>3 DEF ClockInv, AnswerBits
  <2>2. i \in Bits
    BY <1>3 DEF Bits
  <2>3. CASE p < C
    <3>1. p <= C /\ p + 1 <= C /\ i # p
      BY <1>3, <2>3
    <3> QED  BY <3>1, <2>1, <2>2, <1>2, <1>3, <2>3
  <2>4. CASE ~ (p < C)
    <3>1. ~ (p <= C) /\ ~ (p + 1 <= C) /\ p >= C
      BY <1>3, <1>4, <1>11, <2>4
    <3> QED  BY <3>1, <2>1, <1>2, <1>3, <1>11
  <2> QED  BY <2>3, <2>4
<1>13. AnswerHeard'
  <2> SUFFICES ASSUME ~Pb7Driven, guest.op = "readPram"
               PROVE  /\ 2 * p + 3 <= 2 * C + 2 => guest.got = 0
                      /\ 2 * p + 3 >= 2 * C + 2 =>
                            guest.got = Shifted(Asked, (F + 1) - (2 * p + 3) \div 2)
                      /\ 2 * p + 3 >= 2 * C + 3 => line' = c[p]
    <3>1. (p + 1) - 1 = p
      BY <1>3
    <3> QED  BY <3>1, <1>1, <1>3, <1>4, <1>10 DEF AnswerHeard
  <2>1. /\ 2 * p + 2 <= 2 * C + 2 => guest.got = 0
        /\ 2 * p + 2 >= 2 * C + 2 => guest.got = Shifted(Asked, (F + 1) - (2 * p + 2) \div 2)
    BY <1>3 DEF ClockInv, AnswerHeard
  <2>2. /\ (2 * p + 2) \div 2 = (2 * p + 3) \div 2 /\ (2 * p + 3 <= 2 * C + 2 => 2 * p + 2 <= 2 * C + 2)
        /\ (2 * p + 3 >= 2 * C + 2 => 2 * p + 2 >= 2 * C + 2)
    BY <1>3
  <2> QED  BY <2>1, <2>2, <1>4, <1>11
<1>14. AnswerTaken'
  BY <1>1, <1>4 DEF ClockInv, AnswerTaken
<1>15. BytesSet'
  <2>1. guest.op = "setTime" => access.write = TRUE
    BY <1>1, NextAccess
  <2>2. guest.op = "setTime" => guest'.n # 2 * Frame + 1 /\ guest.n # 2 * Frame + 1
    <3>1. p # F - 1 => 2 * p + 3 # 2 * F + 1 /\ 2 * p + 2 # 2 * F + 1
      BY <1>3
    <3> QED  BY <3>1, <2>1, <1>3, <1>4
  <2>3. SetBase' = SetBase /\ Done' = Done
    BY <1>1 DEF SetBase, Done, Left
  <2> QED  BY <1>1, <1>4, <2>2, <2>3 DEF ClockInv, BytesSet
<1> QED  BY <1>1, <1>6, <1>7, <1>8, <1>9, <1>12, <1>13, <1>14, <1>15 DEF ClockInv

LEMMA FetchesByteStep ==
    ASSUME ClockInv, GuestClocks, ~ (guest.n = 0 \/ guest.n % 2 = 1), NEW access,
           access = guest.todo[1], FetchesByte(Sent(access, pos))
    PROVE  ClockInv'
<1>1. /\ access \in Accesses /\ access.write \in BOOLEAN /\ guest.todo # <<>>
      /\ emu.at = "idle" /\ ~Fetching
      /\ guest'.op = guest.op /\ guest'.value = guest.value /\ guest'.todo = guest.todo
      /\ guest'.bytes = guest.bytes /\ guest'.got = guest.got
      /\ UNCHANGED <<netVars, disturbed>>
      /\ GuestTypes' /\ ProgramTypes' /\ NetTask'
  BY HighGuest
<1>2. PICK p \in Nat, F \in Nat, C \in Nat, D \in Nat :
        /\ p = pos /\ F = Frame /\ C = CommandBits /\ D = DataBits
        /\ C > 0 /\ D > 0 /\ F = C + D /\ p < F
        /\ guest.n = 2 * p + 2 /\ guest'.n = 2 * p + 3
  BY HighNumbers
<1>3. /\ Reads(cmd) /\ p = C /\ lastClkVal' = 1
      /\ emu' = IF Address(cmd) \in ClockRegisters /\ HostSet
                THEN Writing(MacTime(host, zone), "fetch") ELSE [at |-> "fetch"]
      /\ UNCHANGED <<pos, cmd, line, mem, hostVars, flashVars, pram, real>>
  BY <1>2 DEF FetchesByte
<1>4. access.write = FALSE
  <2>1. pos > 0
    BY <1>2, <1>3
  <2>2. PICK c : c = Accumulated(Sent(access, pos))
    OBVIOUS
  <2> QED  BY <2>1, <2>2, <1>3, HighRegister DEF TakenIn
<1>5. /\ Fetching' /\ emu'.at \in {"fetch", "write"}
  <2>1. CASE emu' = Writing(MacTime(host, zone), "fetch")
    <3>1. emu'.at = "write" /\ emu'.next = "fetch"
      BY <2>1 DEF Writing
    <3> QED  BY <3>1 DEF Fetching
  <2>2. CASE emu' = [at |-> "fetch"]
    <3>1. emu'.at = "fetch"
      BY <2>2
    <3> QED  BY <3>1 DEF Fetching
  <2> QED  BY <1>3, <2>1, <2>2
<1>6. EmuTask'
  <2>1. MacTime(host, zone) \in Times /\ "fetch" \in {"idle", "fetch"}
    BY HostFacts DEF ClockInv
  <2>2. IsTask(Writing(MacTime(host, zone), "fetch"), {"idle", "fetch", "save", "saving"},
               {"idle", "fetch"})
    BY <2>1, NewWriting
  <2>3. IsTask([at |-> "fetch"], {"idle", "fetch", "save", "saving"}, {"idle", "fetch"})
    BY DEF IsTask
  <2> QED  BY <1>3, <2>2, <2>3 DEF EmuTask
<1>7. FlashTypes' /\ HostTypes' /\ Flashing' /\ PramKept'
  BY <1>1, <1>3, <1>5 DEF ClockInv, FlashTypes, HostTypes, Flashing, PramKept, hostVars,
              flashVars, netVars
<1>8. ChipTypes' /\ AnswerTaken'
  BY <1>1, <1>3 DEF ClockInv, ChipTypes, AnswerTaken
<1>9. Clocked'
  <2>1. guest'.n = 2 * C + 3 /\ guest'.n # 0 /\ guest'.n > 0
    BY <1>2, <1>3
  <2> QED  BY <2>1, <1>1, <1>2, <1>3, <1>4, <1>5 DEF Clocked
<1>10. SentBits' /\ AnswerBits'
  <2>1. Asked' = Asked /\ guest.n > 0
    BY <1>1, <1>2, <1>3 DEF Asked
  <2> QED  BY <1>1, <1>3, <2>1 DEF ClockInv, SentBits, AnswerBits
<1>11. AnswerHeard'
  <2> SUFFICES ASSUME ~Pb7Driven, guest.op = "readPram"
               PROVE  guest.got = Shifted(Asked, (F + 1) - (2 * p + 3) \div 2)
    <3>1. Asked' = Asked
      BY <1>1, <1>3 DEF Asked
    <3>2. ~ (2 * p + 3 <= 2 * C + 2) /\ ~ (2 * p + 3 = 2 * p + 1)
      BY <1>2, <1>3
    <3> QED  BY <3>1, <3>2, <1>1, <1>2, <1>3 DEF AnswerHeard
  <2>1. 2 * p + 2 >= 2 * C + 2 /\ (2 * p + 2) \div 2 = (2 * p + 3) \div 2
    BY <1>2, <1>3
  <2> QED  BY <2>1, <1>2 DEF ClockInv, AnswerHeard
<1>12. BytesSet'
  BY <1>1, <1>4, NextAccess DEF BytesSet
<1> QED  BY <1>1, <1>6, <1>7, <1>8, <1>9, <1>10, <1>11, <1>12 DEF ClockInv

-----------------------------------------------------------------------------
(* The last bit of a write.                                                  *)

\* The bytes after a write.
LEMMA WrittenBytes ==
    ASSUME mem \in Memories, NEW addr \in Registers, NEW byte \in 0 .. Base - 1,
           NEW m, m = Written(addr, byte)
    PROVE  /\ m \in Memories /\ m[addr] = byte
           /\ \A a \in PramUsed : m[a] = IF a = addr THEN byte ELSE mem[a]
<1>1. PICK e : e = [mem EXCEPT ![addr] = byte]
  OBVIOUS
<1>2. e \in Memories /\ e[addr] = byte /\ \A r \in Registers : r # addr => e[r] = mem[r]
  BY <1>1 DEF Memories
<1>3. PICK n \in Nat : n = ClockBytes /\ n > 0
  BY Sizes
<1>4. addr \in Nat /\ \A r \in Registers : r \in Nat
  BY Sizes
<1>5. \A r \in 0 .. 2 * n - 1 : r \in Registers
  BY <1>3, Sizes
<1>6. \A a \in PramUsed : a \in Registers /\ a \in Nat /\ a >= 2 * n
  BY <1>3, Sizes
<1>7. CASE addr < n
  <2>1. m = [r \in Registers |-> IF r \in n .. n + n - 1 THEN e[0 + r - n] ELSE e[r]]
    BY <1>1, <1>3, <1>7 DEF Written
  <2>2. ASSUME NEW r \in Registers, r \in n .. n + n - 1 PROVE 0 + r - n \in Registers
    BY <1>3, <1>4, <1>5, <2>2
  <2>3. m \in Memories
    BY <1>2, <2>1, <2>2 DEF Memories
  <2>4. ~ (addr \in n .. n + n - 1)
    BY <1>3, <1>4, <1>7
  <2>5. \A a \in PramUsed : ~ (a \in n .. n + n - 1)
    BY <1>3, <1>6
  <2> QED  BY <1>2, <1>6, <2>1, <2>3, <2>4, <2>5
<1>8. CASE ~ (addr < n) /\ addr = 2 * n - 1
  <2>1. m = [r \in Registers |-> IF r \in 0 .. 0 + n - 1 THEN e[n + r - 0] ELSE e[r]]
    BY <1>1, <1>3, <1>8 DEF Written
  <2>2. ASSUME NEW r \in Registers, r \in 0 .. 0 + n - 1 PROVE n + r - 0 \in Registers
    BY <1>3, <1>4, <1>5, <2>2
  <2>3. m \in Memories
    BY <1>2, <2>1, <2>2 DEF Memories
  <2>4. ~ (addr \in 0 .. 0 + n - 1)
    BY <1>3, <1>4, <1>8
  <2>5. \A a \in PramUsed : ~ (a \in 0 .. 0 + n - 1)
    BY <1>3, <1>6
  <2> QED  BY <1>2, <1>6, <2>1, <2>3, <2>4, <2>5
<1>9. CASE ~ (addr < n) /\ addr # 2 * n - 1
  <2>1. m = e
    BY <1>1, <1>3, <1>9 DEF Written
  <2> QED  BY <1>2, <1>6, <2>1
<1> QED  BY <1>7, <1>8, <1>9

\* The bytes of a half of the clock after a write to one of them, and what
\* the write of the last one leaves in both halves.
LEMMA WrittenHalves ==
    ASSUME mem \in Memories, NEW base \in {0, ClockBytes}, NEW k \in 0 .. ClockBytes - 1,
           NEW byte \in 0 .. Base - 1, NEW m, m = Written(base + k, byte)
    PROVE  /\ \A i \in 0 .. ClockBytes - 1 : m[base + i] = IF i = k THEN byte ELSE mem[base + i]
           /\ k = ClockBytes - 1 =>
                \A i \in 0 .. ClockBytes - 1 : m[0 + i] = m[base + i] /\ m[ClockBytes + i] = m[base + i]
<1>1. PICK n \in Nat : n = ClockBytes /\ n > 0
  BY Sizes
<1>2. PICK addr \in Nat : addr = base + k
  BY <1>1
<1>3. \A r \in 0 .. 2 * n - 1 : r \in Registers
  BY <1>1, Sizes
<1>4. PICK e : e = [mem EXCEPT ![addr] = byte]
  OBVIOUS
<1>5. addr \in 0 .. 2 * n - 1 /\ addr \in Registers
  BY <1>1, <1>2, <1>3
<1>6. e[addr] = byte /\ \A r \in Registers : r # addr => e[r] = mem[r]
  BY <1>4, <1>5 DEF Memories
<1>7. ASSUME NEW i \in 0 .. n - 1
      PROVE  /\ base + i \in Registers /\ (base + i = addr <=> i = k)
             /\ 0 + i \in Registers /\ n + i \in Registers
  BY <1>1, <1>2, <1>3
<1>8. \A i \in 0 .. n - 1 : e[base + i] = IF i = k THEN byte ELSE mem[base + i]
  BY <1>6, <1>7
<1>9. CASE base = 0
  <2>1. m = [r \in Registers |-> IF r \in n .. n + n - 1 THEN e[0 + r - n] ELSE e[r]]
    <3>1. addr < n
      BY <1>1, <1>2, <1>9
    <3> QED  BY <3>1, <1>1, <1>2, <1>4 DEF Written
  <2>2. ASSUME NEW i \in 0 .. n - 1 PROVE m[0 + i] = e[0 + i] /\ m[n + i] = e[0 + i]
    <3>1. ~ (0 + i \in n .. n + n - 1) /\ n + i \in n .. n + n - 1 /\ 0 + (n + i) - n = 0 + i
      BY <1>1
    <3> QED  BY <3>1, <1>7, <2>1
  <2> QED  BY <1>1, <1>8, <1>9, <2>2
<1>10. CASE base = n /\ addr = 2 * n - 1
  <2>1. m = [r \in Registers |-> IF r \in 0 .. 0 + n - 1 THEN e[n + r - 0] ELSE e[r]]
    <3>1. ~ (addr < n)
      BY <1>1, <1>10
    <3> QED  BY <3>1, <1>1, <1>2, <1>4, <1>10 DEF Written
  <2>2. ASSUME NEW i \in 0 .. n - 1 PROVE m[0 + i] = e[n + i] /\ m[n + i] = e[n + i]
    <3>1. ~ (n + i \in 0 .. 0 + n - 1) /\ 0 + i \in 0 .. 0 + n - 1 /\ n + (0 + i) - 0 = n + i
      BY <1>1
    <3> QED  BY <3>1, <1>7, <2>1
  <2> QED  BY <1>1, <1>8, <1>10, <2>2
<1>11. CASE base = n /\ addr # 2 * n - 1
  <2>1. ~ (addr < n) /\ k # n - 1
    BY <1>1, <1>2, <1>11
  <2>2. m = e
    BY <2>1, <1>1, <1>2, <1>4, <1>11 DEF Written
  <2> QED  BY <2>1, <2>2, <1>1, <1>8
<1> QED  BY <1>1, <1>9, <1>10, <1>11

\* The host's time after the last byte.
LEMMA HostSetBack ==
    ASSUME HostTypes, NEW t \in Times
    PROVE  HostFromMac(t) \in Nat
<1>1. t \in Int /\ Epoch \in Int /\ zone \in Int /\ MinHost \in Nat /\ host \in Nat
  BY Sizes, HostFacts, RtcConstants DEF HostTypes
<1>2. PICK u \in Int : u = t - Epoch - zone
  BY <1>1
<1> QED  BY <1>1, <1>2 DEF HostFromMac

\* What CompletesWrite does.
LEMMA WriteFacts ==
    ASSUME ClockInv, GuestClocks, ~ (guest.n = 0 \/ guest.n % 2 = 1), NEW access,
           access = guest.todo[1], CompletesWrite(Sent(access, pos))
    PROVE  /\ access.write = TRUE /\ pos = Frame - 1 /\ guest'.n = 2 * Frame + 1
           /\ cmd' \in [Bits -> {0, 1}] /\ \A i \in Bits : cmd'[i] = Sent(access, i)
           /\ mem' = Written(access.addr, access.byte)
           /\ host' = IF Commits(access.addr)
                      THEN HostFromMac(TimeIn(mem', (access.addr \div ClockBytes) * ClockBytes))
                      ELSE host
           /\ pram' = IF access.addr \in PramUsed THEN [pram EXCEPT ![access.addr] = guest.value]
                      ELSE pram
           /\ emu' = [at |-> "save"] /\ pos' = Frame /\ lastClkVal' = 1 /\ line' = 0
           /\ UNCHANGED <<zone, flashVars, real>>
<1>1. PICK c : c = Accumulated(Sent(access, pos))
  OBVIOUS
<1>2. TakenIn(c, access)
  BY <1>1, HighRegister
<1>3. access \in Accesses /\ access.write \in BOOLEAN
  BY HighGuest
<1>4. ~Reads(cmd) /\ pos = Frame - 1
  BY DEF CompletesWrite
<1>5. pos > 0 /\ pos + 1 = Frame
  BY <1>4, HighNumbers
<1>6. access.write = TRUE
  BY <1>2, <1>3, <1>4, <1>5 DEF TakenIn
<1>7. ASSUME NEW i \in Bits PROVE c[i] = Sent(access, i)
  <2>1. i < pos + 1
    BY <1>5, Sizes
  <2> QED  BY <2>1, <1>2, <1>6 DEF TakenIn
<1>8. (\A i \in 1 .. AddressBits : i \in Bits) /\ \A i \in CommandBits .. Frame - 1 : i \in Bits
  BY Sizes
<1>9. Address(c) = access.addr
  BY <1>3, <1>7, <1>8, AddressDecoded
<1>10. Data(c) = access.byte
  BY <1>3, <1>6, <1>7, <1>8, DataDecoded
<1>11. c \in [Bits -> {0, 1}]
  BY <1>2 DEF TakenIn
<1>12. guest'.n = 2 * Frame + 1
  BY <1>4, HighNumbers
<1>13. PICK addr, byte : addr = Address(c) /\ byte = Data(c)
  OBVIOUS
<1>14. /\ cmd' = c /\ mem' = Written(addr, byte)
       /\ host' = (IF Commits(addr)
                   THEN HostFromMac(TimeIn(Written(addr, byte), (addr \div ClockBytes) * ClockBytes))
                   ELSE host)
       /\ pram' = (IF addr \in PramUsed THEN [pram EXCEPT ![addr] = guest.value] ELSE pram)
       /\ emu' = [at |-> "save"] /\ pos' = pos + 1 /\ lastClkVal' = 1 /\ line' = 0
       /\ UNCHANGED <<zone, flashVars, real>>
  BY <1>1, <1>13 DEF CompletesWrite
<1> QED  BY <1>4, <1>5, <1>6, <1>7, <1>9, <1>10, <1>11, <1>12, <1>13, <1>14

\* What the guest writes when it sets the time.
LEMMA SetsTime ==
    ASSUME ClockInv, guest.op = "setTime"
    PROVE  /\ guest.todo # <<>> /\ guest.value \in Times /\ SetBase \in {0, ClockBytes}
           /\ Left \in 1 .. ClockBytes /\ Done \in 0 .. ClockBytes - 1
           /\ guest.todo[1].write = TRUE /\ guest.todo[1].addr = SetBase + Done
           /\ guest.todo[1].byte = ByteOf(guest.value, Done)
           /\ SetBase + Done < 2 * ClockBytes
<1>1. guest.todo # <<>>
  BY DEF ClockInv, GuestTypes
<1>2. /\ guest.value \in Times /\ Left <= ClockBytes /\ SetBase \in {0, ClockBytes}
      /\ \A k \in 1 .. Left : guest.todo[k] = [write |-> TRUE, addr |-> SetBase + Done + k - 1,
                                             byte |-> ByteOf(guest.value, Done + k - 1)]
  BY DEF ClockInv, ProgramTypes
<1>3. PICK n \in Nat, l \in Nat : n = ClockBytes /\ n > 0 /\ l = Left /\ l >= 1 /\ l <= n
  BY <1>1, <1>2, Sizes, NextAccess
<1>4. Done = n - l
  BY <1>3 DEF Done
<1>5. PICK d \in 0 .. n - 1, b \in {0, n} : d = Done /\ b = SetBase
  <2>1. n - l \in 0 .. n - 1
    BY <1>3
  <2>2. Done \in 0 .. n - 1 /\ SetBase \in {0, n}
    BY <2>1, <1>2, <1>3, <1>4
  <2> QED  BY <2>2
<1>6. guest.todo[1] = [write |-> TRUE, addr |-> b + d + 1 - 1, byte |-> ByteOf(guest.value, d + 1 - 1)]
  <2>1. 1 \in 1 .. Left
    BY <1>3
  <2> QED  BY <2>1, <1>2, <1>5
<1>7. b + d + 1 - 1 = b + d /\ d + 1 - 1 = d /\ b + d < 2 * n
  BY <1>3, <1>5
<1> QED  BY <1>1, <1>2, <1>3, <1>5, <1>6, <1>7

LEMMA CompletesWriteStep ==
    ASSUME ClockInv, GuestClocks, ~ (guest.n = 0 \/ guest.n % 2 = 1), NEW access,
           access = guest.todo[1], CompletesWrite(Sent(access, pos))
    PROVE  ClockInv'
<1>1. /\ access \in Accesses /\ access.write \in BOOLEAN /\ guest.todo # <<>>
      /\ emu.at = "idle" /\ ~Fetching
      /\ guest'.op = guest.op /\ guest'.value = guest.value /\ guest'.todo = guest.todo
      /\ guest'.bytes = guest.bytes /\ guest'.got = guest.got
      /\ UNCHANGED <<netVars, disturbed>>
      /\ GuestTypes' /\ ProgramTypes' /\ NetTask'
  BY HighGuest
<1>2. /\ access.write = TRUE /\ pos = Frame - 1 /\ guest'.n = 2 * Frame + 1
      /\ cmd' \in [Bits -> {0, 1}] /\ \A i \in Bits : cmd'[i] = Sent(access, i)
      /\ mem' = Written(access.addr, access.byte)
      /\ host' = IF Commits(access.addr)
                 THEN HostFromMac(TimeIn(mem', (access.addr \div ClockBytes) * ClockBytes))
                 ELSE host
      /\ pram' = IF access.addr \in PramUsed THEN [pram EXCEPT ![access.addr] = guest.value]
                 ELSE pram
      /\ emu' = [at |-> "save"] /\ pos' = Frame /\ lastClkVal' = 1 /\ line' = 0
      /\ UNCHANGED <<zone, flashVars, real>>
  BY WriteFacts
<1>3. access.addr \in Registers /\ access.byte \in 0 .. Base - 1
  BY <1>1, NextAccess
<1>4. mem \in Memories /\ HostTypes /\ FlashTypes
  BY DEF ClockInv, FlashTypes
<1>5. mem' \in Memories /\ \A a \in PramUsed : mem'[a] = IF a = access.addr THEN access.byte ELSE mem[a]
  BY <1>2, <1>3, <1>4, WrittenBytes
<1>6. guest.op \in {"setTime", "setPram"}
  <2>1. guest.op \notin {"readTime", "readPram"}
    BY <1>1, <1>2, NextAccess
  <2> QED  BY <2>1, <1>1 DEF ClockInv, GuestTypes
<1>7. emu'.at = "save" /\ ~Fetching'
  BY <1>2 DEF Fetching
<1>8. EmuTask'
  BY <1>2 DEF EmuTask, IsTask
<1>9. FlashTypes'
  BY <1>2, <1>4, <1>5 DEF FlashTypes, flashVars
<1>10. ChipTypes'
  BY <1>2, Sizes DEF ChipTypes
<1>11. HostTypes'
  <2>1. CASE Commits(access.addr)
    <3>1. PICK base : base = (access.addr \div ClockBytes) * ClockBytes
      OBVIOUS
    <3>2. base \in {0, ClockBytes}
      <4>1. PICK n \in Nat : n = ClockBytes /\ n > 0
        BY Sizes
      <4>2. (n - 1) \div n = 0 /\ (2 * n - 1) \div n = 1
        BY <4>1
      <4> QED  BY <2>1, <3>1, <4>1, <4>2 DEF Commits
    <3>3. base \in Nat /\ \A i \in 0 .. ClockBytes - 1 : base + i \in Registers
      BY <3>2, Sizes
    <3>4. \A i \in 0 .. ClockBytes - 1 : mem'[base + i] \in 0 .. Base - 1
      BY <3>3, <1>5 DEF Memories
    <3>5. TimeIn(mem', base) \in Times
      BY <3>3, <3>4, TimeInRange
    <3>6. host' \in Nat
      BY <2>1, <3>1, <3>5, <1>2, <1>4, HostSetBack
    <3> QED  BY <3>6, <1>1, <1>2, <1>4 DEF HostTypes, netVars
  <2>2. CASE ~Commits(access.addr)
    BY <2>2, <1>1, <1>2, <1>4 DEF HostTypes, netVars
  <2> QED  BY <2>1, <2>2
<1>12. Clocked'
  <2>1. Frame \in Nat /\ Frame > 0
    BY Sizes
  <2> QED  BY <2>1, <1>2, <1>7 DEF Clocked
<1>13. SentBits'
  <2>1. \A i \in Bits : i < Frame
    BY Sizes
  <2> QED  BY <2>1, <1>1, <1>2 DEF SentBits
<1>14. AnswerBits' /\ AnswerHeard' /\ AnswerTaken'
  BY <1>1, <1>6 DEF AnswerBits, AnswerHeard, AnswerTaken
<1>15. Flashing'
  BY <1>1, <1>2, <1>7 DEF ClockInv, Flashing, flashVars, netVars
<1>16. PramKept'
  <2>1. /\ pram \in [PramUsed -> 0 .. Base - 1]
        /\ \A a \in PramUsed : mem[a] = pram[a]
        /\ \A a \in PramUsed : ~unsaved /\ flash # <<>> => flash[2][a] = pram[a]
    BY <1>1 DEF ClockInv, PramKept
  <2>2. access.addr \in PramUsed => guest.value = access.byte
    <3>1. guest.op = "setPram" => guest.value = access.byte
      BY <1>1 DEF ClockInv, ProgramTypes
    <3>2. guest.op = "setTime" => access.addr \notin PramUsed
      <4>1. guest.op = "setTime" => access.addr < 2 * ClockBytes
        BY <1>1, SetsTime
      <4>2. access.addr \in PramUsed => access.addr >= 2 * ClockBytes
        BY Sizes
      <4>3. access.addr \in Nat /\ 2 * ClockBytes \in Nat
        BY <1>3, Sizes
      <4> QED  BY <4>1, <4>2, <4>3
    <3> QED  BY <3>1, <3>2, <1>6
  <2>3. pram' \in [PramUsed -> 0 .. Base - 1] /\ \A a \in PramUsed : mem'[a] = pram'[a]
    <3>1. CASE access.addr \in PramUsed
      <4>1. pram' = [pram EXCEPT ![access.addr] = access.byte]
        BY <3>1, <2>2, <1>2
      <4> QED  BY <3>1, <4>1, <2>1, <1>3, <1>5
    <3>2. CASE access.addr \notin PramUsed
      BY <3>2, <2>1, <1>2, <1>5
    <3> QED  BY <3>1, <3>2
  <2> QED  BY <2>3, <1>7 DEF PramKept
<1>17. BytesSet'
  <2> SUFFICES ASSUME guest.op = "setTime", ~disturbed, NEW i \in 0 .. ClockBytes - 1, i < Done + 1
               PROVE  mem'[SetBase + i] = ByteOf(guest.value, i)
    <3>1. SetBase' = SetBase /\ Done' = Done
      BY <1>1 DEF SetBase, Done, Left
    <3> QED  BY <3>1, <1>1, <1>2, <1>7 DEF BytesSet
  <2>1. PICK b \in {0, ClockBytes}, k \in 0 .. ClockBytes - 1 :
          b = SetBase /\ k = Done /\ access.addr = b + k /\ access.byte = ByteOf(guest.value, k)
    BY <1>1, SetsTime
  <2>2. mem'[b + i] = IF i = k THEN access.byte ELSE mem[b + i]
    BY <2>1, <1>2, <1>3, <1>4, WrittenHalves
  <2>3. CASE i = k
    BY <2>1, <2>2, <2>3
  <2>4. CASE i # k
    <3>1. i < k
      BY <2>1, <2>4, Sizes
    <3>2. guest.n # 2 * Frame + 1
      BY HighNumbers
    <3>3. mem[b + i] = ByteOf(guest.value, i)
      <4>1. \A j \in 0 .. ClockBytes - 1 : j < k + 0 => mem[b + j] = ByteOf(guest.value, j)
        BY <2>1, <3>2 DEF ClockInv, BytesSet
      <4>2. i < k + 0
        BY <2>1, <3>1, Sizes
      <4> QED  BY <4>1, <4>2
    <3> QED  BY <2>1, <2>2, <2>4, <3>3
  <2> QED  BY <2>3, <2>4
<1> QED  BY <1>1, <1>8, <1>9, <1>10, <1>11, <1>12, <1>13, <1>14, <1>15, <1>16, <1>17 DEF ClockInv

LEMMA GuestClocksStep == ClockInv /\ GuestClocks => ClockInv'
<1> SUFFICES ASSUME ClockInv, GuestClocks PROVE ClockInv'
  OBVIOUS
<1>1. CASE guest.n = 0 \/ guest.n % 2 = 1
  BY <1>1, LowStep
<1>2. CASE ~ (guest.n = 0 \/ guest.n % 2 = 1)
  <2>1. PICK access : access = guest.todo[1]
    OBVIOUS
  <2>2. MovesBit(Sent(access, pos)) \/ FetchesByte(Sent(access, pos)) \/ CompletesWrite(Sent(access, pos))
    BY <1>2, <2>1, HighCases
  <2> QED  BY <1>2, <2>1, <2>2, MovesBitStep, FetchesByteStep, CompletesWriteStep
<1> QED  BY <1>1, <1>2

-----------------------------------------------------------------------------
(* The end of an access.                                                     *)

\* The answer a read of parameter memory ends with.
LEMMA AnswerComplete ==
    ASSUME ClockInv, guest.op = "readPram", guest.n = 2 * Frame + 1, ~Fetching, ~Pb7Driven
    PROVE  2 * guest.got + line = Asked
<1>1. PICK p \in Nat, F \in Nat, C \in Nat, D \in Nat :
        p = pos /\ F = Frame /\ C = CommandBits /\ D = DataBits /\ C > 0 /\ D > 0 /\ F = C + D
  BY Sizes DEF ClockInv, ChipTypes
<1>2. 2 * F + 1 = 2 * p + 1 \/ 2 * F + 1 = 2 * p + 2
  <2>1. guest.n > 0
    BY <1>1
  <2> QED  BY <2>1, <1>1 DEF ClockInv, Clocked
<1>3. /\ p = F /\ F - 1 \in C .. F - 1 /\ (F - 1) - (F - 1) = 0 /\ 2 * F + 1 > 0 /\ ~ (F <= C)
      /\ (F + 1) - (2 * F + 1) \div 2 = 1 /\ 2 * F + 1 >= 2 * C + 2 /\ 2 * F + 1 >= 2 * C + 3
  BY <1>1, <1>2
<1>4. /\ guest.n >= 2 * CommandBits + 2 => guest.got = Shifted(Asked, (Frame + 1) - guest.n \div 2)
      /\ guest.n >= 2 * CommandBits + 3 /\ guest.n = 2 * pos + 1 => line = cmd[pos - 1]
  BY DEF ClockInv, AnswerHeard
<1>5. guest.got = Shifted(Asked, 1) /\ line = cmd[F - 1]
  BY <1>1, <1>3, <1>4
<1>6. cmd[F - 1] = Shifted(Asked, 0) % 2
  <2>1. \A i \in C .. F - 1 : cmd[i] = IF F <= C THEN 0 ELSE Shifted(Asked, (F - 1) - i) % 2
    BY <1>1, <1>3 DEF ClockInv, AnswerBits
  <2> QED  BY <2>1, <1>3
<1>7. Shifted(Asked, 0) = 2 * Shifted(Asked, 0 + 1) + (Shifted(Asked, 0) % 2)
  BY AskedByte
<1>8. 0 + 1 = 1
  OBVIOUS
<1> QED  BY <1>5, <1>6, <1>7, <1>8, AskedByte

LEMMA NotEmpty ==
    ASSUME NEW S, NEW q \in Seq(S), Len(q) > 0
    PROVE  q # <<>>
OBVIOUS

LEMMA LongTail ==
    ASSUME NEW S, NEW s \in Seq(S), Len(s) > 1
    PROVE  /\ Tail(s) \in Seq(S) /\ Tail(s) # <<>> /\ Len(Tail(s)) = Len(s) - 1
           /\ \A k \in 1 .. Len(s) - 1 : Tail(s)[k] = s[k + 1]
<1>1. Tail(s) \in Seq(S) /\ Len(Tail(s)) = Len(s) - 1
  OBVIOUS
<1>2. Len(Tail(s)) > 0
  BY <1>1
<1>3. Tail(s) # <<>>
  BY <1>1, <1>2, NotEmpty
<1>4. \A k \in 1 .. Len(s) - 1 : Tail(s)[k] = s[k + 1]
  OBVIOUS
<1> QED  BY <1>1, <1>3, <1>4

\* The guest after an access.
LEMMA AfterAccess ==
    ASSUME ClockInv, GuestDeselects
    PROVE  /\ guest.todo # <<>> /\ guest.n = 2 * Frame + 1 /\ emu = [at |-> "idle"] /\ ~Fetching
           /\ line' = 0 /\ lastClkVal' = 1 /\ pos' = 0 /\ cmd' = NoBits
           /\ UNCHANGED <<mem, hostVars, flashVars, emu, pram, real, netVars, disturbed>>
           /\ guest'.n = 0
           /\ \/ /\ Left # 1 /\ guest'.op = guest.op /\ guest'.value = guest.value
                 /\ guest'.todo = Tail(guest.todo)
              \/ /\ Left = 1 /\ guest'.todo = <<>>
                 /\ guest'.op \in {"rest", "timeRead", "pramRead"}
           /\ guest'.op = "pramRead" =>
                /\ guest.op = "readPram" /\ guest'.bytes = <<guest.todo[1].addr>>
                /\ guest.bytes = <<>> => guest'.value = Sampled(Frame)
           /\ guest' = [op |-> guest'.op, value |-> guest'.value, todo |-> guest'.todo, n |-> guest'.n,
                        got |-> guest'.got, bytes |-> guest'.bytes]
<1>1. PICK bytes : bytes = IF guest.todo[1].write THEN <<>> ELSE Append(guest.bytes, Sampled(Frame))
  OBVIOUS
<1>2. PICK half, answer, done :
        /\ half = SubSeq(bytes, 1, ClockBytes) /\ answer = [i \in 0 .. ClockBytes - 1 |-> bytes[i + 1]]
        /\ done = (Len(guest.todo) = 1)
  OBVIOUS
<1>3. /\ guest.todo # <<>> /\ guest.n = 2 * Frame + 1
      /\ RtcCom(1, 0, 1)
      /\ guest' =
           IF ~done THEN [guest EXCEPT !.todo = Tail(@), !.n = 0, !.got = 0, !.bytes = bytes]
           ELSE IF guest.op = "readTime" /\ half = SubSeq(bytes, ClockBytes + 1, 2 * ClockBytes)
                THEN [AtRest EXCEPT !.op = "timeRead", !.value = TimeIn(answer, 0)]
           ELSE IF guest.op = "readPram"
                THEN [AtRest EXCEPT !.op = "pramRead", !.value = bytes[1],
                                    !.bytes = <<guest.todo[1].addr>>]
           ELSE AtRest
      /\ UNCHANGED <<netVars, disturbed>>
  BY <1>1, <1>2 DEF GuestDeselects
<1>4. emu = [at |-> "idle"] /\ NoEdge(1, 1)
  BY <1>3 DEF RtcCom, Idle
<1>5. emu.at = "idle" /\ ~Fetching
  BY <1>4 DEF Fetching
<1>6. guest = [op |-> guest.op, value |-> guest.value, todo |-> guest.todo, n |-> guest.n,
                got |-> guest.got, bytes |-> guest.bytes]
  BY DEF ClockInv, GuestTypes
<1>7. CASE ~done
  <2>1. guest' = [op |-> guest.op, value |-> guest.value, todo |-> Tail(guest.todo), n |-> 0,
                  got |-> 0, bytes |-> bytes]
    BY <1>3, <1>6, <1>7
  <2>2. /\ guest'.op = guest.op /\ guest'.value = guest.value /\ guest'.todo = Tail(guest.todo)
        /\ guest'.n = 0 /\ guest'.got = 0 /\ guest'.bytes = bytes
    BY <2>1
  <2>3. guest.op # "pramRead" /\ Left # 1
    BY <1>2, <1>3, <1>7 DEF ClockInv, GuestTypes, Left
  <2> QED  BY <1>3, <1>4, <1>5, <2>1, <2>2, <2>3 DEF NoEdge
<1>8. CASE done
  <2>1. Left = 1
    BY <1>2, <1>8 DEF Left
  <2>2. /\ guest'.op \in {"rest", "timeRead", "pramRead"} /\ guest'.todo = <<>> /\ guest'.n = 0
        /\ guest'.op = "pramRead" => /\ guest.op = "readPram" /\ guest'.bytes = <<guest.todo[1].addr>>
                                     /\ guest'.value = bytes[1]
        /\ guest' = [op |-> guest'.op, value |-> guest'.value, todo |-> guest'.todo, n |-> guest'.n,
                     got |-> guest'.got, bytes |-> guest'.bytes]
    <3>1. CASE guest.op = "readTime" /\ half = SubSeq(bytes, ClockBytes + 1, 2 * ClockBytes)
      <4>1. guest' = [AtRest EXCEPT !.op = "timeRead", !.value = TimeIn(answer, 0)]
        BY <3>1, <1>3, <1>8
      <4>2. guest' = [op |-> "timeRead", value |-> TimeIn(answer, 0), todo |-> <<>>, n |-> 0, got |-> 0,
                      bytes |-> <<>>]
        BY <4>1 DEF AtRest
      <4>3. /\ guest'.op = "timeRead" /\ guest'.value = TimeIn(answer, 0) /\ guest'.todo = <<>>
            /\ guest'.n = 0 /\ guest'.got = 0 /\ guest'.bytes = <<>>
        BY <4>2
      <4> QED  BY <3>1, <4>2, <4>3
    <3>2. CASE guest.op = "readPram"
      <4>1. guest' = [AtRest EXCEPT !.op = "pramRead", !.value = bytes[1],
                                    !.bytes = <<guest.todo[1].addr>>]
        BY <3>2, <1>3, <1>8
      <4>2. guest' = [op |-> "pramRead", value |-> bytes[1], todo |-> <<>>, n |-> 0, got |-> 0,
                      bytes |-> <<guest.todo[1].addr>>]
        BY <4>1 DEF AtRest
      <4>3. /\ guest'.op = "pramRead" /\ guest'.value = bytes[1] /\ guest'.todo = <<>>
            /\ guest'.n = 0 /\ guest'.got = 0 /\ guest'.bytes = <<guest.todo[1].addr>>
        BY <4>2
      <4> QED  BY <3>2, <4>2, <4>3
    <3>3. CASE ~ (guest.op = "readTime" /\ half = SubSeq(bytes, ClockBytes + 1, 2 * ClockBytes))
               /\ guest.op # "readPram"
      <4>1. guest' = AtRest
        BY <3>3, <1>3, <1>8
      <4>2. guest' = [op |-> "rest", value |-> 0, todo |-> <<>>, n |-> 0, got |-> 0,
                      bytes |-> <<>>]
        BY <4>1 DEF AtRest
      <4>3. /\ guest'.op = "rest" /\ guest'.value = 0 /\ guest'.todo = <<>>
            /\ guest'.n = 0 /\ guest'.got = 0 /\ guest'.bytes = <<>>
        BY <4>2
      <4> QED  BY <3>3, <4>2, <4>3
    <3> QED  BY <3>1, <3>2, <3>3
  <2>4. guest.op = "readPram" /\ guest.bytes = <<>> => bytes[1] = Sampled(Frame)
    <3>1. guest.op = "readPram" => guest.todo[1].write = FALSE
      BY <1>3, NextAccess
    <3> QED  BY <1>1, <3>1
  <2> QED  BY <1>3, <1>4, <1>5, <2>1, <2>2, <2>4 DEF NoEdge
<1> QED  BY <1>2, <1>7, <1>8

LEMMA GuestDeselectsStep == ClockInv /\ GuestDeselects => ClockInv'
<1> SUFFICES ASSUME ClockInv, GuestDeselects PROVE ClockInv'
  OBVIOUS
<1>1. /\ guest.todo # <<>> /\ guest.n = 2 * Frame + 1 /\ emu = [at |-> "idle"] /\ ~Fetching
      /\ line' = 0 /\ lastClkVal' = 1 /\ pos' = 0 /\ cmd' = NoBits
      /\ UNCHANGED <<mem, hostVars, flashVars, emu, pram, real, netVars, disturbed>>
      /\ guest'.n = 0
  BY AfterAccess
<1>2. \/ /\ Left # 1 /\ guest'.op = guest.op /\ guest'.value = guest.value
         /\ guest'.todo = Tail(guest.todo)
      \/ /\ Left = 1 /\ guest'.todo = <<>>
         /\ guest'.op \in {"rest", "timeRead", "pramRead"}
  BY AfterAccess
<1>3. /\ guest'.op = "pramRead" =>
             /\ guest.op = "readPram" /\ guest'.bytes = <<guest.todo[1].addr>>
             /\ guest.bytes = <<>> => guest'.value = Sampled(Frame)
      /\ guest' = [op |-> guest'.op, value |-> guest'.value, todo |-> guest'.todo, n |-> guest'.n,
                   got |-> guest'.got, bytes |-> guest'.bytes]
  BY AfterAccess
<1>4. guest.todo \in Seq(Accesses) /\ Left \in Nat /\ Left >= 1
  BY <1>1, NextAccess DEF ClockInv, GuestTypes
<1>5. Left # 1 => /\ Tail(guest.todo) \in Seq(Accesses) /\ Tail(guest.todo) # <<>>
                  /\ Len(Tail(guest.todo)) = Left - 1
                  /\ \A k \in 1 .. Left - 1 : Tail(guest.todo)[k] = guest.todo[k + 1]
  <2> SUFFICES ASSUME Left # 1
               PROVE  /\ Tail(guest.todo) \in Seq(Accesses) /\ Tail(guest.todo) # <<>>
                      /\ Len(Tail(guest.todo)) = Left - 1
                      /\ \A k \in 1 .. Left - 1 : Tail(guest.todo)[k] = guest.todo[k + 1]
    OBVIOUS
  <2>1. PICK s \in Seq(Accesses) : s = guest.todo
    BY <1>4
  <2>2. Left = Len(s) /\ Len(s) > 1
    <3>1. Left > 1
      BY <1>4
    <3>2. Left = Len(s)
      BY <2>1 DEF Left
    <3> QED  BY <3>1, <3>2
  <2> QED  BY <2>1, <2>2, LongTail
<1>6. emu.at = "idle" /\ ~Fetching'
  BY <1>1 DEF Fetching
<1>7. /\ EmuTask' /\ NetTask' /\ FlashTypes' /\ HostTypes' /\ Flashing' /\ PramKept'
  BY <1>1 DEF ClockInv, EmuTask, NetTask, FlashTypes, HostTypes, Flashing, PramKept, hostVars,
              flashVars, netVars
<1>8. ChipTypes'
  BY <1>1, Sizes DEF ChipTypes, NoBits
<1>9. GuestTypes'
  <2>1. 0 \in 0 .. 2 * Frame + 1
    BY Sizes
  <2>2. guest.op \in {"readTime", "setTime", "setPram", "readPram"}
    BY <1>1 DEF ClockInv, GuestTypes
  <2>3. CASE Left # 1
    BY <2>1, <2>2, <2>3, <1>1, <1>2, <1>3, <1>5 DEF GuestTypes
  <2>4. CASE Left = 1
    <3>1. guest'.todo = <<>> /\ guest'.op \in {"rest", "timeRead", "pramRead"}
      BY <2>4, <1>2
    <3>2. <<>> \in Seq(Accesses)
      OBVIOUS
    <3> QED  BY <2>1, <3>1, <3>2, <1>1, <1>3 DEF GuestTypes
  <2> QED  BY <2>3, <2>4
<1>10. ASSUME Left # 1, guest.op = "setTime"
       PROVE  /\ Left' = Left - 1 /\ Done' = Done + 1 /\ SetBase' = SetBase
              /\ \A k \in 1 .. Left' :
                   guest'.todo[k] = [write |-> TRUE, addr |-> SetBase + Done' + k - 1,
                                     byte |-> ByteOf(guest.value, Done' + k - 1)]
  <2>1. PICK n \in Nat, l \in Nat, d \in Nat, b \in Nat :
          n = ClockBytes /\ l = Left /\ d = Done /\ b = SetBase /\ l > 1 /\ l <= n /\ d = n - l
    <3>1. /\ SetBase \in {0, ClockBytes} /\ Left \in 1 .. ClockBytes /\ Done \in 0 .. ClockBytes - 1
      BY <1>10, SetsTime
    <3>2. SetBase \in Nat /\ Done \in Nat /\ Left > 1 /\ Left <= ClockBytes
      BY <3>1, <1>4, <1>10, Sizes
    <3> QED  BY <3>2, <1>4, Sizes DEF Done
  <2>2. Left' = l - 1
    BY <2>1, <1>2, <1>5, <1>10 DEF Left
  <2>3. Done' = d + 1
    BY <2>1, <2>2 DEF Done
  <2>4. ASSUME NEW k \in 1 .. l - 1
        PROVE  guest'.todo[k] = [write |-> TRUE, addr |-> b + (d + 1) + k - 1,
                                 byte |-> ByteOf(guest.value, (d + 1) + k - 1)]
    <3>1. \A j \in 1 .. l : guest.todo[j] = [write |-> TRUE, addr |-> b + d + j - 1,
                                             byte |-> ByteOf(guest.value, d + j - 1)]
      BY <2>1, <1>10 DEF ClockInv, ProgramTypes
    <3>2. k + 1 \in 1 .. l /\ b + d + (k + 1) - 1 = b + (d + 1) + k - 1
          /\ d + (k + 1) - 1 = (d + 1) + k - 1
      BY <2>1
    <3>3. guest'.todo[k] = guest.todo[k + 1]
      BY <2>1, <1>2, <1>5, <1>10
    <3> QED  BY <3>1, <3>2, <3>3
  <2>5. SetBase' = b
    <3>1. 1 \in 1 .. l - 1 /\ (b + (d + 1) + 1 - 1) - (d + 1) = b
      BY <2>1
    <3>2. guest'.todo[1].addr = b + (d + 1) + 1 - 1
      <4>1. guest'.todo[1] = [write |-> TRUE, addr |-> b + (d + 1) + 1 - 1,
                              byte |-> ByteOf(guest.value, (d + 1) + 1 - 1)]
        BY <3>1, <2>4
      <4> QED  BY <4>1
    <3> QED  BY <3>1, <3>2, <2>3 DEF SetBase
  <2> QED  BY <2>1, <2>2, <2>3, <2>4, <2>5
<1>11. ProgramTypes'
  <2>1. CASE Left = 1
    <3>1. guest'.op \in {"rest", "timeRead", "pramRead"}
      BY <2>1, <1>2
    <3> QED  BY <3>1 DEF ProgramTypes
  <2>2. CASE Left # 1
    <3>1. guest'.op = guest.op /\ guest'.value = guest.value /\ guest'.todo = Tail(guest.todo)
      BY <2>2, <1>2
    <3>2. guest.op \notin {"setPram", "readPram"}
      BY <2>2 DEF ClockInv, ProgramTypes
    <3>3. ASSUME guest.op = "readTime" PROVE \A k \in 1 .. Left' : guest'.todo[k].write = FALSE
      <4>1. Left' = Left - 1
        BY <2>2, <3>1, <1>5 DEF Left
      <4>2. \A k \in 1 .. Left : guest.todo[k].write = FALSE
        BY <3>3 DEF ClockInv, ProgramTypes
      <4>3. \A k \in 1 .. Left - 1 : k + 1 \in 1 .. Left
        BY <1>4
      <4> QED  BY <4>1, <4>2, <4>3, <2>2, <3>1, <1>5
    <3>4. ASSUME guest.op = "setTime"
          PROVE  /\ guest'.value \in Times /\ Left' <= ClockBytes /\ SetBase' \in {0, ClockBytes}
                 /\ \A k \in 1 .. Left' :
                      guest'.todo[k] = [write |-> TRUE, addr |-> SetBase' + Done' + k - 1,
                                        byte |-> ByteOf(guest'.value, Done' + k - 1)]
      <4>1. Left - 1 <= ClockBytes /\ guest.value \in Times /\ SetBase \in {0, ClockBytes}
        BY <3>4, <1>4, SetsTime, Sizes
      <4> QED  BY <4>1, <2>2, <3>1, <3>4, <1>10
    <3> QED  BY <3>1, <3>2, <3>3, <3>4 DEF ProgramTypes
  <2> QED  BY <2>1, <2>2
<1>12. Clocked' /\ SentBits' /\ AnswerBits'
  BY <1>1, <1>6 DEF Clocked, SentBits, AnswerBits
<1>13. AnswerHeard'
  <2>1. guest'.op # "readPram"
    <3>1. guest.op = "readPram" => Left = 1
      BY DEF ClockInv, ProgramTypes
    <3> QED  BY <3>1, <1>2
  <2> QED  BY <2>1 DEF AnswerHeard
<1>14. AnswerTaken'
  <2> SUFFICES ASSUME ~Pb7Driven, guest'.op = "pramRead"
               PROVE  guest'.bytes[1] \in PramUsed /\ guest'.value = pram[guest'.bytes[1]]
    BY <1>1 DEF AnswerTaken
  <2>1. guest.op = "readPram" /\ guest'.bytes[1] = guest.todo[1].addr
    BY <1>3
  <2>2. guest.todo[1].addr \in PramUsed /\ guest.bytes = <<>> /\ guest.todo[1].write = FALSE
    BY <2>1 DEF ClockInv, ProgramTypes
  <2>3. guest'.value = 2 * guest.got + line
    <3>1. Frame > CommandBits
      BY Sizes
    <3> QED  BY <3>1, <2>2, <1>3 DEF Sampled
  <2>4. 2 * guest.got + line = Asked
    BY <2>1, <1>1, AnswerComplete
  <2>5. Asked = pram[guest.todo[1].addr]
    BY <2>2 DEF ClockInv, PramKept, Asked
  <2> QED  BY <2>1, <2>2, <2>3, <2>4, <2>5
<1>15. BytesSet'
  <2> SUFFICES ASSUME guest'.op = "setTime", ~disturbed, NEW i \in 0 .. ClockBytes - 1,
                      i < Done' + (IF guest'.n = 2 * Frame + 1 THEN 1 ELSE 0)
               PROVE  mem[SetBase' + i] = ByteOf(guest'.value, i)
    BY <1>1, <1>6 DEF BytesSet
  <2>1. Left # 1 /\ guest.op = "setTime" /\ guest'.value = guest.value
    BY <1>2
  <2>2. Done' = Done + 1 /\ SetBase' = SetBase /\ Done \in Nat
    BY <2>1, <1>10, SetsTime, Sizes
  <2>3. guest'.n # 2 * Frame + 1
    BY <1>1, Sizes
  <2>4. i < Done + 1
    BY <2>2, <2>3
  <2>5. \A j \in 0 .. ClockBytes - 1 : j < Done + 1 => mem[SetBase + j] = ByteOf(guest.value, j)
    BY <2>1, <1>1 DEF ClockInv, BytesSet
  <2> QED  BY <2>1, <2>2, <2>4, <2>5
<1> QED  BY <1>7, <1>8, <1>9, <1>11, <1>12, <1>13, <1>14, <1>15 DEF ClockInv

-----------------------------------------------------------------------------
(* The rest of the edge that fetches, the VIA's timer, restarts.             *)

LEMMA FetchTakenStep == ClockInv /\ FetchTaken => ClockInv'
<1> SUFFICES ASSUME ClockInv, FetchTaken PROVE ClockInv'
  OBVIOUS
<1>1. PICK c : c = WithData(cmd, mem[Address(cmd)])
  OBVIOUS
<1>2. /\ emu.at = "fetch" /\ cmd' = c /\ line' = c[pos] /\ pos' = pos + 1 /\ emu' = [at |-> "idle"]
      /\ UNCHANGED <<lastClkVal, mem, hostVars, flashVars, netVars, guest, pram, real, disturbed>>
  BY <1>1 DEF FetchTaken, Idle
<1>3. Fetching /\ ~Fetching' /\ emu'.at = "idle"
  BY <1>2 DEF Fetching
<1>4. PICK F \in Nat, C \in Nat, D \in Nat :
        /\ F = Frame /\ C = CommandBits /\ D = DataBits /\ C > 0 /\ D > 0 /\ F = C + D
        /\ pos = C /\ guest.n = 2 * C + 3 /\ guest.n > 0
  <2>1. guest.n = 2 * CommandBits + 3 /\ pos = CommandBits
    BY <1>3 DEF ClockInv, Clocked
  <2>2. 2 * CommandBits + 3 > 0
    BY Sizes
  <2> QED  BY <2>1, <2>2, Sizes
<1>5. guest.todo # <<>>
  BY <1>4 DEF ClockInv, GuestTypes
<1>6. PICK access \in Accesses : access = guest.todo[1] /\ access.write = FALSE
  <2>1. guest.todo[1].write = FALSE
    BY <1>3 DEF ClockInv, Clocked
  <2> QED  BY <2>1, <1>5, NextAccess
<1>7. cmd \in [Bits -> {0, 1}] /\ lastClkVal = 1
  BY <1>3, <1>4 DEF ClockInv, ChipTypes, Clocked
<1>8. ASSUME NEW i \in Bits, i < C PROVE cmd[i] = Sent(access, i) /\ c[i] = cmd[i]
  <2>1. cmd[i] = IF i < C THEN Sent(access, i) ELSE 0
    BY <1>4, <1>6, <1>8 DEF ClockInv, SentBits
  <2> QED  BY <2>1, <1>1, <1>4, <1>8 DEF WithData
<1>9. Address(cmd) = access.addr
  <2>1. \A i \in 1 .. AddressBits : i \in Bits /\ i < C
    BY <1>4, Sizes
  <2> QED  BY <2>1, <1>8, AddressDecoded
<1>10. PICK byte \in 0 .. Base - 1 : byte = mem[access.addr] /\ byte \in Nat
  <2>1. access.addr \in Registers
    BY DEF Accesses
  <2> QED  BY <2>1, Sizes DEF ClockInv, FlashTypes, Memories
<1>11. c = [i \in Bits |-> IF i < C THEN cmd[i]
                           ELSE IF cmd[i] = 1 THEN 1 ELSE (byte \div Pow2[Frame - 1 - i]) % 2]
  BY <1>1, <1>4, <1>9, <1>10 DEF WithData
<1>12. ASSUME NEW i \in Bits PROVE c[i] \in {0, 1}
  <2>1. Frame - 1 - i \in Nat
    BY Sizes
  <2>2. PICK q \in Nat : q = byte \div Pow2[Frame - 1 - i]
    BY <2>1, <1>10, ShiftedOnce DEF Shifted, Quotient
  <2>3. q % 2 \in {0, 1}
    OBVIOUS
  <2> QED  BY <2>2, <2>3, <1>7, <1>11
<1>13. ChipTypes'
  <2>1. pos' \in 0 .. Frame /\ pos \in Bits
    BY <1>2, <1>4, Sizes
  <2>2. c \in [Bits -> {0, 1}]
    BY <1>11, <1>12
  <2> QED  BY <2>1, <2>2, <1>2, <1>7, <1>12 DEF ChipTypes
<1>14. /\ EmuTask' /\ NetTask' /\ FlashTypes' /\ HostTypes' /\ GuestTypes'
  BY <1>2 DEF ClockInv, EmuTask, NetTask, IsTask, FlashTypes, HostTypes, GuestTypes, hostVars,
              flashVars, netVars
<1>15. Flashing' /\ PramKept'
  BY <1>2, <1>3 DEF ClockInv, Flashing, PramKept, flashVars, netVars
<1>16. ProgramTypes'
  BY <1>2 DEF ClockInv, ProgramTypes, SetBase, Done, Left
<1>17. Clocked'
  <2>1. guest.n = 2 * (C + 1) + 1 /\ guest.n # 0 /\ C + 1 > 0
    BY <1>4
  <2> QED  BY <2>1, <1>2, <1>3, <1>4, <1>7 DEF Clocked
<1>18. SentBits'
  <2> SUFFICES ASSUME NEW i \in Bits, i < C
               PROVE  c[i] = IF i < C + 1 THEN Sent(access, i) ELSE 0
    BY <1>2, <1>4, <1>6 DEF SentBits
  <2>1. i < C + 1
    BY <1>4, Sizes
  <2> QED  BY <2>1, <1>8
<1>19. Asked' = Asked /\ byte = Asked
  BY <1>2, <1>6, <1>10 DEF Asked
<1>20. AnswerBits'
  <2> SUFFICES ASSUME guest.op = "readPram", NEW i \in C .. F - 1
               PROVE  c[i] = IF C + 1 <= C THEN 0 ELSE Shifted(Asked, (F - 1) - i) % 2
    BY <1>2, <1>4, <1>19 DEF AnswerBits
  <2>1. i \in Bits /\ ~ (i < C) /\ Frame - 1 - i = (F - 1) - i /\ ~ (C + 1 <= C)
    BY <1>4 DEF Bits
  <2>2. cmd[i] = 0
    BY <1>4 DEF ClockInv, AnswerBits
  <2> QED  BY <2>1, <2>2, <1>11, <1>19 DEF Shifted, Quotient
<1>21. AnswerHeard'
  <2> SUFFICES ASSUME ~Pb7Driven, guest.op = "readPram"
               PROVE  /\ guest.n <= 2 * C + 2 => guest.got = 0
                      /\ guest.n >= 2 * C + 2 => guest.got = Shifted(Asked, (F + 1) - guest.n \div 2)
                      /\ line' = cmd'[(C + 1) - 1]
    BY <1>2, <1>4, <1>19 DEF AnswerHeard
  <2>1. (C + 1) - 1 = C
    BY <1>4
  <2> QED  BY <2>1, <1>2, <1>4 DEF ClockInv, AnswerHeard
<1>22. AnswerTaken' /\ BytesSet'
  <2>1. guest.op # "setTime"
    BY <1>5, <1>6, NextAccess
  <2> QED  BY <2>1, <1>2 DEF ClockInv, AnswerTaken, BytesSet
<1> QED  BY <1>13, <1>14, <1>15, <1>16, <1>17, <1>18, <1>20, <1>21, <1>22 DEF ClockInv

LEMMA TimerStep == ClockInv /\ TimerMovesPb7 => ClockInv'
<1> SUFFICES ASSUME ClockInv, TimerMovesPb7 PROVE ClockInv'
  OBVIOUS
<1>1. /\ Pb7Driven /\ guest.n > 0 /\ emu = [at |-> "idle"]
      /\ line' = 0 /\ lastClkVal' = lastClkVal /\ pos' = pos /\ cmd' = cmd
      /\ UNCHANGED <<mem, hostVars, flashVars, emu, pram, real, netVars, guest, disturbed>>
  BY DEF TimerMovesPb7, RtcCom, NoEdge, Idle
<1>2. Fetching' <=> Fetching
  BY <1>1 DEF Fetching
<1>3. EmuTask' /\ NetTask' /\ FlashTypes' /\ HostTypes' /\ Flashing' /\ PramKept' /\ ChipTypes' /\ GuestTypes'
  BY <1>1 DEF ClockInv, EmuTask, NetTask, FlashTypes, HostTypes, Flashing, PramKept, ChipTypes,
              GuestTypes, hostVars, flashVars, netVars
<1>4. ProgramTypes' /\ BytesSet'
  BY <1>1 DEF ClockInv, ProgramTypes, BytesSet, SetBase, Done, Left
<1>5. Clocked'
  BY <1>1, <1>2 DEF ClockInv, Clocked
<1>6. SentBits' /\ AnswerBits'
  BY <1>1 DEF ClockInv, SentBits, AnswerBits, Asked
<1>7. AnswerHeard' /\ AnswerTaken'
  BY <1>1 DEF AnswerHeard, AnswerTaken
<1> QED  BY <1>3, <1>4, <1>5, <1>6, <1>7 DEF ClockInv

\* The machine as it starts, whatever bytes it starts with.
LEMMA FreshChip ==
    ASSUME pos = 0, cmd = NoBits, lastClkVal = 0, line = 0, zone = 0, host \in Nat,
           flash = <<>>, unsaved = FALSE, emu = [at |-> "idle"], net = [at |-> "idle"],
           guest = [op |-> "rest", value |-> 0, todo |-> <<>>, n |-> 0, got |-> 0, bytes |-> <<>>],
           real = {}, disturbed = FALSE, macTime \in Times, mem \in Memories, nvs = mem,
           pram = [a \in PramUsed |-> nvs[a]]
    PROVE  ClockInv
<1>1. guest.op = "rest" /\ guest.todo = <<>> /\ guest.n = 0 /\ emu.at = "idle" /\ net.at = "idle"
  OBVIOUS
<1>2. ~Fetching
  BY <1>1 DEF Fetching
<1>3. EmuTask /\ NetTask
  BY DEF EmuTask, NetTask, IsTask
<1>4. FlashTypes /\ HostTypes /\ Flashing
  BY <1>1 DEF FlashTypes, HostTypes, Flashing
<1>5. ChipTypes /\ GuestTypes
  BY <1>1, Sizes DEF ChipTypes, GuestTypes, NoBits
<1>6. ProgramTypes /\ Clocked /\ SentBits /\ AnswerBits /\ AnswerHeard /\ AnswerTaken /\ BytesSet
  BY <1>1, <1>2 DEF ProgramTypes, Clocked, SentBits, AnswerBits, AnswerHeard, AnswerTaken, BytesSet
<1>7. PramKept
  <2>1. \A a \in PramUsed : pram[a] = nvs[a] /\ nvs[a] \in 0 .. Base - 1
    BY Sizes DEF Memories
  <2> QED  BY <2>1 DEF PramKept
<1> QED  BY <1>3, <1>4, <1>5, <1>6, <1>7 DEF ClockInv

LEMMA ClockInit == RtcInit => ClockInv
<1> SUFFICES ASSUME RtcInit PROVE ClockInv
  OBVIOUS
<1>1. mem \in Memories /\ nvs = mem /\ 0 \in Times
  <2>1. 0 \in 0 .. Base - 1
    BY Sizes
  <2> QED  BY <2>1, Sizes DEF RtcInit, Memories
<1>2. pram = [a \in PramUsed |-> nvs[a]]
  <2>1. \A a \in PramUsed : nvs[a] = 0
    BY Sizes DEF RtcInit
  <2> QED  BY <2>1 DEF RtcInit
<1>3. host \in Nat
  BY RtcConstants DEF RtcInit
<1> QED  BY <1>1, <1>2, <1>3, FreshChip DEF RtcInit, Idle, AtRest

LEMMA RebootStep == ClockInv /\ Reboot => ClockInv'
<1> SUFFICES ASSUME ClockInv, Reboot PROVE ClockInv'
  OBVIOUS
<1>1. nvs \in Memories /\ host \in Nat /\ macTime \in Times
  BY DEF ClockInv, FlashTypes, HostTypes
<1>2. /\ pos' = 0 /\ cmd' = NoBits /\ lastClkVal' = 0 /\ line' = 0 /\ zone' = 0 /\ host' \in Nat
      /\ flash' = <<>> /\ unsaved' = FALSE /\ emu' = [at |-> "idle"] /\ net' = [at |-> "idle"]
      /\ guest' = [op |-> "rest", value |-> 0, todo |-> <<>>, n |-> 0, got |-> 0, bytes |-> <<>>]
      /\ real' = {} /\ disturbed' = FALSE /\ macTime' \in Times /\ mem' \in Memories /\ nvs' = mem'
      /\ pram' = [a \in PramUsed |-> nvs'[a]]
  BY <1>1 DEF Reboot, Idle, AtRest
<1>3. guest'.op = "rest" /\ guest'.todo = <<>> /\ guest'.n = 0 /\ emu'.at = "idle" /\ net'.at = "idle"
  BY <1>2
<1>4. ~Fetching'
  BY <1>3 DEF Fetching
<1>5. EmuTask' /\ NetTask'
  BY <1>2 DEF EmuTask, NetTask, IsTask
<1>6. FlashTypes' /\ HostTypes' /\ Flashing'
  BY <1>2, <1>3 DEF FlashTypes, HostTypes, Flashing
<1>7. ChipTypes' /\ GuestTypes'
  BY <1>2, <1>3, Sizes DEF ChipTypes, GuestTypes, NoBits
<1>8. ProgramTypes' /\ Clocked' /\ SentBits' /\ AnswerBits' /\ AnswerHeard' /\ AnswerTaken' /\ BytesSet'
  BY <1>2, <1>3, <1>4 DEF ProgramTypes, Clocked, SentBits, AnswerBits, AnswerHeard, AnswerTaken, BytesSet
<1>9. PramKept'
  <2>1. \A a \in PramUsed : pram'[a] = nvs'[a] /\ nvs'[a] \in 0 .. Base - 1
    BY <1>2, Sizes DEF Memories
  <2> QED  BY <2>1, <1>2, <1>3 DEF PramKept
<1> QED  BY <1>5, <1>6, <1>7, <1>8, <1>9 DEF ClockInv

LEMMA ClockStutters == ClockInv /\ UNCHANGED rtcVars => ClockInv'
<1> SUFFICES ASSUME ClockInv, UNCHANGED rtcVars PROVE ClockInv'
  OBVIOUS
<1>1. /\ UNCHANGED <<pos, cmd, lastClkVal, line, mem, zone, host, nvs, flash, unsaved, emu, net,
                     macTime, syncs, guest, pram, real, disturbed>>
  BY DEF rtcVars, chipVars, hostVars, flashVars, netVars
<1>2. Fetching' <=> Fetching
  BY <1>1 DEF Fetching
<1>3. /\ ChipTypes' /\ GuestTypes' /\ ProgramTypes' /\ Clocked' /\ SentBits'
      /\ AnswerBits' /\ AnswerHeard' /\ AnswerTaken'
  BY <1>1, <1>2, ChipStays
<1>4. EmuTask' /\ NetTask' /\ FlashTypes' /\ HostTypes' /\ Flashing' /\ PramKept'
  BY <1>1 DEF ClockInv, EmuTask, NetTask, FlashTypes, HostTypes, Flashing, PramKept
<1>5. BytesSet'
  BY <1>1 DEF ClockInv, BytesSet, SetBase, Done, Left
<1> QED  BY <1>3, <1>4, <1>5 DEF ClockInv

LEMMA ClockStep == ClockInv /\ [RtcNext]_rtcVars => ClockInv'
<1> SUFFICES ASSUME ClockInv, [RtcNext]_rtcVars PROVE ClockInv'
  OBVIOUS
<1>1. CASE ReadTime \/ SetTime \/ SetPram \/ ReadPram
  BY <1>1, ReadTimeStep, SetTimeStep, SetPramStep, ReadPramStep
<1>2. CASE GuestClocks \/ GuestDeselects
  BY <1>2, GuestClocksStep, GuestDeselectsStep
<1>3. CASE Emulator
  BY <1>3, TickStep, EmuStoresStep, EmuSavesStep, FetchTakenStep DEF Emulator
<1>4. CASE SyncBegins \/ SyncTask
  BY <1>4, SyncBeginsStep, SyncSetsZoneStep, SyncSetsTimeStep, NetStoresStep, NetSavesStep DEF SyncTask
<1>5. CASE HostTicks \/ Reboot \/ TimerMovesPb7
  BY <1>5, HostTicksStep, RebootStep, TimerStep
<1>6. CASE UNCHANGED rtcVars
  BY <1>6, ClockStutters
<1> QED  BY <1>1, <1>2, <1>3, <1>4, <1>5, <1>6 DEF RtcNext, Surroundings

-----------------------------------------------------------------------------
(* The theorems.                                                             *)

LEMMA ClockAlways == RtcSpec => []ClockInv
<1>1. RtcInit => ClockInv
  BY ClockInit
<1>2. ClockInv /\ [RtcNext]_rtcVars => ClockInv'
  BY ClockStep
<1> QED  BY <1>1, <1>2, PTL DEF RtcSpec

(* Every variable of the clock chip (tme/rtc.c), its flash copy and the time *)
(* task keeps its type: positions stay within a frame, the values within a   *)
(* byte, the tasks in the places the code has.                               *)
THEOREM RtcTypeCorrect == RtcSpec => []RtcTypeOK
<1>1. ClockInv => RtcTypeOK
  <2> SUFFICES ASSUME ClockInv PROVE RtcTypeOK
    OBVIOUS
  <2>1. emu.at \in TaskStates
    BY DEF ClockInv, EmuTask, IsTask, TaskStates
  <2>2. net.at \in TaskStates
    BY DEF ClockInv, NetTask, IsTask, TaskStates
  <2> QED  BY <2>1, <2>2 DEF ClockInv, RtcTypeOK, ChipTypes, FlashTypes, HostTypes, Memories
<1> QED  BY <1>1, ClockAlways, PTL

(* Parameter memory survives a restart (saveRtcMem of main.cpp): whatever    *)
(* the time task saves, writes and reads in between, flash holds what the    *)
(* guest last wrote outside of the guest's own save and its failure.         *)
THEOREM RtcPramIsSaved == RtcSpec => []PramIsSaved
<1>1. ClockInv => PramIsSaved
  BY DEF ClockInv, PramKept, PramIsSaved
<1> QED  BY <1>1, ClockAlways, PTL

(* Parameter memory reads back (rtcCom): the address and the byte the chip   *)
(* puts together bit by bit are those the guest sent, and the bits it        *)
(* answers with are those of the byte last written, across restarts, as long *)
(* as the VIA's timer does not move PB7 (see RtcFaults.cfg).                 *)
THEOREM RtcPramReadsBack ==
    ASSUME ~Pb7Driven
    PROVE  RtcSpec => []PramReadsBack
<1>1. ClockInv => PramReadsBack
  BY DEF ClockInv, AnswerTaken, PramReadsBack
<1> QED  BY <1>1, ClockAlways, PTL

-----------------------------------------------------------------------------

\* Only the write of a byte begins a save.
LEMMA CommitIsAWrite ==
    ASSUME ClockInv, [RtcNext]_rtcVars, Commit
    PROVE  /\ GuestClocks /\ ~ (guest.n = 0 \/ guest.n % 2 = 1)
           /\ CompletesWrite(Sent(guest.todo[1], pos))
<1>1. emu.at = "idle" /\ emu'.at = "save"
  BY DEF Commit, Idle
<1>2. emu' # emu
  BY <1>1
<1>3. GuestClocks
  <2>1. ~ (ReadTime \/ SetTime \/ SetPram \/ ReadPram)
    BY <1>2 DEF ReadTime, SetTime, SetPram, ReadPram, Begins
  <2>2. ~GuestDeselects
    BY <1>2, AfterAccess
  <2>3. ~rtcTick
    BY <1>1 DEF rtcTick, Writing
  <2>4. ~ (EmuStores \/ EmuSaves \/ FetchTaken)
    BY <1>1 DEF EmuStores, StoreByte, EmuSaves, SaveBegins, SaveFails, SaveEnds, FetchTaken
  <2>5. ~ (SyncBegins \/ SyncTask \/ HostTicks)
    BY <1>2 DEF SyncBegins, SyncTask, SyncSetsZone, SyncSetsTime, NetStores, NetSaves, HostTicks
  <2>6. ~Reboot
    BY <1>1 DEF Reboot, Idle
  <2>7. ~TimerMovesPb7
    BY <1>2 DEF TimerMovesPb7, RtcCom, NoEdge
  <2>8. ~UNCHANGED rtcVars
    BY <1>2 DEF rtcVars
  <2> QED  BY <2>1, <2>2, <2>3, <2>4, <2>5, <2>6, <2>7, <2>8 DEF RtcNext, Surroundings, Emulator
<1>4. ~ (guest.n = 0 \/ guest.n % 2 = 1)
  <2> SUFFICES ASSUME guest.n = 0 \/ guest.n % 2 = 1 PROVE FALSE
    OBVIOUS
  <2>1. \E dat : RtcCom(0, dat, 0)
    <3>1. guest.n # 0 => (guest.n + 1) % 2 = 0
      BY <1>3, GuestMoves
    <3> QED  BY <3>1, <1>3, GuestMoves
  <2> QED  BY <2>1, <1>2 DEF RtcCom, NoEdge
<1>5. PICK access : access = guest.todo[1]
  OBVIOUS
<1>6. ~MovesBit(Sent(access, pos))
  BY <1>2 DEF MovesBit
<1>7. ~FetchesByte(Sent(access, pos))
  BY <1>1 DEF FetchesByte, Writing
<1> QED  BY <1>3, <1>4, <1>5, <1>6, <1>7, HighCases

\* The last byte of a time, with the others in place.
LEMMA LastByte ==
    ASSUME ClockInv, [RtcNext]_rtcVars, Commit, ~disturbed
    PROVE  /\ guest.value \in Times
           /\ \A base \in {0, ClockBytes} : TimeIn(mem', base) = guest.value
           /\ host' = HostFromMac(guest.value)
<1>1. /\ GuestClocks /\ ~ (guest.n = 0 \/ guest.n % 2 = 1)
      /\ CompletesWrite(Sent(guest.todo[1], pos))
  BY CommitIsAWrite
<1>2. PICK access : access = guest.todo[1]
  OBVIOUS
<1>3. guest.op = "setTime" /\ Left = 1
  BY DEF Commit, Left
<1>4. /\ guest'.n = 2 * Frame + 1
      /\ mem' = Written(access.addr, access.byte)
      /\ host' = IF Commits(access.addr)
                 THEN HostFromMac(TimeIn(mem', (access.addr \div ClockBytes) * ClockBytes))
                 ELSE host
  BY <1>1, <1>2, WriteFacts
<1>5. /\ guest'.op = guest.op /\ guest'.value = guest.value /\ guest'.todo = guest.todo
      /\ disturbed' = disturbed
  BY <1>1, <1>2, HighGuest
<1>6. PICK n \in Nat, base \in {0, ClockBytes} :
        /\ n = ClockBytes /\ n > 0 /\ base = SetBase /\ Done = n - 1
        /\ access.addr = base + (n - 1) /\ access.byte = ByteOf(guest.value, n - 1)
  <2>1. Done = ClockBytes - 1
    BY <1>3 DEF Done
  <2> QED  BY <2>1, <1>2, <1>3, SetsTime, Sizes
<1>7. guest.value \in Times
  BY <1>3, SetsTime
<1>8. ASSUME NEW i \in 0 .. n - 1 PROVE mem'[base + i] = ByteOf(guest.value, i)
  <2>1. BytesSet'
    BY ClockStep DEF ClockInv
  <2>2. SetBase' = SetBase /\ Done' = Done
    BY <1>5 DEF SetBase, Done, Left
  <2>3. i < Done' + (IF guest'.n = 2 * Frame + 1 THEN 1 ELSE 0)
    BY <1>4, <1>6, <2>2
  <2> QED  BY <2>1, <2>2, <2>3, <1>3, <1>5, <1>6 DEF BytesSet
<1>9. \A i \in 0 .. n - 1 : mem'[0 + i] = mem'[base + i] /\ mem'[n + i] = mem'[base + i]
  <2>1. access.byte \in 0 .. Base - 1 /\ mem \in Memories /\ n - 1 \in 0 .. ClockBytes - 1
    BY <1>6, <1>7, BytesInRange DEF ClockInv, FlashTypes
  <2> QED  BY <2>1, <1>4, <1>6, WrittenHalves
<1>10. TimeIn(mem', 0) = guest.value /\ TimeIn(mem', n) = guest.value
  <2>1. \A i \in 0 .. ClockBytes - 1 : mem'[0 + i] = ByteOf(guest.value, i)
                                    /\ mem'[n + i] = ByteOf(guest.value, i)
    BY <1>6, <1>8, <1>9
  <2> QED  BY <2>1, <1>6, <1>7, TimeOfBytes
<1>11. Commits(access.addr) /\ (access.addr \div ClockBytes) * ClockBytes = base
  <2>1. (0 + (n - 1)) \div n = 0 /\ (n + (n - 1)) \div n = 1 /\ n + (n - 1) = 2 * n - 1 /\ 0 + (n - 1) = n - 1
    BY <1>6
  <2>2. CASE base = 0
    BY <2>1, <2>2, <1>6 DEF Commits
  <2>3. CASE base = n
    BY <2>1, <2>3, <1>6 DEF Commits
  <2> QED  BY <2>2, <2>3, <1>6
<1>12. TimeIn(mem', base) = guest.value
  BY <1>6, <1>10
<1> QED  BY <1>4, <1>6, <1>7, <1>10, <1>11, <1>12

(* A time the guest sets is set (rtcCom): with its last byte, in whichever   *)
(* half, both halves and the host's clock hold it, for every number of bytes *)
(* and every time, unless a tick or a sync came between its bytes.           *)
THEOREM RtcSetTimeCommits == RtcSpec => SetTimeCommits
<1>1. ASSUME ClockInv, [RtcNext]_rtcVars
      PROVE  Commit => \/ disturbed
                       \/ /\ TimeIn(mem', 0) = guest.value
                          /\ TimeIn(mem', ClockBytes) = guest.value
                          /\ guest.value - Epoch - zone >= MinHost => MacTime(host', zone) = guest.value
  <2> SUFFICES ASSUME Commit, ~disturbed
               PROVE  /\ TimeIn(mem', 0) = guest.value
                      /\ TimeIn(mem', ClockBytes) = guest.value
                      /\ guest.value - Epoch - zone >= MinHost => MacTime(host', zone) = guest.value
    OBVIOUS
  <2>1. /\ guest.value \in Times /\ host' = HostFromMac(guest.value)
        /\ TimeIn(mem', 0) = guest.value /\ TimeIn(mem', ClockBytes) = guest.value
    BY <1>1, LastByte
  <2>2. PICK t \in Nat, e \in Int, z \in Int, m \in Int, w \in Nat \ {0} :
          /\ t = guest.value /\ e = Epoch /\ z = zone /\ m = MinHost /\ w = Weight(ClockBytes) /\ t < w
    <3>1. PICK w \in Nat \ {0} : w = Weight(ClockBytes)
      BY Sizes, Weights
    <3>2. guest.value \in Nat /\ guest.value < w
      BY <2>1, <3>1 DEF Times
    <3>3. Epoch \in Int /\ zone \in Int /\ MinHost \in Int
      BY <1>1, HostFacts, RtcConstants DEF ClockInv
    <3> QED  BY <3>1, <3>2, <3>3
  <2>3. ASSUME t - e - z >= m PROVE MacTime(host', zone) = guest.value
    <3>1. host' = t - e - z
      BY <2>1, <2>2, <2>3 DEF HostFromMac
    <3>2. MacTime(host', zone) = ((t - e - z) + e + z) % w
      BY <3>1, <2>2 DEF MacTime
    <3>3. (t - e - z) + e + z = t /\ t % w = t
      BY <2>2
    <3> QED  BY <3>2, <3>3, <2>2
  <2> QED  BY <2>1, <2>2, <2>3
<1> QED  BY <1>1, ClockAlways, PTL DEF RtcSpec, SetTimeCommits
=============================================================================
