------------------------------- MODULE M68kBits -----------------------------
(***************************************************************************)
(* The bit patterns of the 68000 core: logic, bit tests, shifts, rotates   *)
(* and packed decimal, as the handlers of src/src/tme/musashi/m68kop*.c    *)
(* compute them.  A pattern of n bits is a number below 2 ^ n; Bits gives  *)
(* the positions that are set.                                             *)
(*                                                                         *)
(* A result is a record: r, and the flags x, n, z, v and c after it.       *)
(***************************************************************************)
EXTENDS M68kArith, FiniteSetsExt

Bits(x, n) == {i \in 0 .. n - 1 : (x \div 2 ^ i) % 2 = 1}
Number(S) == MapThenSumSet(LAMBDA i : 2 ^ i, S)
HasBit(x, i) == (x \div 2 ^ i) % 2 = 1

And(x, y, n) == Number(Bits(x, n) \cap Bits(y, n))
Or(x, y, n) == Number(Bits(x, n) \cup Bits(y, n))
Eor(x, y, n) == x + y - 2 * And(x, y, n)
Not(x, n) == 2 ^ n - 1 - x

\* N and Z of a result; V and C are cleared, X is kept.
Logical(r, x, n) ==
    [r |-> r, x |-> x, n |-> Msb(r, 2 ^ n), z |-> r = 0, v |-> FALSE, c |-> FALSE]

-----------------------------------------------------------------------------
(* Shifts of the n-bit d by k, with X as the flag was before.  No shift    *)
(* clears C and keeps X (the rotates through X copy it to C).              *)

Asr(d, k, n, x) ==
    LET r == IF k >= n THEN IF HasBit(d, n - 1) THEN 2 ^ n - 1 ELSE 0
             ELSE d \div 2 ^ k + IF HasBit(d, n - 1) THEN 2 ^ n - 2 ^ (n - k) ELSE 0
        out == HasBit(d, IF k >= n THEN n - 1 ELSE k - 1)
    IN  IF k = 0 THEN Logical(d, x, n) ELSE [Logical(r, out, n) EXCEPT !.c = out]

Lsr(d, k, n, x) ==
    LET out == k <= n /\ HasBit(d, k - 1)
    IN  IF k = 0 THEN Logical(d, x, n)
        ELSE [Logical(IF k >= n THEN 0 ELSE d \div 2 ^ k, out, n) EXCEPT !.c = out]

Lsl(d, k, n, x) ==
    LET out == k <= n /\ HasBit(d, n - k)
    IN  IF k = 0 THEN Logical(d, x, n)
        ELSE [Logical(IF k >= n THEN 0 ELSE (d % 2 ^ (n - k)) * 2 ^ k, out, n) EXCEPT !.c = out]

\* ASL is LSL, and V says that the sign changed on the way: the k + 1 top
\* bits (m68ki_shift_n_table) were not all alike.
Asl(d, k, n, x) ==
    LET top == d \div 2 ^ (n - 1 - k)
    IN  [Lsl(d, k, n, x) EXCEPT
           !.v = IF k >= n THEN d # 0 ELSE k # 0 /\ top \notin {0, 2 ^ (k + 1) - 1}]

\* ROL_n, ROR_n: C is the last bit that went round.
Rol(d, k, n, x) ==
    LET j == k % n
        r == (d % 2 ^ (n - j)) * 2 ^ j + d \div 2 ^ (n - j)
    IN  [Logical(r, x, n) EXCEPT !.c = k # 0 /\ HasBit(r, 0)]

Ror(d, k, n, x) ==
    LET r == Rol(d, n - (k % n), n, x).r
    IN  [Logical(r, x, n) EXCEPT !.c = k # 0 /\ HasBit(r, n - 1)]

\* ROL_9, ROL_17, ROL_33 and the ROR_s: X is a bit above the operand.
Roxl(d, k, n, x) ==
    LET r == Rol(d + 2 ^ n * Bit(x), k, n + 1, x).r
        out == HasBit(r, n)
    IN  [Logical(r % 2 ^ n, out, n) EXCEPT !.c = out]

Roxr(d, k, n, x) == Roxl(d, n + 1 - (k % (n + 1)), n, x)

-----------------------------------------------------------------------------
(* Packed decimal: two digits in a byte.  base is 16 and ten 10 in the     *)
(* code.  N and V come out as the code leaves them; Z is only ever cleared.*)

Decimal(r, out, z, low, base) ==
    [r |-> r % (base * base), x |-> out, c |-> out, n |-> Msb(r % (base * base), base * base),
     z |-> z /\ r % (base * base) = 0, v |-> low /\ Msb(r % (base * base), base * base)]

Nines(base, ten) == (ten - 1) * base + ten - 1       \* 0x99

Abcd(s, d, x, z, base, ten) ==
    LET low == (s % base) + (d % base) + Bit(x)
        sum == (IF low >= ten THEN low + base - ten ELSE low) + (s - (s % base)) + (d - (d % base))
        out == sum > Nines(base, ten)
    IN  Decimal(IF out THEN sum - ten * base ELSE sum, out, z, TRUE, base)

Sbcd(s, d, x, z, base, ten) ==
    LET low == (d % base) - (s % base) - Bit(x)
        borrowed == low < 0 \/ low >= ten
        dif == (IF borrowed THEN low - (base - ten) ELSE low) + (d - (d % base)) - (s - (s % base))
        out == dif < 0 \/ dif > Nines(base, ten)
    IN  Decimal(IF out THEN dif + ten * base ELSE dif, out, z, low >= 0, base)

\* The ten's complement; zero stays as it is.
NothingToNegate(d, x, base) == (d + Bit(x)) % (base * base) = 0

Nbcd(d, x, z, base, ten) ==
    LET all == Nines(base, ten) + 1             \* 0x9a
        dif == (all - d - Bit(x)) % (base * base)
        r == IF dif % base = ten THEN dif - ten + base ELSE dif
    IN  IF NothingToNegate(d, x, base)
        THEN [r |-> d, x |-> FALSE, c |-> FALSE, n |-> Msb(all, base * base), z |-> z, v |-> FALSE]
        ELSE Decimal(r, TRUE, z, ~Msb(dif, base * base), base)
=============================================================================
