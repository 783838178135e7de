------------------------------ MODULE M68kArith -----------------------------
(***************************************************************************)
(* The arithmetic of the 68000 core (src/src/tme/musashi/m68kcpu.h): what  *)
(* an addition, a subtraction and a comparison leave in the condition      *)
(* codes, and what the fourteen conditions then mean.                      *)
(*                                                                         *)
(* A number of n bits is a member of 0 .. m - 1 with m = 2 ^ n.  The       *)
(* code keeps a flag as one bit of a wider integer and computes carry and  *)
(* overflow by formulas over the sign bits; so do the operators here.      *)
(* RtcM68kProofs shows what those formulas stand for, for every width.     *)
(***************************************************************************)
EXTENDS Integers

Width(m) == 0 .. m - 1
Bit(p) == IF p THEN 1 ELSE 0

\* GET_MSB_n, and MAKE_INT_n: the number as a signed one.
Msb(x, m) == 2 * x >= m
Signed(x, m) == IF Msb(x, m) THEN x - m ELSE x

-----------------------------------------------------------------------------
(* Sums and differences, with the carry k that ADDX and SUBX bring in.     *)

Sum(s, d, k, m) == (s + d + k) % m
Difference(s, d, k, m) == (d - s - k) % m

\* CFLAG_8 and CFLAG_16: the bit above the result.
CarryOut(s, d, k, m) == s + d + k >= m
BorrowOut(s, d, k) == d - s - k < 0

\* CFLAG_ADD_32, CFLAG_SUB_32: there is no bit above a 32-bit result.
CFLAG_ADD_32(s, d, r, m) ==
    (Msb(s, m) /\ Msb(d, m)) \/ (~Msb(r, m) /\ (Msb(s, m) \/ Msb(d, m)))
CFLAG_SUB_32(s, d, r, m) ==
    (Msb(s, m) /\ Msb(r, m)) \/ (~Msb(d, m) /\ (Msb(s, m) \/ Msb(r, m)))

\* VFLAG_ADD_n, VFLAG_SUB_n: (S ^ R) & (D ^ R) and (S ^ D) & (R ^ D).
VFLAG_ADD(s, d, r, m) == Msb(s, m) # Msb(r, m) /\ Msb(d, m) # Msb(r, m)
VFLAG_SUB(s, d, r, m) == Msb(s, m) # Msb(d, m) /\ Msb(r, m) # Msb(d, m)

-----------------------------------------------------------------------------
(* COND_CS ... COND_LE: f has the flags n, z, v and c.                     *)

Condition == {"HI", "LS", "CC", "CS", "NE", "EQ", "VC", "VS",
              "PL", "MI", "GE", "LT", "GT", "LE"}

Holds(f) ==
    [CS |-> f.c,            CC |-> ~f.c,
     VS |-> f.v,            VC |-> ~f.v,
     EQ |-> f.z,            NE |-> ~f.z,
     MI |-> f.n,            PL |-> ~f.n,
     LT |-> f.n # f.v,      GE |-> f.n = f.v,
     HI |-> ~f.c /\ ~f.z,   LS |-> f.c \/ f.z,
     GT |-> f.n = f.v /\ ~f.z, LE |-> f.n # f.v \/ f.z]

\* What CMP leaves: the flags of d - s.
CmpFlags(s, d, m) ==
    LET r == Difference(s, d, 0, m)
    IN  [n |-> Msb(r, m), z |-> r = 0, v |-> VFLAG_SUB(s, d, r, m),
         c |-> CFLAG_SUB_32(s, d, r, m)]
=============================================================================
