------------------------------ MODULE M68kAlu -------------------------------
(***************************************************************************)
(* The 68000's arithmetic, logic, bit and shift instructions, and the      *)
(* forms all instructions take: the handlers of                            *)
(* src/src/tme/musashi/m68kopac.c, m68kopdm.c and m68kopnz.c, one action   *)
(* for the handlers that differ only in the addressing mode of an operand. *)
(*                                                                         *)
(* A handler is named as in the code: er is memory to register, re is      *)
(* register to memory, s a shift by a count in the instruction, r by one   *)
(* in a register.  An instruction is a record: op, the handler; ea, the    *)
(* operand of its low bits; x, the other register (DX, AX); k, immediate   *)
(* data or a displacement; to, the destination of a MOVE; w, the width     *)
(* where one action has several; cc, a condition; list, the registers of a *)
(* MOVEM.  The handlers that only the 68020 has are not modelled.          *)
(***************************************************************************)
EXTENDS M68kCpu

CONSTANTS
    Base, Ten,      \* 16 and 10: a byte holds two decimal digits
    Machines        \* what may run: guests and the machines they start with

ASSUME M68kInstructionConstants ==
    Base \in Nat \ {0} /\ Ten \in 1 .. Base

VARIABLES
    cpu,            \* the machine
    guest,          \* its code, address -> instruction, and a bound on its interrupts
    raised          \* interrupts devices have raised

m68kVars == <<cpu, guest, raised>>

M68kInit == \E start \in Machines : cpu = start.cpu /\ guest = start.guest /\ raised = 0

\* The instruction at REG_PC, and the machine when its handler is called.
I == guest.code[cpu.pc]
T == [cpu EXCEPT !.ppc = cpu.pc, !.pc = @ + 1]

\* m68k_execute: nothing runs while the processor is stopped.
Run(op, t) ==
    /\ ~cpu.stopped
    /\ I.op = op
    /\ cpu' = t
    /\ UNCHANGED <<guest, raised>>

-----------------------------------------------------------------------------
(* The forms an instruction takes.                                         *)

DX(w) == cpu.d[I.x] % Modulus(w)

\* <ea>, Dx -> Dx.
Er(w, F(_, _, _, _)) ==
    LET t == Moved(T, I.ea, w)
        q == F(t, Value(T, I.ea, w), DX(w), w)
    IN  SetD(SetFlags(t, q), w, I.x, q.r)

\* s, <ea> -> <ea>: the flags are set, then the result is written.
Modify(w, s, F(_, _, _, _)) ==
    LET t == Moved(T, I.ea, w)
        q == F(t, s, Value(T, I.ea, w), w)
    IN  Write(SetFlags(t, q), I.ea, Address(T, I.ea, w), w, q.r)

\* s, <ea> -> <ea>: the result is written, then the flags are set.
ModifyThenFlags(w, s, F(_, _, _, _)) ==
    LET t == Moved(T, I.ea, w)
        q == F(t, s, Value(T, I.ea, w), w)
    IN  SetFlags(Write(t, I.ea, Address(T, I.ea, w), w, q.r), q)

\* s and <ea> compared or tested: flags only.
Flags(w, s, F(_, _, _, _)) ==
    LET t == Moved(T, I.ea, w) IN SetFlags(t, F(t, s, Value(T, I.ea, w), w))

\* <ea>, Ax -> Ax: whole register, no flags.
ToAddress(w, F(_, _)) ==
    LET t == Moved(T, I.ea, w)
        s == Signed(Value(T, I.ea, w), Modulus(w))
    IN  [t EXCEPT !.a[I.x] = F(@, s) % Long]

\* Both operands in memory, mode m on both: -(Ay), -(Ax) or (Ay)+, (Ax)+.
BothInMemory(m, w, F(_, _, _, _), writes) ==
    LET src == [m |-> m, r |-> I.ea.r]
        dst == [m |-> m, r |-> I.x]
        t == Moved(T, src, w)
        q == F(t, Value(T, src, w), Value(t, dst, w), w)
        u == SetFlags(Moved(t, dst, w), q)
    IN  IF writes THEN Store(u, Address(t, dst, w), w, q.r) ELSE u

\* A quick operand goes to an address register whole, and sets no flags.
Quick(w, F(_, _, _, _), k) ==
    IF I.ea.m = "a" THEN [T EXCEPT !.a[I.ea.r] = (@ + k) % Long]
    ELSE Modify(w, I.k, F)

Plus(p, q) == p + q
Minus(p, q) == p - q
Second(p, q) == q

-----------------------------------------------------------------------------
(* Addition and subtraction.                                               *)

add_8_er == Run("add_8_er", Er(1, Add))
add_16_er == Run("add_16_er", Er(2, Add))
add_32_er == Run("add_32_er", Er(4, Add))
add_8_re == Run("add_8_re", Modify(1, DX(1), Add))
add_16_re == Run("add_16_re", Modify(2, DX(2), Add))
add_32_re == Run("add_32_re", Modify(4, DX(4), Add))
adda_16 == Run("adda_16", ToAddress(2, Plus))
adda_32 == Run("adda_32", ToAddress(4, Plus))
addi_8 == Run("addi_8", Modify(1, I.k, Add))
addi_16 == Run("addi_16", Modify(2, I.k, Add))
addi_32 == Run("addi_32", Modify(4, I.k, Add))
addq_8 == Run("addq_8", Quick(1, Add, I.k))
addq_16 == Run("addq_16", Quick(2, Add, I.k))
addq_32 == Run("addq_32", Quick(4, Add, I.k))
addx_rr == Run("addx_rr", Er(I.w, Addx))
addx_mm == Run("addx_mm", BothInMemory("pd", I.w, Addx, TRUE))

sub_8_er == Run("sub_8_er", Er(1, Sub))
sub_16_er == Run("sub_16_er", Er(2, Sub))
sub_32_er == Run("sub_32_er", Er(4, Sub))
sub_8_re == Run("sub_8_re", Modify(1, DX(1), Sub))
sub_16_re == Run("sub_16_re", Modify(2, DX(2), Sub))
sub_32_re == Run("sub_32_re", Modify(4, DX(4), Sub))
suba_16 == Run("suba_16", ToAddress(2, Minus))
suba_32 == Run("suba_32", ToAddress(4, Minus))
subi_8 == Run("subi_8", Modify(1, I.k, Sub))
subi_16 == Run("subi_16", Modify(2, I.k, Sub))
subi_32 == Run("subi_32", Modify(4, I.k, Sub))
subq_8 == Run("subq_8", Quick(1, Sub, -I.k))
subq_16 == Run("subq_16", Quick(2, Sub, -I.k))
subq_32 == Run("subq_32", Quick(4, Sub, -I.k))
subx_rr == Run("subx_rr", Er(I.w, Subx))
subx_mm == Run("subx_mm", BothInMemory("pd", I.w, Subx, TRUE))

neg_8 == Run("neg_8", Modify(1, 0, Neg))
neg_16 == Run("neg_16", Modify(2, 0, Neg))
neg_32 == Run("neg_32", Modify(4, 0, Neg))
negx_8 == Run("negx_8", Modify(1, 0, Negx))
negx_16 == Run("negx_16", Modify(2, 0, Negx))
negx_32 == Run("negx_32", Modify(4, 0, Negx))

AddDecimal(t, s, d, w) == Abcd(s, d, t.x, t.z, Base, Ten)
SubDecimal(t, s, d, w) == Sbcd(s, d, t.x, t.z, Base, Ten)
NegDecimal(t, s, d, w) == Nbcd(d, t.x, t.z, Base, Ten)

abcd_8 == Run("abcd_8", IF I.ea.m = "d" THEN Er(1, AddDecimal)
                        ELSE BothInMemory("pd", 1, AddDecimal, TRUE))
sbcd_8 == Run("sbcd_8", IF I.ea.m = "d" THEN Er(1, SubDecimal)
                        ELSE BothInMemory("pd", 1, SubDecimal, TRUE))
\* V is set, then the result is written, then the other flags are set; a zero
\* is not written back.
nbcd_8 ==
    LET d == Value(T, I.ea, 1)
        q == NegDecimal(T, 0, d, 1)
        t == [Moved(T, I.ea, 1) EXCEPT !.v = q.v]
    IN  Run("nbcd_8", SetFlags(IF NothingToNegate(d, T.x, Base) THEN t
                               ELSE Write(t, I.ea, Address(T, I.ea, 1), 1, q.r), q))

\* Compare: flags only, and X stays.
cmp_8 == Run("cmp_8", Flags(1, 0, LAMBDA t, s, d, w : Cmp(t, d, DX(w), w)))
cmp_16 == Run("cmp_16", Flags(2, 0, LAMBDA t, s, d, w : Cmp(t, d, DX(w), w)))
cmp_32 == Run("cmp_32", Flags(4, 0, LAMBDA t, s, d, w : Cmp(t, d, DX(w), w)))
cmpi_8 == Run("cmpi_8", Flags(1, I.k, Cmp))
cmpi_16 == Run("cmpi_16", Flags(2, I.k, Cmp))
cmpi_32 == Run("cmpi_32", Flags(4, I.k, Cmp))
cmpm == Run("cmpm", BothInMemory("pi", I.w, Cmp, FALSE))

\* An address register is compared whole, with the sign of a word operand.
CompareAddress(w) ==
    LET t == Moved(T, I.ea, w)
        s == Signed(Value(T, I.ea, w), Modulus(w)) % Long
    IN  SetFlags(t, Cmp(t, s, t.a[I.x], 4))
cmpa_16 == Run("cmpa_16", CompareAddress(2))
cmpa_32 == Run("cmpa_32", CompareAddress(4))
tst_8 == Run("tst_8", Flags(1, 0, Test))
tst_16 == Run("tst_16", Flags(2, 0, Test))
tst_32 == Run("tst_32", Flags(4, 0, Test))

-----------------------------------------------------------------------------
(* Logic and single bits.                                                  *)

and_8_er == Run("and_8_er", Er(1, Conjoin))
and_16_er == Run("and_16_er", Er(2, Conjoin))
and_32_er == Run("and_32_er", Er(4, Conjoin))
and_8_re == Run("and_8_re", Modify(1, DX(1), Conjoin))
and_16_re == Run("and_16_re", Modify(2, DX(2), Conjoin))
and_32_re == Run("and_32_re", Modify(4, DX(4), Conjoin))
andi_8 == Run("andi_8", Modify(1, I.k, Conjoin))
andi_16 == Run("andi_16", Modify(2, I.k, Conjoin))
andi_32 == Run("andi_32", Modify(4, I.k, Conjoin))

or_8_er == Run("or_8_er", Er(1, Disjoin))
or_16_er == Run("or_16_er", Er(2, Disjoin))
or_32_er == Run("or_32_er", Er(4, Disjoin))
or_8_re == Run("or_8_re", ModifyThenFlags(1, DX(1), Disjoin))
or_16_re == Run("or_16_re", ModifyThenFlags(2, DX(2), Disjoin))
or_32_re == Run("or_32_re", ModifyThenFlags(4, DX(4), Disjoin))
ori_8 == Run("ori_8", ModifyThenFlags(1, I.k, Disjoin))
ori_16 == Run("ori_16", ModifyThenFlags(2, I.k, Disjoin))
ori_32 == Run("ori_32", ModifyThenFlags(4, I.k, Disjoin))

eor_8 == Run("eor_8", ModifyThenFlags(1, DX(1), Exclude))
eor_16 == Run("eor_16", ModifyThenFlags(2, DX(2), Exclude))
eor_32 == Run("eor_32", ModifyThenFlags(4, DX(4), Exclude))
eori_8 == Run("eori_8", ModifyThenFlags(1, I.k, Exclude))
eori_16 == Run("eori_16", ModifyThenFlags(2, I.k, Exclude))
eori_32 == Run("eori_32", ModifyThenFlags(4, I.k, Exclude))

not_8 == Run("not_8", ModifyThenFlags(1, 0, Invert))
not_16 == Run("not_16", ModifyThenFlags(2, 0, Invert))
not_32 == Run("not_32", ModifyThenFlags(4, 0, Invert))
clr_8 == Run("clr_8", ModifyThenFlags(1, 0, Copy))
clr_16 == Run("clr_16", ModifyThenFlags(2, 0, Copy))
clr_32 == Run("clr_32", ModifyThenFlags(4, 0, Copy))

\* Bit k of a data register, modulo 32, or of a byte in memory, modulo 8: Z
\* tells whether it was clear, and New(v, b, set) is what becomes of it.
BitChange(k, New(_, _, _)) ==
    LET w == IF I.ea.m = "d" THEN 4 ELSE 1
        b == k % (ByteBits * w)
        v == Value(T, I.ea, w)
        t == [Moved(T, I.ea, w) EXCEPT !.z = ~HasBit(v, b)]
    IN  Write(t, I.ea, Address(T, I.ea, w), w, New(v, 2 ^ b, HasBit(v, b)))

BitTest(k) ==
    LET w == IF I.ea.m = "d" THEN 4 ELSE 1
    IN  [Moved(T, I.ea, w) EXCEPT !.z = ~HasBit(Value(T, I.ea, w), k % (ByteBits * w))]

Toggled(v, b, set) == IF set THEN v - b ELSE v + b
Cleared(v, b, set) == IF set THEN v - b ELSE v
Raised(v, b, set) == IF set THEN v ELSE v + b

bchg_r == Run("bchg_r", BitChange(DX(4), Toggled))
bchg_s == Run("bchg_s", BitChange(I.k, Toggled))
bclr_r == Run("bclr_r", BitChange(DX(4), Cleared))
bclr_s == Run("bclr_s", BitChange(I.k, Cleared))
bset_r == Run("bset_r", BitChange(DX(4), Raised))
bset_s == Run("bset_s", BitChange(I.k, Raised))
btst_r == Run("btst_r", BitTest(DX(4)))
btst_s == Run("btst_s", BitTest(I.k))

\* The flags of the byte as it was; its top bit is set.
tas_8 == Run("tas_8", Modify(1, 0, LAMBDA t, s, d, w :
    [Test(t, s, d, w) EXCEPT !.r = Or(d, 2 ^ (ByteBits - 1), ByteBits)]))

-----------------------------------------------------------------------------
(* Shifts and rotates.                                                     *)

\* A register by the count in the instruction, 1 to 8, or in DX, modulo 64.
ShiftRegister(k, F(_, _, _, _)) ==
    LET q == F(T.d[I.ea.r] % Modulus(I.w), k, ByteBits * I.w, T.x)
    IN  SetD(SetFlags(T, q), I.w, I.ea.r, q.r)
Count == cpu.d[I.x] % (8 * ByteBits)

\* A word in memory by one: the flags follow the write ...
ShiftMemory(F(_, _, _, _)) ==
    ModifyThenFlags(2, 0, LAMBDA t, s, d, w : F(d, 1, ByteBits * w, t.x))

\* ... and a rotate through X has X and C before it, N, Z and V after.
RotateMemory(F(_, _, _, _)) ==
    LET t == Moved(T, I.ea, 2)
        q == F(Value(T, I.ea, 2), 1, ByteBits * 2, t.x)
        u == Store([t EXCEPT !.x = q.x, !.c = q.c], Address(T, I.ea, 2), 2, q.r)
    IN  [u EXCEPT !.n = q.n, !.z = q.z, !.v = q.v]

asr_s == Run("asr_s", ShiftRegister(I.k, Asr))
asr_r == Run("asr_r", ShiftRegister(Count, Asr))
asr_16 == Run("asr_16", ShiftMemory(Asr))
asl_s == Run("asl_s", ShiftRegister(I.k, Asl))
asl_r == Run("asl_r", ShiftRegister(Count, Asl))
asl_16 == Run("asl_16", ShiftMemory(Asl))
lsr_s == Run("lsr_s", ShiftRegister(I.k, Lsr))
lsr_r == Run("lsr_r", ShiftRegister(Count, Lsr))
lsr_16 == Run("lsr_16", ShiftMemory(Lsr))
lsl_s == Run("lsl_s", ShiftRegister(I.k, Lsl))
lsl_r == Run("lsl_r", ShiftRegister(Count, Lsl))
lsl_16 == Run("lsl_16", ShiftMemory(Lsl))
ror_s == Run("ror_s", ShiftRegister(I.k, Ror))
ror_r == Run("ror_r", ShiftRegister(Count, Ror))
ror_16 == Run("ror_16", ShiftMemory(Ror))
rol_s == Run("rol_s", ShiftRegister(I.k, Rol))

\* ROL.L by a whole number of turns takes C from a shift of 32 bits by 32,
\* which C leaves undefined: the bit that went round, or none.
rol_r ==
    \/ Run("rol_r", ShiftRegister(Count, Rol))
    \/ /\ Run("rol_r", [ShiftRegister(Count, Rol) EXCEPT !.c = FALSE])
       /\ I.w = 4 /\ Count # 0 /\ Count % (4 * ByteBits) = 0
rol_16 == Run("rol_16", ShiftMemory(Rol))
roxr_s == Run("roxr_s", ShiftRegister(I.k, Roxr))
roxr_r == Run("roxr_r", ShiftRegister(Count, Roxr))
roxr_16 == Run("roxr_16", RotateMemory(Roxr))
roxl_s == Run("roxl_s", ShiftRegister(I.k, Roxl))
roxl_r == Run("roxl_r", ShiftRegister(Count, Roxl))
roxl_16 == Run("roxl_16", RotateMemory(Roxl))

-----------------------------------------------------------------------------
Arithmetic ==
    \/ add_8_er \/ add_16_er \/ add_32_er \/ add_8_re \/ add_16_re
    \/ add_32_re \/ adda_16 \/ adda_32 \/ addi_8 \/ addi_16 \/ addi_32
    \/ addq_8 \/ addq_16 \/ addq_32 \/ addx_rr \/ addx_mm \/ sub_8_er
    \/ sub_16_er \/ sub_32_er \/ sub_8_re \/ sub_16_re \/ sub_32_re
    \/ suba_16 \/ suba_32 \/ subi_8 \/ subi_16 \/ subi_32 \/ subq_8
    \/ subq_16 \/ subq_32 \/ subx_rr \/ subx_mm \/ neg_8 \/ neg_16
    \/ neg_32 \/ negx_8 \/ negx_16 \/ negx_32 \/ abcd_8 \/ sbcd_8
    \/ nbcd_8 \/ cmp_8 \/ cmp_16 \/ cmp_32 \/ cmpi_8 \/ cmpi_16 \/ cmpi_32
    \/ cmpm \/ cmpa_16 \/ cmpa_32 \/ tst_8 \/ tst_16 \/ tst_32

Logic ==
    \/ and_8_er \/ and_16_er \/ and_32_er \/ and_8_re \/ and_16_re
    \/ and_32_re \/ andi_8 \/ andi_16 \/ andi_32 \/ or_8_er \/ or_16_er
    \/ or_32_er \/ or_8_re \/ or_16_re \/ or_32_re \/ ori_8 \/ ori_16
    \/ ori_32 \/ eor_8 \/ eor_16 \/ eor_32 \/ eori_8 \/ eori_16 \/ eori_32
    \/ not_8 \/ not_16 \/ not_32 \/ clr_8 \/ clr_16 \/ clr_32 \/ bchg_r
    \/ bchg_s \/ bclr_r \/ bclr_s \/ bset_r \/ bset_s \/ btst_r \/ btst_s
    \/ tas_8

Shifts ==
    \/ asr_s \/ asr_r \/ asr_16 \/ asl_s \/ asl_r \/ asl_16 \/ lsr_s
    \/ lsr_r \/ lsr_16 \/ lsl_s \/ lsl_r \/ lsl_16 \/ ror_s \/ ror_r
    \/ ror_16 \/ rol_s \/ rol_r \/ rol_16 \/ roxr_s \/ roxr_r \/ roxr_16
    \/ roxl_s \/ roxl_r \/ roxl_16
=============================================================================
