------------------------------- MODULE MCM68k -------------------------------
(***************************************************************************)
(* Guest programs for TLC, each with what it must have computed when it    *)
(* halts.  A byte has 6 bits, a decimal byte two digits to the base 5.     *)
(* A program starts with its operands p in D0 and q in D1 and ends with a  *)
(* STOP that masks every interrupt; the guest's handlers save what they    *)
(* use, answer the device and return.                                      *)
(*                                                                         *)
(* RAM: 0 .. 27 data, 28 and 29 flags for the handlers, 30 and 31 their    *)
(* counters, then the user's stack below 56 and the supervisor's below 104.*)
(***************************************************************************)
EXTENDS M68k

-----------------------------------------------------------------------------
(* Operands and instructions.                                              *)

Ea(m, r, k) == [m |-> m, r |-> r, k |-> k, i |-> 0, long |-> FALSE]
D(r) == Ea("d", r, 0)
A(r) == Ea("a", r, 0)
At(r) == Ea("ai", r, 0)
Up(r) == Ea("pi", r, 0)
Down(r) == Ea("pd", r, 0)
Off(r, k) == Ea("di", r, k)
Ix(r, i, k) == [Ea("ix", r, k) EXCEPT !.i = i]
IxLong(r, i, k) == [Ea("ix", r, k) EXCEPT !.i = i, !.long = TRUE]
Abs(k) == Ea("aw", 0, k)
Far(k) == Ea("al", 0, k)
Imm(k) == Ea("i", 0, k)
Pc(k) == Ea("pcdi", 0, k)
PcIx(i, k) == [Ea("pcix", 0, k) EXCEPT !.i = i]

O(op) == [op |-> op]                                     \* no operand
E(op, ea) == [op |-> op, ea |-> ea]                      \* one
X(op, ea, x) == [op |-> op, ea |-> ea, x |-> x]          \* and a register
K(op, k, ea) == [op |-> op, ea |-> ea, k |-> k]          \* and a constant
XW(op, w, ea, x) == [op |-> op, ea |-> ea, x |-> x, w |-> w]
KW(op, w, k, ea) == [op |-> op, ea |-> ea, k |-> k, w |-> w]
M(op, ea, to) == [op |-> op, ea |-> ea, to |-> to]
B(op, cc, k) == [op |-> op, cc |-> cc, k |-> k]
Loop(cc, r, k) == [op |-> "dbcc_16", ea |-> D(r), cc |-> cc, k |-> k]
L(op, list, ea) == [op |-> op, ea |-> ea, list |-> list]
Swap(r) == E("swap_32", D(r))
Exg(x, y) == [op |-> "exg_32", x |-> x, y |-> y]
Set(k, r) == X("moveq_32", Imm(k), r)
Copy4(x, y) == X("move_32_d", D(x), y)
Save(r) == E("move_16_frs", D(r))
SetCodes(k) == E("move_16_toc", Imm(k))
End == [op |-> "stop", k |-> 256 + 7 * 32]

ZSet == 4
XSet == 16
FlagC(v) == HasBit(v, 0)
FlagV(v) == HasBit(v, 1)
FlagZ(v) == HasBit(v, 2)
FlagN(v) == HasBit(v, 3)
FlagX(v) == HasBit(v, 4)

-----------------------------------------------------------------------------
(* The programs.                                                           *)

\* The address of the first instruction of each.
Origin == 42

Via == Abs(-2)
Scc == Abs(-1)

\* p + q and p - q by words, and whole.
Adding == <<Copy4(0, 2), Copy4(1, 3), X("add_16_er", D(3), 2), Swap(2), Swap(3),
    XW("addx_rr", 2, D(3), 2), Swap(2), X("add_32_er", D(1), 0), End>>
Subtracting == <<Copy4(0, 2), Copy4(1, 3), X("sub_16_er", D(3), 2), Swap(2), Swap(3),
    XW("subx_rr", 2, D(3), 2), Swap(2), X("sub_32_er", D(1), 0), End>>

\* -p by words, -q by bytes in memory, and the borrow that is left.
Negating == <<Copy4(0, 2), M("move_32_ai", D(1), At(0)), E("neg_16", D(2)), Swap(2),
    E("negx_16", D(2)), Swap(2), E("neg_32", D(0)), X("lea_32", Off(0, 4), 1),
    E("neg_8", Down(1)), Set(2, 3), E("negx_8", Down(1)), K("dbf_16", -2, D(3)),
    Set(0, 4), E("negx_32", D(4)), End>>

\* Memory to memory, by bytes and by words, with a carry and a Z for the whole.
AddingInMemory == <<M("move_32_aw", D(0), Abs(0)), M("move_32_al", D(1), Far(4)),
    X("lea_32", Abs(4), 0), X("lea_32", Far(8), 1), Set(3, 2), SetCodes(ZSet),
    XW("addx_mm", 1, Down(0), 1), K("dbf_16", -2, D(2)), Save(7), End>>
SubtractingInMemory == <<M("move_32_pi", D(0), Up(0)), M("move_32_pi", D(1), Up(1)), Set(3, 2),
    SetCodes(ZSet), XW("subx_mm", 1, Down(0), 1), K("dbf_16", -2, D(2)), Save(7),
    X("move_32_d", At(1), 3), X("lea_32", Off(0, 4), 0), X("lea_32", Off(1, 4), 1),
    K("andi_16_toc", 0, D(0)), XW("addx_mm", 2, Down(0), 1),
    XW("addx_mm", 2, Down(0), 1), End>>

\* Constants added and taken away at each width.
Counting == <<M("move_32_ai", D(0), At(0)), K("addi_32", 5, At(0)), K("subi_32", 9, At(0)),
    K("addq_32", 3, D(0)), K("subq_32", 7, D(0)), M("move_16_ai", D(1), At(1)),
    K("addi_16", 7, At(1)), K("subi_16", 3, Up(1)), K("addq_16", 1, Down(1)),
    K("subq_16", 2, At(1)), M("move_8_ai", D(1), At(2)), K("addi_8", 3, At(2)),
    K("subi_8", 5, At(2)), K("addq_8", 1, Up(2)), K("subq_8", 2, Down(2)), End>>

\* Registers added to memory and to address registers.
Accumulating == <<M("move_32_ai", D(0), At(0)), X("add_32_re", At(0), 1), M("move_16_ai", D(0), At(1)),
    X("sub_16_re", At(1), 1), M("move_8_ai", D(0), At(2)), X("sub_8_re", Up(2), 1), M("move_8_ai", D(0), At(2)),
    X("add_8_re", At(2), 1), M("move_16_di", D(0), Off(1, 2)), X("add_16_re", Off(1, 2), 1),
    M("move_32_ai", D(0), At(3)), X("sub_32_re", At(3), 1), Copy4(0, 2), X("add_8_er", D(1), 2),
    Copy4(0, 3), X("sub_8_er", D(1), 3), End>>
Addressing == <<X("movea_16", D(0), 4), X("movea_32", D(1), 5), X("adda_16", D(1), 4),
    X("suba_32", D(0), 5), X("adda_32", D(0), 5), X("suba_16", D(0), 5), K("addq_32", 3, A(4)),
    K("subq_16", 1, A(5)), X("cmpa_32", D(1), 4), E("seq_8", D(2)), X("cmpa_16", D(1), 4),
    E("sgt_8", D(3)), End>>

\* Every condition after one comparison.
Comparing == <<X("cmp_32", D(1), 0), E("shi_8", Up(0)), E("sls_8", Up(0)), E("scc_8", Up(0)),
    E("scs_8", Up(0)), E("sne_8", Up(0)), E("seq_8", Up(0)), E("svc_8", Up(0)), E("svs_8", Up(0)),
    E("spl_8", Up(0)), E("smi_8", Up(0)), E("sge_8", Up(0)), E("slt_8", Up(0)), E("sgt_8", Up(0)),
    E("sle_8", Up(0)), E("st_8", Off(1, 6)), E("sf_8", Off(1, 7)), End>>

\* p and q in order, as signed longs and as words without sign.
Ordering == <<Copy4(0, 2), Copy4(1, 3), X("cmp_32", D(1), 0), B("bcc_8", "LE", 1), Exg(0, 1),
    X("cmp_16", D(3), 2), B("bcc_16", "LS", 1), Exg(2, 3), End>>

\* Comparisons with memory and with constants.
Testing == <<M("move_32_ai", D(0), At(0)), M("move_32_ai", D(1), At(1)), XW("cmpm", 2, Up(0), 1),
    E("scs_8", D(2)), XW("cmpm", 2, Up(0), 1), E("seq_8", D(3)), E("tst_32", D(0)), E("smi_8", D(4)),
    E("tst_16", D(0)), E("seq_8", D(5)), E("tst_8", D(1)), E("spl_8", D(6)), End>>
Limits == <<K("cmpi_32", 5000, D(0)), E("shi_8", D(2)), K("cmpi_16", 7, D(0)), E("slt_8", D(3)),
    K("cmpi_8", 9, D(0)), E("scs_8", D(4)), X("cmp_8", D(1), 0), E("sge_8", D(5)), End>>

\* To the first byte that is zero, or four.
Searching == <<M("move_32_ai", D(0), At(0)), Set(3, 2), E("tst_8", Up(0)), Loop("EQ", 2, -2),
    K("dbt_16", -3, D(2)), End>>

\* Through every addressing mode of a destination.
CopyingBytes == <<M("move_32_ai", D(0), At(0)), M("move_8_pi", Up(0), Up(1)),
    M("move_8_ai", Up(0), At(1)), M("move_8_di", At(0), Off(1, 1)), Set(2, 2),
    M("move_8_ix", Off(0, 1), Ix(1, 2, 0)), M("move_8_pd7", D(1), Down(7)), X("move_8_d", Up(7), 3),
    M("move_8_pd7", D(1), Down(7)), M("move_8_pi7", D(0), Up(7)), M("move_8_aw", Off(0, 1), Abs(12)),
    M("move_8_al", D(1), Far(13)), M("move_8_pd", D(1), Down(2)), End>>
CopyingWords == <<M("move_32_ai", D(0), At(0)), M("move_16_pi", Up(0), Up(1)),
    M("move_16_ai", At(0), At(1)), M("move_16_pd", Down(0), Down(2)), M("move_16_di", Off(0, 2), Off(2, 2)),
    Set(-2, 2), M("move_16_ix", At(0), IxLong(2, 2, 6)), M("move_16_aw", Ix(0, 2, 4), Abs(20)),
    M("move_16_al", At(0), Far(22)), X("move_16_d", D(1), 3), End>>
CopyingLongs == <<M("move_32_pd", D(0), Down(1)), M("move_32_pi", D(1), Up(1)), M("move_32_di", D(0), Off(1, 0)),
    Set(4, 2), M("move_32_ix", Off(0, 4), Ix(1, 2, 0)), M("move_32_aw", Off(1, 0), Abs(16)),
    M("move_32_al", Down(1), Far(20)), End>>

\* Twice and half of p, q through X from half to half, in registers and in memory.
Shifting == <<KW("lsl_s", 2, 1, D(0)), Swap(0), KW("roxl_s", 2, 1, D(0)), Swap(0), Swap(1),
    KW("lsr_s", 2, 1, D(1)), Swap(1), KW("roxr_s", 2, 1, D(1)), End>>
ShiftingMemory == <<M("move_32_ai", D(0), At(0)), M("move_32_ai", D(1), At(1)), E("lsl_16", Off(0, 2)),
    E("roxl_16", At(0)), E("lsr_16", Up(1)), E("roxr_16", At(1)), M("move_16_ai", D(0), At(2)),
    E("rol_16", At(2)), E("ror_16", At(2)), E("asr_16", At(2)), E("asl_16", At(2)), End>>

\* As far one way as the other.
Rotating == <<Copy4(0, 2), Copy4(0, 3), Copy4(0, 4), SetCodes(XSet), KW("ror_s", 4, 3, D(0)), KW("rol_s", 4, 3, D(0)),
    XW("ror_r", 2, D(2), 1), XW("rol_r", 2, D(2), 1), XW("roxl_r", 2, D(3), 1), XW("roxr_r", 2, D(3), 1),
    Save(7), XW("rol_r", 4, D(4), 1), End>>

\* Powers of two.
Scaling == <<Copy4(0, 2), Copy4(0, 3), Copy4(0, 4), KW("asr_s", 4, 2, D(0)), XW("asr_r", 4, D(2), 1),
    XW("asl_r", 4, D(3), 1), E("svs_8", D(5)), KW("asl_s", 4, 3, D(4)), E("svs_8", D(6)), End>>
ScalingUnsigned == <<Copy4(0, 2), XW("lsl_r", 4, D(0), 1), XW("lsr_r", 4, D(2), 1), End>>

\* Multiplied and divided again; p divided by the low word of q.
Multiplying == <<Copy4(0, 2), X("mulu_16", D(1), 0), Copy4(0, 3), X("divu_16", D(1), 3),
    X("divu_16", D(1), 2), E("svs_8", D(4)), End>>
MultiplyingSigned == <<Copy4(0, 2), X("muls_16", D(1), 0), X("divs_16", D(1), 2), E("svs_8", D(4)),
    X("move_16_d", D(0), 5), KW("ext", 4, 0, D(5)), X("move_8_d", D(1), 6), KW("ext", 2, 0, D(6)), End>>

\* One bit, in a register and in memory.
Flipping == <<K("btst_s", 3, D(0)), E("sne_8", D(2)), K("bset_s", 3, D(0)), K("bclr_s", 7, D(0)),
    K("bchg_s", 11, D(0)), M("move_8_ai", D(1), At(0)), X("btst_r", At(0), 1), E("sne_8", D(3)),
    X("bset_r", At(0), 1), X("bchg_r", At(0), 1), X("bclr_r", Up(0), 1),
    M("move_8_ai", D(1), At(1)), E("tas_8", At(1)), E("smi_8", D(4)), End>>

\* The same with the operations of each width.
Combining(move, and, or, eor, not, andTo, orTo, andi, ori, eori, clr) ==
    <<Copy4(0, 2), X(and, D(1), 2), Copy4(0, 3), X(or, D(1), 3), X(eor, D(3), 2), X(eor, D(3), 1),
      M(move, D(0), At(0)), E(not, At(0)), X(andTo, At(0), 1), X(orTo, At(0), 0), K(eori, 21, At(0)),
      K(ori, 12, At(0)), K(andi, 51, At(0)), M(move, D(1), At(1)), E(clr, At(1)), End>>
CombiningBytes == Combining("move_8_ai", "and_8_er", "or_8_er", "eor_8", "not_8", "and_8_re", "or_8_re",
    "andi_8", "ori_8", "eori_8", "clr_8")
CombiningWords == Combining("move_16_ai", "and_16_er", "or_16_er", "eor_16", "not_16", "and_16_re",
    "or_16_re", "andi_16", "ori_16", "eori_16", "clr_16")
CombiningLongs == Combining("move_32_ai", "and_32_er", "or_32_er", "eor_32", "not_32", "and_32_re",
    "or_32_re", "andi_32", "ori_32", "eori_32", "clr_32")

\* Registers to memory and back.
Saving == <<L("movem_32_re", {0, 1, 8}, Down(7)), Set(5, 0), Set(6, 1), L("movem_32_er", {0, 1, 8}, Up(7)),
    L("movem_16_re", {0, 1}, At(0)), L("movem_16_er", {2, 3}, At(0)), X("movep_32_re", Off(1, 0), 0),
    X("movep_16_re", Off(1, 1), 1), X("movep_32_er", Off(1, 0), 4), X("movep_16_er", Off(1, 1), 5), End>>

\* Subroutines that work on a local variable of their caller.
Calling == <<K("link_16", -4, A(6)), M("move_32_di", D(0), Off(6, -4)), [op |-> "bsr", k |-> 4],
    E("jsr_32", Pc(5)), E("seq_8", D(3)), E("unlk_32", A(6)), [op |-> "bra", k |-> 5],
    X("add_32_re", Off(6, -4), 1), O("rts_32"),
    E("move_16_frs", Down(7)), X("move_32_d", Off(6, -4), 2), O("rtr_32"),
    E("pea_32", Abs(Origin + 15)), E("jmp_32", PcIx(6, 1)), O("illegal"), End>>

\* Packed decimal, by bytes.
AddingDecimal == <<M("move_32_aw", D(0), Abs(0)), M("move_32_aw", D(1), Abs(4)), X("lea_32", Abs(4), 0),
    X("lea_32", Abs(8), 1), Set(1, 2), SetCodes(ZSet), X("abcd_8", Down(0), 1), K("dbf_16", -2, D(2)), Save(7),
    SetCodes(0), X("abcd_8", D(1), 0), End>>
SubtractingDecimal == <<M("move_32_aw", D(0), Abs(0)), M("move_32_aw", D(1), Abs(4)), X("lea_32", Abs(4), 0),
    X("lea_32", Abs(8), 1), Set(1, 2), SetCodes(ZSet), X("sbcd_8", Down(0), 1), K("dbf_16", -2, D(2)), Save(7),
    SetCodes(0), Copy4(0, 3), X("sbcd_8", D(1), 0), SetCodes(XSet), E("nbcd_8", D(3)), End>>

\* Exceptions, each marked by its handler in D7.
Trapping == <<SetCodes(2), O("trapv"), [op |-> "trap", k |-> 0], O("illegal"), O("op_1010"), O("op_1111"),
    X("chk_16", D(1), 0), X("divu_16", Imm(0), 0), SetCodes(XSet), O("trapv"), Save(5), End>>

\* A user's program, which ends with a system call; every instruction of the
\* supervisor is refused, and skipped.
Trespassing == <<K("andi_16_tos", 0, D(0)), K("ori_16_tos", 256, D(0)), K("eori_16_tos", 256, D(0)),
    E("move_16_tos", Imm(256)), E("move_32_tou", A(0)), E("move_32_fru", A(0)), End, O("reset"), O("rte_32"),
    M("move_32_pd", D(0), Down(7)), Save(6), [op |-> "trap", k |-> 15]>>

\* The supervisor starts a user's program on the user's stack.
Descending == <<X("movea_32", D(1), 3), E("move_32_fru", A(4)), X("lea_32", Off(4, -4), 5),
    E("move_32_tou", A(5)), K("andi_16_tos", 255, D(0)), M("move_32_pd", D(0), Down(7)),
    [op |-> "trap", k |-> 15]>>

\* Critical sections: masked work on memory that interrupts use too.
Masking == <<K("ori_16_tos", 2 * 32, D(0)), M("move_8_aw", D(0), Via), Set(0, 4), K("addq_8", 1, Far(30)),
    X("move_8_d", Abs(30), 4), E("move_16_tos", Imm(256 + 32)), K("eori_16_tos", 32, D(0)),
    K("eori_16_toc", 31, D(0)), K("ori_16_toc", XSet, D(0)), Save(7), End>>

\* The processor stops until an interrupt.
Waiting == <<[op |-> "stop", k |-> 256], Copy4(0, 2), O("nop"), End>>

\* A loop until a device is served, which its handler may put off.
Deferring == <<M("move_8_aw", D(0), Abs(29)), E("tst_8", Abs(30)), B("bcc_8", "EQ", -2), End>>
DeferringScc == <<M("move_8_aw", D(0), Abs(28)), E("tst_8", Abs(31)), B("bcc_8", "EQ", -2), End>>

\* A write that makes the VIA interrupt, and what the write's flags decide.
Arming == <<SetCodes(ZSet), M("move_8_aw", D(0), Via), E("seq_8", D(2)), End>>

\* RESET takes back what a device has armed.
Resetting == <<K("ori_16_tos", 7 * 32, D(0)), M("move_8_aw", D(0), Via), M("move_8_aw", D(1), Scc),
    O("reset"), E("move_16_tos", Imm(256)), Copy4(0, 2), End>>

\* The guest's exception handlers: one marks itself and returns, a fault's
\* skips the instruction first, an interrupt's saves, counts, answers.
Marks(bit) == <<K("addi_32", bit, D(7)), O("rte_32")>>
Skips(bit) == <<K("addi_32", bit, D(7)), K("addq_32", 1, Off(7, 2)), O("rte_32")>>
Serves(device, counter) == <<L("movem_32_re", {0, 1, 8}, Down(7)), Set(-1, 0), K("addq_8", 1, Abs(counter)),
    E("clr_8", device), L("movem_32_er", {0, 1, 8}, Up(7)), O("rte_32")>>

\* Once it may leave the device for later, as a flag tells.
MayServe(device, counter, flag) ==
    <<E("tst_8", Abs(flag)), B("bcc_8", "EQ", 2), E("clr_8", Abs(flag)), O("rte_32")>> \o Serves(device, counter)

\* Every program is preceded by the handlers; the vectors are their addresses.
Handlers == Skips(2) \o Marks(4) \o Marks(8) \o Marks(16) \o Skips(1) \o Skips(32) \o Skips(64)
    \o Marks(128) \o <<End>> \o MayServe(Via, 30, 29) \o MayServe(Scc, 31, 28)
VectorTable == [v \in {4, 5, 6, 7, 8, 10, 11, 25, 26, 32, 47} |->
    CASE v = 4 -> 1 [] v = 5 -> 4 [] v = 6 -> 6 [] v = 7 -> 8 [] v = 8 -> 10 [] v = 10 -> 13
      [] v = 11 -> 16 [] v = 32 -> 19 [] v = 47 -> 21 [] v = 25 -> 22 [] v = 26 -> 32]
MCVector == VectorTable

With(program) == Handlers \o program
Program ==
    [Adding |-> With(Adding), Subtracting |-> With(Subtracting), Negating |-> With(Negating),
     AddingInMemory |-> With(AddingInMemory), SubtractingInMemory |-> With(SubtractingInMemory),
     Counting |-> With(Counting), Accumulating |-> With(Accumulating),
     Addressing |-> With(Addressing), Comparing |-> With(Comparing), Ordering |-> With(Ordering),
     Testing |-> With(Testing), Limits |-> With(Limits), Searching |-> With(Searching),
     CopyingBytes |-> With(CopyingBytes), CopyingWords |-> With(CopyingWords),
     CopyingLongs |-> With(CopyingLongs), Shifting |-> With(Shifting),
     ShiftingMemory |-> With(ShiftingMemory), Rotating |-> With(Rotating),
     Scaling |-> With(Scaling), ScalingUnsigned |-> With(ScalingUnsigned),
     Multiplying |-> With(Multiplying), MultiplyingSigned |-> With(MultiplyingSigned),
     Flipping |-> With(Flipping), CombiningBytes |-> With(CombiningBytes),
     CombiningWords |-> With(CombiningWords), CombiningLongs |-> With(CombiningLongs),
     Saving |-> With(Saving), Calling |-> With(Calling), AddingDecimal |-> With(AddingDecimal),
     SubtractingDecimal |-> With(SubtractingDecimal), Trapping |-> With(Trapping),
     Trespassing |-> With(Trespassing), Descending |-> With(Descending), Masking |-> With(Masking),
     Waiting |-> With(Waiting), Arming |-> With(Arming),
     Deferring |-> With(Deferring), DeferringScc |-> With(DeferringScc),
     Resetting |-> With(Resetting)]

-----------------------------------------------------------------------------
(* What runs: a program with its operands and the interrupts it may see.   *)

Longs == {0, 1, 24, 4096, 8388607, 8388608, 16777215, 5592000}
Decimals == {0, 1, 8, 35, 36, 2340, 35 * 65, 36 * 65}

DecimalPrograms == {"AddingDecimal", "SubtractingDecimal"}
Operands(name) == IF name \in DecimalPrograms THEN Decimals ELSE Longs
Interrupted(name) == IF name \in DecimalPrograms THEN <<2275, 17>> ELSE <<4095, 16773121>>

\* Two interrupts, and so a nested one, where stacks, modes and masks are at
\* work; one elsewhere.
Nested == {"Calling", "Trespassing", "Descending", "Masking", "Waiting", "Deferring", "Resetting"}
Bound(name) == IF name \in Nested THEN 2 ELSE 1

Guest(name, p, q, interrupts) ==
    [program |-> name, code |-> Program[name], p |-> p, q |-> q, interrupts |-> interrupts]
MCGuests == UNION {
    {Guest(name, p, q, 0) : p \in Operands(name), q \in Operands(name)}
        \cup {Guest(name, Interrupted(name)[1], Interrupted(name)[2], Bound(name))} :
    name \in DOMAIN Program \ {"DeferringScc"}}

\* The machine before the first instruction.
Start(g) ==
    LET user == g.program = "Trespassing"
    IN  [d |-> [i \in 0 .. 7 |-> IF i = 0 THEN g.p ELSE IF i = 1 THEN g.q ELSE 0],
         a |-> [i \in 0 .. 7 |-> IF i < 4 THEN 8 * i ELSE IF i = 7 THEN (IF user THEN 56 ELSE 104) ELSE 20],
         other |-> IF user THEN 104 ELSE 56, pc |-> Origin, ppc |-> Origin,
         x |-> FALSE, n |-> FALSE, z |-> FALSE, v |-> FALSE, c |-> FALSE,
         s |-> ~user, mask |-> 0, stopped |-> FALSE, level |-> 0, via |-> FALSE, scc |-> FALSE,
         mem |-> [i \in 0 .. RamSize - 1 |-> 0]]
MCMachines == {[guest |-> g, cpu |-> Start(g)] : g \in MCGuests}
SccMachines == {[guest |-> g, cpu |-> Start(g)] :
                    g \in {Guest("DeferringScc", p, 0, n) : p \in {0, 1}, n \in 1 .. 2}}

-----------------------------------------------------------------------------
(* What the programs compute, in numbers.                                  *)

Byte(v) == v % 64
Low(v) == v % Word
High(v) == v \div Word
S32(v) == Signed(v, Long)
S16(v) == Signed(v % Word, Word)
S8(v) == Signed(v % 64, 64)
IsTrue(v, p) == Byte(v) = IF p THEN 63 ELSE 0
AsLong(v) == v % Long
Magnitude(v) == IF v < 0 THEN -v ELSE v
At8(k) == cpu.mem[k]
At16(k) == Load(cpu, k, 2)
At32(k) == Load(cpu, k, 4)

\* The number two packed digits, and four, stand for.
Digits2(v) == 5 * ((v \div 8) % 8) + (v % 8)
Digits4(v) == 25 * Digits2(v \div 64) + Digits2(v)

\* v shifted by k, as a number: the bits that remain, and whether the signed
\* value still fits.
Times(v, k) == IF k < 24 THEN (v % 2 ^ (24 - k)) * 2 ^ k ELSE 0
Per(v, k) == IF k < 24 THEN v \div 2 ^ k ELSE IF v < 0 THEN -1 ELSE 0
Fits(v, k) == IF k < 24 THEN -(Long \div 2) \div 2 ^ k <= v /\ v <= (Long \div 2 - 1) \div 2 ^ k
              ELSE v = 0

SameBits(r, F(_, _), p, q, n) == \A i \in 0 .. n - 1 : HasBit(r, i) = F(HasBit(p, i), HasBit(q, i))

Arithmetics(p, q, d, a) ==
    /\ guest.program = "Adding" => d[0] = AsLong(p + q) /\ d[2] = d[0]
    /\ guest.program = "Subtracting" => d[0] = AsLong(p - q) /\ d[2] = d[0]
    /\ guest.program = "Negating" =>
        /\ d[0] = AsLong(-p) /\ d[2] = d[0] /\ At32(0) = AsLong(-q)
        /\ d[4] = IF q = 0 THEN 0 ELSE Long - 1
    /\ guest.program = "AddingInMemory" =>
        /\ At32(4) = AsLong(p + q)
        /\ FlagZ(d[7]) = (AsLong(p + q) = 0) /\ FlagX(d[7]) = (p + q >= Long) /\ FlagC(d[7]) = FlagX(d[7])
    /\ guest.program = "SubtractingInMemory" =>
        /\ d[3] = AsLong(q - p) /\ At32(8) = q
        /\ FlagZ(d[7]) = (p = q) /\ FlagX(d[7]) = (q < p)
    /\ guest.program = "Counting" =>
        /\ At32(0) = AsLong(p - 4) /\ d[0] = AsLong(p - 4)
        /\ At16(8) = (q + 3) % Word /\ At8(16) = Byte(q - 3) /\ a[1] = 8 /\ a[2] = 16
    /\ guest.program = "Accumulating" =>
        /\ At32(0) = AsLong(p + q) /\ At32(24) = AsLong(p - q) /\ At16(8) = Low(p - q) /\ At16(10) = Low(p + q)
        /\ At8(16) = Byte(p - q) /\ At8(17) = Byte(p + q)
        /\ d[2] = p - Byte(p) + Byte(p + q) /\ d[3] = p - Byte(p) + Byte(p - q)
    /\ guest.program = "Addressing" =>
        /\ a[4] = AsLong(S16(p) + S16(q) + 3) /\ a[5] = AsLong(q - S16(p) - 1)
        /\ IsTrue(d[2], a[4] = q) /\ IsTrue(d[3], S32(a[4]) > S16(q))
    /\ guest.program = "AddingDecimal" =>
        /\ Digits4(At16(6)) = (Digits4(p) + Digits4(q)) % 625
        /\ Digits2(d[0]) = (Digits2(p) + Digits2(q)) % 25
        /\ FlagX(d[7]) = (Digits4(p) + Digits4(q) >= 625)
        /\ FlagZ(d[7]) = (Digits4(p) + Digits4(q) \in {0, 625})
    /\ guest.program = "SubtractingDecimal" =>
        /\ Digits4(At16(6)) = (Digits4(q) - Digits4(p)) % 625
        /\ Digits2(d[0]) = (Digits2(p) - Digits2(q)) % 25 /\ Digits2(d[3]) = (24 - Digits2(p)) % 25
        /\ FlagX(d[7]) = (Digits4(q) < Digits4(p)) /\ FlagZ(d[7]) = (p = q)

Comparisons(p, q, d, a) ==
    /\ guest.program = "Comparing" =>
        /\ IsTrue(At8(0), p > q) /\ IsTrue(At8(1), p <= q) /\ IsTrue(At8(2), p >= q) /\ IsTrue(At8(3), p < q)
        /\ IsTrue(At8(4), p # q) /\ IsTrue(At8(5), p = q)
        /\ IsTrue(At8(7), S32(p) - S32(q) \notin -(Long \div 2) .. Long \div 2 - 1) /\ At8(6) = 63 - At8(7)
        /\ IsTrue(At8(9), Msb(AsLong(p - q), Long)) /\ At8(8) = 63 - At8(9)
        /\ IsTrue(At8(10), S32(p) >= S32(q)) /\ IsTrue(At8(11), S32(p) < S32(q))
        /\ IsTrue(At8(12), S32(p) > S32(q)) /\ IsTrue(At8(13), S32(p) <= S32(q))
        /\ IsTrue(At8(14), TRUE) /\ IsTrue(At8(15), FALSE)
    /\ guest.program = "Ordering" =>
        /\ {d[0], d[1]} = {p, q} /\ S32(d[0]) <= S32(d[1])
        /\ {d[2], d[3]} = {p, q} /\ Low(d[2]) <= Low(d[3])
    /\ guest.program = "Testing" =>
        /\ IsTrue(d[2], High(q) < High(p)) /\ IsTrue(d[3], Low(q) = Low(p)) /\ IsTrue(d[4], S32(p) < 0)
        /\ IsTrue(d[5], Low(p) = 0) /\ IsTrue(d[6], S8(q) >= 0)
    /\ guest.program = "Limits" =>
        /\ IsTrue(d[2], p > 5000) /\ IsTrue(d[3], S16(p) < 7) /\ IsTrue(d[4], Byte(p) < 9)
        /\ IsTrue(d[5], S8(p) >= S8(q))
    /\ guest.program = "Searching" =>
        LET zeros == {i \in 0 .. 3 : At8(i) = 0}
        IN  a[0] = (IF zeros = {} THEN 3 ELSE Min(zeros)) + 1 /\ Low(d[2]) = (4 - a[0] - Bit(zeros = {})) % Word

Patterns(p, q, d, a) ==
    /\ guest.program = "Shifting" => d[0] = AsLong(2 * p) /\ d[1] = q \div 2
    /\ guest.program = "ShiftingMemory" =>
        /\ At32(0) = AsLong(2 * p) /\ At32(8) = q \div 2
        /\ At16(16) = Low(p) - (p % 2)
    /\ guest.program = "Rotating" =>
        /\ d[0] = p /\ d[2] = p /\ d[3] = p /\ FlagX(d[7])
        /\ LET k == (q % 48) % 24 IN d[4] = Times(p, k) + p \div 2 ^ (24 - k)
    /\ guest.program = "Scaling" =>
        LET k == q % 48
        IN  /\ d[0] = AsLong(S32(p) \div 4) /\ d[2] = AsLong(Per(S32(p), k))
            /\ d[3] = Times(p, k) /\ IsTrue(d[5], ~Fits(S32(p), k))
            /\ d[4] = Times(p, 3) /\ IsTrue(d[6], ~Fits(S32(p), 3))
    /\ guest.program = "ScalingUnsigned" => d[0] = Times(p, q % 48) /\ d[2] = Per(p, q % 48)
    /\ guest.program = "Flipping" =>
        /\ IsTrue(d[2], HasBit(p, 3)) /\ IsTrue(d[3], HasBit(q, q % 6))
        /\ \A i \in 0 .. 23 : HasBit(d[0], i) = (IF i = 11 THEN ~HasBit(p, i) ELSE i = 3 \/ (i # 7 /\ HasBit(p, i)))
        /\ \A i \in 0 .. 5 : HasBit(At8(0), i) = (i # q % 6 /\ HasBit(q, i))
        /\ At8(8) = 32 + (q % 32) /\ IsTrue(d[4], HasBit(q, 5)) /\ a[0] = 1
    /\ guest.program \in {"CombiningBytes", "CombiningWords", "CombiningLongs"} =>
        LET w == CASE guest.program = "CombiningBytes" -> 1 [] guest.program = "CombiningWords" -> 2 [] OTHER -> 4
            n == 6 * w
        IN  /\ SameBits(d[2], LAMBDA x, y : x /\ y, p, q, n) /\ d[3] = p
            /\ \A i \in 0 .. n - 1 : HasBit(Load(cpu, 0, w), i) =
                    (HasBit(51, i) /\ (HasBit(12, i) \/ (HasBit(21, i) # (HasBit(p, i) \/ HasBit(q, i)))))
            /\ Load(cpu, 8, w) = 0

Quotients(p, q, d, a) ==
    /\ guest.program = "Multiplying" =>
        /\ d[0] = Low(p) * Low(q)
        /\ d[7] = IF Low(q) = 0 THEN 8 ELSE 0
        /\ Low(q) # 0 =>
            /\ d[3] = Low(p) /\ IsTrue(d[4], p \div Low(q) >= Word)
            /\ d[2] = IF p \div Low(q) >= Word THEN p ELSE p \div Low(q) + Word * (p % Low(q))
    /\ guest.program = "MultiplyingSigned" =>
        /\ d[0] = AsLong(S16(p) * S16(q)) /\ d[5] = AsLong(S16(d[0])) /\ d[6] = Low(S8(q))
        /\ d[7] = IF Low(q) = 0 THEN 4 ELSE 0
        /\ Low(q) # 0 /\ ~(p = Long \div 2 /\ S16(q) = -1) =>
            LET r == S32(p) - S16(q) * S16(d[2])
            IN  IF Byte(d[4]) = 63
                THEN d[2] = p /\ \A k \in {-Word \div 2, Word \div 2 - 1} : Magnitude(k * S16(q)) <= Magnitude(S32(p))
                ELSE r = S16(High(d[2])) /\ Magnitude(r) < Magnitude(S16(q)) /\ (r = 0 \/ (r < 0) = (S32(p) < 0))

Copies(p, q, d, a) ==
    /\ guest.program = "CopyingBytes" =>
        /\ At32(8) = p /\ At8(12) = Byte(p) /\ At8(13) = Byte(q) /\ At8(15) = Byte(q) /\ d[3] = Byte(q)
        /\ a[0] = 2 /\ a[1] = 9 /\ a[2] = 15 /\ a[7] = 104
    /\ guest.program = "CopyingWords" =>
        /\ At32(8) = p /\ At32(14) = p /\ At32(18) = p /\ At16(22) = High(p) /\ d[3] = Low(q)
        /\ a[0] = 0 /\ a[1] = 10 /\ a[2] = 14
    /\ guest.program = "CopyingLongs" =>
        /\ At32(4) = q /\ At32(8) = p /\ At32(12) = q /\ At32(16) = p /\ At32(20) = q /\ a[1] = 4
    /\ guest.program = "Saving" =>
        /\ d[0] = p /\ d[1] = q /\ d[4] = p /\ Low(d[5]) = Low(q) /\ a[0] = 0 /\ a[7] = 104
        /\ d[2] = AsLong(S16(p)) /\ d[3] = AsLong(S16(q))

Controls(p, q, d, a) ==
    /\ guest.program = "Calling" =>
        d[2] = AsLong(p + q) /\ IsTrue(d[3], d[2] = 0) /\ a[6] = 20 /\ a[7] = 100 /\ At32(100) = Origin + 15
    /\ guest.program = "Trapping" =>
        /\ d[7] = 246 + (IF S16(p) < 0 \/ S16(p) > S16(q) THEN 8 ELSE 0)
        /\ Low(d[5]) = 256 + XSet /\ a[7] = 104
    /\ guest.program = "Trespassing" =>
        /\ d[7] = 9 /\ cpu.other = 52 /\ At32(52) = p /\ a[7] = 98 /\ At32(100) = Origin + 12
        /\ Low(d[6]) = 8 * Bit(S32(p) < 0) + 4 * Bit(p = 0) /\ At16(98) = Low(d[6])
    /\ guest.program = "Descending" =>
        a[4] = 56 /\ cpu.other = 48 /\ At32(48) = p /\ a[7] = 98 /\ At32(100) = Origin + 7
    /\ guest.program = "Masking" =>
        /\ At8(30) >= Byte(d[4]) + Bit(Byte(p) # 0)
        /\ FlagX(d[7])
    /\ guest.program = "Waiting" => d[2] = p /\ At8(30) + At8(31) >= 1
    /\ guest.program = "Resetting" => d[2] = p /\ (raised = 0 => At8(30) + At8(31) = 0)

\* Every interrupt that a device has raised on its own is served once, or
\* still waits for its turn.
ServedOnce ==
    LET first == Bit(Byte(guest.p) # 0)
        armed == CASE guest.program = "Masking" -> {1, 1 + first}
                   [] guest.program = "Arming" -> {0, first}
                   [] OTHER -> {0}
    IN  guest.program # "Resetting" => At8(30) + At8(31) + Bit(cpu.via) + Bit(cpu.scc) - raised \in armed

\* A program that has halted has computed what it is for, whatever interrupts
\* came between its instructions (the handlers of m68kopac.c, m68kopdm.c and
\* m68kopnz.c; m68ki_exception_interrupt and rte).
ProgramsCompute ==
    /\ M68kTypeOK
    /\ Halted =>
        LET p == guest.p
            q == guest.q
        IN  /\ Arithmetics(p, q, cpu.d, cpu.a) /\ Comparisons(p, q, cpu.d, cpu.a)
            /\ Patterns(p, q, cpu.d, cpu.a) /\ Quotients(p, q, cpu.d, cpu.a)
            /\ Copies(p, q, cpu.d, cpu.a) /\ Controls(p, q, cpu.d, cpu.a) /\ ServedOnce

\* The flags of a MOVE are those of what it moved, though the device that it
\* wrote to interrupts at once (m68k_op_move_8_aw sets them after
\* m68ki_write_8, on the handler's side of the saved status register).
FlagsKept == Halted /\ guest.program = "Arming" => IsTrue(cpu.d[2], Byte(guest.p) = 0)
=============================================================================
