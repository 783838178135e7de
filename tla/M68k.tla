-------------------------------- MODULE M68k --------------------------------
(***************************************************************************)
(* The 68000 core: beside the instructions of M68kAlu, those that multiply *)
(* and divide, move, branch, call and serve the supervisor; and between    *)
(* two instructions the devices, which raise and drop their interrupts.    *)
(* In the handlers' names toc and tos are moves to the condition codes and *)
(* to the status register.                                                 *)
(***************************************************************************)
EXTENDS M68kAlu, SequencesExt

-----------------------------------------------------------------------------
(* Multiplication, division, bounds and signs.                             *)

SetLong(t, r, v) == SetD(SetFlags(t, Logical(v, t.x, 4 * ByteBits)), 4, r, v)

mulu_16 == Run("mulu_16", SetLong(Moved(T, I.ea, 2), I.x, Value(T, I.ea, 2) * DX(2)))
muls_16 == Run("muls_16",
    SetLong(Moved(T, I.ea, 2), I.x,
            (Signed(Value(T, I.ea, 2), Word) * Signed(DX(2), Word)) % Long))

\* Quotient and remainder as C divides, towards zero.
Quotient(p, q) ==
    LET abs == (IF p < 0 THEN -p ELSE p) \div (IF q < 0 THEN -q ELSE q)
    IN  IF (p < 0) = (q < 0) THEN abs ELSE -abs
Remainder(p, q) == p - q * Quotient(p, q)

\* Quotient in the low word, remainder in the high one, or V if it does not
\* fit; by zero it traps.
Divide(p, q, range) ==
    LET t == Moved(T, I.ea, 2)
        quotient == Quotient(p, q)
        flags == Logical(quotient % Word, t.x, 2 * ByteBits)
    IN  IF q = 0 THEN Trap(t, ZERO_DIVIDE)
        ELSE IF quotient \notin range THEN [t EXCEPT !.v = TRUE]
        ELSE [SetFlags(t, flags) EXCEPT
                !.d[I.x] = (quotient % Word) + (Remainder(p, q) % Word) * Word]

divu_16 == Run("divu_16", Divide(DX(4), Value(T, I.ea, 2), 0 .. Word - 1))

\* The one quotient that does not fit in 32 bits is made zero.
divs_16 == Run("divs_16",
    LET p == Signed(DX(4), Long)
        q == Signed(Value(T, I.ea, 2), Word)
    IN  IF 2 * p = -Long /\ q = -1 THEN SetLong(Moved(T, I.ea, 2), I.x, 0)
        ELSE Divide(p, q, -(Word \div 2) .. Word \div 2 - 1))

chk_16 == Run("chk_16",
    LET src == Signed(DX(2), Word)
        bound == Signed(Value(T, I.ea, 2), Word)
        t == [Moved(T, I.ea, 2) EXCEPT !.z = src = 0, !.v = FALSE, !.c = FALSE]
    IN  IF 0 <= src /\ src <= bound THEN t ELSE Trap([t EXCEPT !.n = src < 0], CHK))

\* EXT: the sign of the lower half fills the upper one.
ext == Run("ext",
    LET half == I.w \div 2
        v == Signed(T.d[I.ea.r] % Modulus(half), Modulus(half)) % Modulus(I.w)
    IN  SetD(SetFlags(T, Logical(v, T.x, ByteBits * I.w)), I.w, I.ea.r, v))

swap_32 == Run("swap_32",
    LET v == T.d[I.ea.r] IN SetLong(T, I.ea.r, (v % Word) * Word + v \div Word))

\* EXG: two registers of REG_DA.
exg_32 == Run("exg_32", SetDA(SetDA(T, I.x, DA(T, I.y)), I.y, DA(T, I.x)))

-----------------------------------------------------------------------------
(* Moves.                                                                  *)

\* MOVE to memory, mode m: the source moves its register before the
\* destination's address is taken, and the flags follow the write.
Move(m, w) ==
    LET v == Value(T, I.ea, w)
        t == Moved(T, I.ea, w)
        dst == [I.to EXCEPT !.m = m]
        u == Moved(t, dst, w)
    IN  SetFlags(Store(u, Address(t, dst, w), w, v), Copy(u, v, 0, w))

move_8_d == Run("move_8_d", Er(1, Copy))
move_16_d == Run("move_16_d", Er(2, Copy))
move_32_d == Run("move_32_d", Er(4, Copy))
move_8_ai == Run("move_8_ai", Move("ai", 1))
move_16_ai == Run("move_16_ai", Move("ai", 2))
move_32_ai == Run("move_32_ai", Move("ai", 4))
move_8_pi == Run("move_8_pi", Move("pi", 1))
move_16_pi == Run("move_16_pi", Move("pi", 2))
move_32_pi == Run("move_32_pi", Move("pi", 4))
move_8_pi7 == Run("move_8_pi7", Move("pi", 1))
move_8_pd == Run("move_8_pd", Move("pd", 1))
move_16_pd == Run("move_16_pd", Move("pd", 2))
move_32_pd == Run("move_32_pd", Move("pd", 4))
move_8_pd7 == Run("move_8_pd7", Move("pd", 1))
move_8_di == Run("move_8_di", Move("di", 1))
move_16_di == Run("move_16_di", Move("di", 2))
move_32_di == Run("move_32_di", Move("di", 4))
move_8_ix == Run("move_8_ix", Move("ix", 1))
move_16_ix == Run("move_16_ix", Move("ix", 2))
move_32_ix == Run("move_32_ix", Move("ix", 4))
move_8_aw == Run("move_8_aw", Move("aw", 1))
move_16_aw == Run("move_16_aw", Move("aw", 2))
move_32_aw == Run("move_32_aw", Move("aw", 4))
move_8_al == Run("move_8_al", Move("al", 1))
move_16_al == Run("move_16_al", Move("al", 2))
move_32_al == Run("move_32_al", Move("al", 4))
moveq_32 == Run("moveq_32", Er(4, Copy))
movea_16 == Run("movea_16", ToAddress(2, Second))
movea_32 == Run("movea_32", ToAddress(4, Second))
lea_32 == Run("lea_32", [T EXCEPT !.a[I.x] = Address(T, I.ea, 4)])
pea_32 == Run("pea_32", Push(T, 4, Address(T, I.ea, 4)))

\* MOVEM: the registers of the list in their order, memory moving along.
InOrder == SetToSortSeq(I.list, <)
Here == [t |-> T, adr |-> IF I.ea.m = "pd" THEN T.a[I.ea.r] ELSE Address(T, I.ea, 2)]

MovemToMemory(w) ==
    LET Put(p, i) == [t |-> Store(p.t, p.adr, w, DA(p.t, i) % Modulus(w)),
                      adr |-> (p.adr + w) % Long]
    IN  FoldLeft(Put, Here, InOrder).t

\* -(Ay): from the last register down; Ay itself is stored as it was.
MovemDown(w) ==
    LET Put(p, i) == LET adr == (p.adr - w) % Long
                     IN  [t |-> Store(p.t, adr, w, DA(p.t, i) % Modulus(w)), adr |-> adr]
        last == FoldLeft(Put, Here, Reverse(InOrder))
    IN  [last.t EXCEPT !.a[I.ea.r] = last.adr]

\* A word is loaded with its sign; (Ay)+ overrides what was loaded into Ay.
MovemToRegisters(w) ==
    LET Get(p, i) == [t |-> SetDA(p.t, i, Signed(Load(p.t, p.adr, w), Modulus(w)) % Long),
                      adr |-> (p.adr + w) % Long]
        last == FoldLeft(Get, Here, InOrder)
    IN  IF I.ea.m = "pi" THEN [last.t EXCEPT !.a[I.ea.r] = last.adr] ELSE last.t

movem_16_re == Run("movem_16_re", IF I.ea.m = "pd" THEN MovemDown(2) ELSE MovemToMemory(2))
movem_32_re == Run("movem_32_re", IF I.ea.m = "pd" THEN MovemDown(4) ELSE MovemToMemory(4))
movem_16_er == Run("movem_16_er", MovemToRegisters(2))
movem_32_er == Run("movem_32_er", MovemToRegisters(4))

\* MOVEP: the bytes of a register at every second address, the high one first.
MovepToMemory(w) ==
    LET v == T.d[I.x]
        Put(t, i) == Store(t, (Address(T, I.ea, w) + 2 * (w - 1 - i)) % Long, 1,
                           (v \div Modulus(i)) % Modulus(1))
    IN  FoldLeft(Put, T, [i \in 1 .. w |-> w - i])
MovepToRegister(w) ==
    SetD(T, w, I.x, MapThenSumSet(LAMBDA i :
        Load(T, Address(T, I.ea, w) + 2 * (w - 1 - i), 1) * Modulus(i), 0 .. w - 1))

movep_16_re == Run("movep_16_re", MovepToMemory(2))
movep_32_re == Run("movep_32_re", MovepToMemory(4))
movep_16_er == Run("movep_16_er", MovepToRegister(2))
movep_32_er == Run("movep_32_er", MovepToRegister(4))

-----------------------------------------------------------------------------
(* Branches, calls and conditions.                                         *)

Branch == [T EXCEPT !.pc = @ + I.k]
bra == Run("bra", Branch)
bsr == Run("bsr", [Push(T, 4, T.pc) EXCEPT !.pc = @ + I.k])
bcc_8 == Run("bcc_8", IF Holds(T)[I.cc] THEN Branch ELSE T)
bcc_16 == Run("bcc_16", IF Holds(T)[I.cc] THEN Branch ELSE T)

\* Until the condition holds or the word in Dy has passed zero.
LoopUnless(p) ==
    LET r == (T.d[I.ea.r] - 1) % Word
    IN  IF p THEN T ELSE SetD(IF r # Word - 1 THEN Branch ELSE T, 2, I.ea.r, r)
dbcc_16 == Run("dbcc_16", LoopUnless(Holds(T)[I.cc]))
dbf_16 == Run("dbf_16", LoopUnless(FALSE))
dbt_16 == Run("dbt_16", LoopUnless(TRUE))

SetByte(p) ==
    LET t == Moved(T, I.ea, 1)
    IN  Write(t, I.ea, Address(T, I.ea, 1), 1, IF p THEN Modulus(1) - 1 ELSE 0)
st_8 == Run("st_8", SetByte(TRUE))
sf_8 == Run("sf_8", SetByte(FALSE))
shi_8 == Run("shi_8", SetByte(Holds(T).HI))
sls_8 == Run("sls_8", SetByte(Holds(T).LS))
scc_8 == Run("scc_8", SetByte(Holds(T).CC))
scs_8 == Run("scs_8", SetByte(Holds(T).CS))
sne_8 == Run("sne_8", SetByte(Holds(T).NE))
seq_8 == Run("seq_8", SetByte(Holds(T).EQ))
svc_8 == Run("svc_8", SetByte(Holds(T).VC))
svs_8 == Run("svs_8", SetByte(Holds(T).VS))
spl_8 == Run("spl_8", SetByte(Holds(T).PL))
smi_8 == Run("smi_8", SetByte(Holds(T).MI))
sge_8 == Run("sge_8", SetByte(Holds(T).GE))
slt_8 == Run("slt_8", SetByte(Holds(T).LT))
sgt_8 == Run("sgt_8", SetByte(Holds(T).GT))
sle_8 == Run("sle_8", SetByte(Holds(T).LE))

jmp_32 == Run("jmp_32", [T EXCEPT !.pc = Address(T, I.ea, 4)])
jsr_32 == Run("jsr_32", [Push(T, 4, T.pc) EXCEPT !.pc = Address(T, I.ea, 4)])
rts_32 == Run("rts_32", [Pulled(T, 4) EXCEPT !.pc = Top(T, 4)])
rtr_32 == Run("rtr_32",
    LET t == Pulled(SetCcr(T, Top(T, 2)), 2) IN [Pulled(t, 4) EXCEPT !.pc = Top(t, 4)])

\* LINK of A7 stores the stack pointer already lowered.
link_16 == Run("link_16",
    LET sp == (T.a[7] - 4) % Long
        t == [T EXCEPT !.a[7] = sp]
        u == [Poke(t, sp, 4, t.a[I.ea.r]) EXCEPT !.a[I.ea.r] = sp]
    IN  [u EXCEPT !.a[7] = (sp + I.k) % Long])
unlk_32 == Run("unlk_32",
    LET t == [T EXCEPT !.a[7] = T.a[I.ea.r]]
    IN  [Pulled(t, 4) EXCEPT !.a[I.ea.r] = Top(t, 4)])

-----------------------------------------------------------------------------
(* The status register, exceptions and the supervisor's instructions.      *)

\* Mistake: the handler has run before FLAG_S is looked at.
PrivilegedLate(t) == IF T.s THEN t ELSE Fault(t, PRIVILEGE_VIOLATION)

Privileged(t) == IF T.s THEN t ELSE Fault(T, PRIVILEGE_VIOLATION)

rte_32 == Run("rte_32",
    LET t == Pulled(T, 2)
    IN  Privileged(SetSr([Pulled(t, 4) EXCEPT !.pc = Top(t, 4)], Top(T, 2))))
move_16_toc == Run("move_16_toc", SetCcr(Moved(T, I.ea, 2), Value(T, I.ea, 2)))
move_16_tos == Run("move_16_tos", Privileged(SetSr(Moved(T, I.ea, 2), Value(T, I.ea, 2))))

\* Not privileged on a 68000.
move_16_frs == Run("move_16_frs",
    Write(Moved(T, I.ea, 2), I.ea, Address(T, I.ea, 2), 2, Sr(T)))
move_32_tou == Run("move_32_tou", Privileged([T EXCEPT !.other = T.a[I.ea.r]]))
move_32_fru == Run("move_32_fru", Privileged([T EXCEPT !.a[I.ea.r] = T.other]))

StatusBits == 4 * ByteBits
andi_16_toc == Run("andi_16_toc", SetCcr(T, And(Ccr(T), I.k, StatusBits)))
ori_16_toc == Run("ori_16_toc", SetCcr(T, Or(Ccr(T), I.k, StatusBits)))
eori_16_toc == Run("eori_16_toc", SetCcr(T, Eor(Ccr(T), I.k, StatusBits)))
andi_16_tos == Run("andi_16_tos", Privileged(SetSr(T, And(Sr(T), I.k, StatusBits))))
ori_16_tos == Run("ori_16_tos", Privileged(SetSr(T, Or(Sr(T), I.k, StatusBits))))
eori_16_tos == Run("eori_16_tos", Privileged(SetSr(T, Eor(Sr(T), I.k, StatusBits))))

trap == Run("trap", Trap(T, TRAP_BASE + I.k))
trapv == Run("trapv", IF T.v THEN Trap(T, TRAPV) ELSE T)
illegal == Run("illegal", Fault(T, ILLEGAL_INSTRUCTION))
op_1010 == Run("op_1010", Fault(T, LINE_1010))
op_1111 == Run("op_1111", Fault(T, LINE_1111))
stop == Run("stop", Privileged(SetSr([T EXCEPT !.stopped = TRUE], I.k)))
nop == Run("nop", T)

\* resetMacHardware takes the devices' interrupts back.
reset == Run("reset", Privileged(UpdateCpuIrq([T EXCEPT !.via = FALSE, !.scc = FALSE])))

-----------------------------------------------------------------------------
(* Between two instructions the devices work.                              *)

ViaRaises ==
    /\ ~cpu.via /\ raised < guest.interrupts
    /\ cpu' = ViaIrq(cpu, TRUE) /\ raised' = raised + 1
    /\ UNCHANGED guest

SccRaises ==
    /\ ~cpu.scc /\ raised < guest.interrupts
    /\ cpu' = SccIrq(cpu, TRUE) /\ raised' = raised + 1
    /\ UNCHANGED guest

\* Mistake: the VIA presents its interrupt only when it changes.
ViaStepOnce == cpu.via /\ UNCHANGED m68kVars

\* viaStep: the VIA presents an interrupt that nobody has cleared once more.
ViaStep == cpu.via /\ cpu' = ViaIrq(cpu, TRUE) /\ UNCHANGED <<guest, raised>>

\* m68k_execute of a stopped processor.
Idle == cpu.stopped /\ UNCHANGED m68kVars

-----------------------------------------------------------------------------
Products ==
    \/ mulu_16 \/ muls_16 \/ divu_16 \/ divs_16 \/ chk_16 \/ ext
    \/ swap_32 \/ exg_32

Moves ==
    \/ move_8_d \/ move_16_d \/ move_32_d \/ move_8_ai \/ move_16_ai
    \/ move_32_ai \/ move_8_pi \/ move_16_pi \/ move_32_pi \/ move_8_pi7
    \/ move_8_pd \/ move_16_pd \/ move_32_pd \/ move_8_pd7 \/ move_8_di
    \/ move_16_di \/ move_32_di \/ move_8_ix \/ move_16_ix \/ move_32_ix
    \/ move_8_aw \/ move_16_aw \/ move_32_aw \/ move_8_al \/ move_16_al
    \/ move_32_al \/ moveq_32 \/ movea_16 \/ movea_32 \/ lea_32 \/ pea_32
    \/ movem_16_re \/ movem_32_re \/ movem_16_er \/ movem_32_er
    \/ movep_16_re \/ movep_32_re \/ movep_16_er \/ movep_32_er

Control ==
    \/ bra \/ bsr \/ bcc_8 \/ bcc_16 \/ dbcc_16 \/ dbf_16 \/ dbt_16
    \/ st_8 \/ sf_8 \/ shi_8 \/ sls_8 \/ scc_8 \/ scs_8 \/ sne_8 \/ seq_8
    \/ svc_8 \/ svs_8 \/ spl_8 \/ smi_8 \/ sge_8 \/ slt_8 \/ sgt_8
    \/ sle_8 \/ jmp_32 \/ jsr_32 \/ rts_32 \/ rtr_32 \/ link_16 \/ unlk_32

System ==
    \/ rte_32 \/ move_16_toc \/ move_16_tos \/ move_16_frs \/ move_32_tou
    \/ move_32_fru \/ andi_16_toc \/ ori_16_toc \/ eori_16_toc
    \/ andi_16_tos \/ ori_16_tos \/ eori_16_tos \/ trap \/ trapv
    \/ illegal \/ op_1010 \/ op_1111 \/ stop \/ nop \/ reset

Instruction == Arithmetic \/ Logic \/ Shifts \/ Products \/ Moves \/ Control \/ System

M68kNext == Instruction \/ ViaRaises \/ SccRaises \/ ViaStep \/ Idle

\* tmeStartEmu calls m68k_execute and viaStep in turn, for ever.  The first is
\* WF_m68kVars(Instruction), with its ENABLED spelled out: an instruction can
\* run whenever the processor is not stopped.
M68kFairness ==
    /\ []<>cpu.stopped \/ []<><<Instruction>>_m68kVars
    /\ WF_m68kVars(ViaStep)

M68kSpec == M68kInit /\ [][M68kNext]_m68kVars /\ M68kFairness
-----------------------------------------------------------------------------
(* Properties.                                                             *)

\* Registers are longs and memory is bytes, whatever was computed: no handler
\* leaves bits above its operand (MASK_OUT_ABOVE_n), and no address leaves
\* the address space.
M68kTypeOK ==
    /\ cpu.d \in [0 .. 7 -> Width(Long)] /\ cpu.a \in [0 .. 7 -> Width(Long)]
    /\ cpu.mem \in [0 .. RamSize - 1 -> Width(Modulus(1))]
    /\ cpu.other \in Width(Long) /\ cpu.pc \in 1 .. Len(guest.code) + 1
    /\ cpu.mask \in 0 .. 7 /\ cpu.level \in 0 .. 2
    /\ {cpu.x, cpu.n, cpu.z, cpu.v, cpu.c, cpu.s, cpu.stopped, cpu.via, cpu.scc} \subseteq BOOLEAN
    /\ raised \in 0 .. guest.interrupts

\* The processor has stopped for good: nothing is let in.
Halted == cpu.stopped /\ cpu.mask = 7

\* A user's program changes neither the interrupt mask nor the stack of the
\* supervisor, and becomes the supervisor only through a vector, with the
\* place to go back to and its own status on the supervisor's stack
\* (the FLAG_S tests of m68kopac.c, m68kopdm.c and m68kopnz.c,
\* m68ki_set_s_flag and m68ki_stack_frame_3word).
PrivilegeKept ==
    [][~cpu.s =>
        IF cpu'.s
        THEN /\ cpu'.pc \in Range(Vector)
             /\ cpu'.a[7] = (cpu.other - 6) % Long
             /\ Load(cpu', cpu'.a[7] + 2, 4) \in {cpu.pc, cpu.pc + 1}
             /\ LET status == Load(cpu', cpu'.a[7], 2)
                IN  ~HasBit(status, 8) /\ (status \div 32) % 8 = cpu.mask
        ELSE cpu'.mask = cpu.mask /\ cpu'.other = cpu.other]_m68kVars

\* Whatever a device raises is answered, through nested handlers, masks and a
\* stopped processor, unless the guest has halted (m68ki_exception_interrupt
\* forgets the level it has taken; updateCpuIrq presents what is left).
InterruptsAnswered ==
    /\ cpu.via ~> ~cpu.via \/ Halted
    /\ cpu.scc ~> ~cpu.scc \/ Halted
=============================================================================
