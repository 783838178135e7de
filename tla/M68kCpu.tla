------------------------------- MODULE M68kCpu ------------------------------
(***************************************************************************)
(* The machine under the instructions of the 68000 core: registers, status *)
(* register, memory, addressing modes, exceptions and interrupts           *)
(* (src/src/tme/musashi/m68kcpu.h and m68kcpu.c as src/src/tme/emu.c and   *)
(* m68kconf.h set them up: 68000 only, no tracing, no address errors).     *)
(*                                                                         *)
(* A machine state is one record, so that the steps of an instruction --   *)
(* the operand that moves its address register, the write that lets a      *)
(* device interrupt, the flags -- compose in the order the code has them:  *)
(*   d, a         the registers; a[7] is the stack pointer in use          *)
(*   other        the other stack pointer (REG_SP_BASE)                    *)
(*   pc, ppc      REG_PC, and REG_PPC: the instruction being executed      *)
(*   x n z v c, s, mask    the status register                             *)
(*   stopped      STOP_LEVEL_STOP                                          *)
(*   level        CPU_INT_LEVEL: the level presented and not taken yet     *)
(*   via, scc     emuViaIrqPending, emuSccIrqPending                       *)
(*   mem          RAM, which repeats through the address space             *)
(*                                                                         *)
(* Every width scales with ByteBits, 8 in the code: a word is two bytes, a *)
(* long four.  Instructions are records and live outside RAM, each at an   *)
(* address of its own, so a displacement counts instructions and the       *)
(* vector table is a function.                                             *)
(***************************************************************************)
EXTENDS M68kBits, Sequences

CONSTANTS
    ByteBits,             \* 8
    RamSize,              \* TME_RAMSIZE
    ViaAddress, SccAddress,  \* writing there arms or clears the interrupt of the device
    Vector                \* the guest's vector table: vector number -> address

\* The status register fits a word.
ASSUME M68kConstants == ByteBits \in Nat /\ ByteBits > 4 /\ RamSize \in Nat \ {0}

Modulus(w) == 2 ^ (ByteBits * w)
Word == Modulus(2)
Long == Modulus(4)

-----------------------------------------------------------------------------
(* Memory.                                                                 *)

\* m68k_read_memory_8, _16, _32: big-endian.
Load(t, adr, w) ==
    LET At(i) == t.mem[(adr + i) % RamSize]
    IN  MapThenSumSet(LAMBDA i : At(i) * Modulus(w - 1 - i), 0 .. w - 1)

Poke(t, adr, w, v) ==
    [t EXCEPT !.mem = [i \in DOMAIN @ |->
        LET j == (i - adr) % RamSize
        IN  IF j < w THEN (v \div Modulus(w - 1 - j)) % Modulus(1) ELSE @[i]]]

\* m68ki_push_16, m68ki_push_32.
Push(t, w, v) ==
    LET sp == (t.a[7] - w) % Long
    IN  Poke([t EXCEPT !.a[7] = sp], sp, w, v)

\* m68ki_pull_16, m68ki_pull_32: what is pulled, and the stack pointer after it.
Top(t, w) == Load(t, t.a[7], w)
Pulled(t, w) == [t EXCEPT !.a[7] = (@ + w) % Long]

-----------------------------------------------------------------------------
(* The status register: CCR in the low bits, mask and S above it.          *)

Ccr(t) == Bit(t.c) + 2 * Bit(t.v) + 4 * Bit(t.z) + 8 * Bit(t.n) + 16 * Bit(t.x)
Sr(t) == Ccr(t) + 32 * t.mask + 256 * Bit(t.s)

\* m68ki_set_s_flag: each mode has its stack pointer.
Supervisor(t, s) ==
    IF t.s = s THEN t ELSE [t EXCEPT !.s = s, !.a[7] = t.other, !.other = t.a[7]]

\* m68ki_set_ccr.
SetCcr(t, val) ==
    [t EXCEPT !.c = HasBit(val, 0), !.v = HasBit(val, 1), !.z = HasBit(val, 2),
              !.n = HasBit(val, 3), !.x = HasBit(val, 4)]

-----------------------------------------------------------------------------
(* Exceptions and interrupts.                                              *)

ILLEGAL_INSTRUCTION == 4
ZERO_DIVIDE == 5
CHK == 6
TRAPV == 7
PRIVILEGE_VIOLATION == 8
LINE_1010 == 10
LINE_1111 == 11
INTERRUPT_AUTOVECTOR == 24
TRAP_BASE == 32

\* m68ki_init_exception, m68ki_stack_frame_3word, m68ki_jump_vector: pc is
\* pushed, then the status register of the interrupted code.
Exception(t, pc, vector) ==
    LET frame == Push(Push(Supervisor(t, TRUE), 4, pc), 2, Sr(t))
    IN  [frame EXCEPT !.pc = Vector[vector]]

\* m68ki_exception_trap, m68ki_exception_trapN: execution goes on after it.
Trap(t, vector) == Exception(t, t.pc, vector)

\* m68ki_exception_privilege_violation, _1010, _1111, _illegal: at it.
Fault(t, vector) == Exception(t, t.ppc, vector)

\* m68ki_exception_interrupt: the level is forgotten, a device that still
\* wants service has to present it again.
Interrupt(t, lvl) ==
    [Exception([t EXCEPT !.stopped = FALSE], t.pc, INTERRUPT_AUTOVECTOR + lvl)
        EXCEPT !.mask = lvl, !.level = 0]

\* m68ki_check_interrupts.
CheckInterrupts(t) == IF t.level > t.mask THEN Interrupt(t, t.level) ELSE t

\* m68ki_set_sr: mode, mask and flags, and the interrupts the mask held back.
SetSr(t, val) ==
    CheckInterrupts([SetCcr(Supervisor(t, HasBit(val, 8)), val)
                        EXCEPT !.mask = (val \div 32) % 8])

\* updateCpuIrq and m68k_set_irq (level 7 is not wired).
UpdateCpuIrq(t) ==
    CheckInterrupts([t EXCEPT !.level = IF t.scc THEN 2 ELSE IF t.via THEN 1 ELSE 0])

ViaIrq(t, req) == UpdateCpuIrq([t EXCEPT !.via = req])
SccIrq(t, req) == UpdateCpuIrq([t EXCEPT !.scc = req])

\* m68k_write_memory_8, _16, _32: a device answers at once, in the middle of
\* the instruction.
Store(t, adr, w, v) ==
    IF adr = ViaAddress THEN ViaIrq(t, v # 0)
    ELSE IF adr = SccAddress THEN SccIrq(t, v # 0)
    ELSE Poke(t, adr, w, v)

-----------------------------------------------------------------------------
(* Addressing modes: e has the mode m, and the register r, the displace-   *)
(* ment, address or immediate k and the index i the mode needs.            *)

\* REG_DA, and writing it.
DA(t, i) == IF i < 8 THEN t.d[i] ELSE t.a[i - 8]
SetDA(t, i, v) == IF i < 8 THEN [t EXCEPT !.d[i] = v] ELSE [t EXCEPT !.a[i - 8] = v]

\* EA_A7_PI_8, EA_A7_PD_8: the stack pointer stays even.
Step(e, w) == IF w = 1 /\ e.r = 7 THEN 2 ELSE w

\* m68ki_get_ea_ix: the index is a long, or a word with its sign.
Index(t, e) == IF e.long THEN DA(t, e.i) ELSE Signed(DA(t, e.i) % Word, Word)

\* EA_AY_AI_n ... EA_PCIX_n.
Address(t, e, w) ==
    CASE e.m \in {"ai", "pi"} -> t.a[e.r]
      [] e.m = "pd" -> (t.a[e.r] - Step(e, w)) % Long
      [] e.m = "di" -> (t.a[e.r] + e.k) % Long
      [] e.m = "ix" -> (t.a[e.r] + Index(t, e) + e.k) % Long
      [] e.m \in {"aw", "al"} -> e.k % Long
      [] e.m = "pcdi" -> (t.pc + e.k) % Long
      [] e.m = "pcix" -> (t.pc + Index(t, e) + e.k) % Long

\* The address register of a postincrement or a predecrement.
Moved(t, e, w) ==
    CASE e.m = "pi" -> [t EXCEPT !.a[e.r] = (@ + Step(e, w)) % Long]
      [] e.m = "pd" -> [t EXCEPT !.a[e.r] = (@ - Step(e, w)) % Long]
      [] OTHER -> t

\* OPER_AY_AI_n ... OPER_I_n, DY and AY.
Value(t, e, w) ==
    CASE e.m = "d" -> t.d[e.r] % Modulus(w)
      [] e.m = "a" -> t.a[e.r] % Modulus(w)
      [] e.m = "i" -> e.k % Modulus(w)
      [] OTHER -> Load(t, Address(t, e, w), w)

\* MASK_OUT_BELOW_n(*r_dst) | res: the rest of the register is kept.
SetD(t, w, r, v) == [t EXCEPT !.d[r] = @ - (@ % Modulus(w)) + v]

\* The result to the register e names, or to the address that was found for it.
Write(t, e, adr, w, v) == IF e.m = "d" THEN SetD(t, w, e.r, v) ELSE Store(t, adr, w, v)

SetFlags(t, q) == [t EXCEPT !.x = q.x, !.n = q.n, !.z = q.z, !.v = q.v, !.c = q.c]

-----------------------------------------------------------------------------
(* The operations: the result and the flags of s and d at width w.         *)

AddWith(s, d, k, z, w) ==
    LET m == Modulus(w)
        r == Sum(s, d, k, m)
        c == IF w = 4 THEN CFLAG_ADD_32(s, d, r, m) ELSE CarryOut(s, d, k, m)
    IN  [r |-> r, x |-> c, n |-> Msb(r, m), z |-> z /\ r = 0, v |-> VFLAG_ADD(s, d, r, m), c |-> c]

SubWith(s, d, k, z, w) ==
    LET m == Modulus(w)
        r == Difference(s, d, k, m)
        c == IF w = 4 THEN CFLAG_SUB_32(s, d, r, m) ELSE BorrowOut(s, d, k)
    IN  [r |-> r, x |-> c, n |-> Msb(r, m), z |-> z /\ r = 0, v |-> VFLAG_SUB(s, d, r, m), c |-> c]

Add(t, s, d, w) == AddWith(s, d, 0, TRUE, w)
Sub(t, s, d, w) == SubWith(s, d, 0, TRUE, w)
Neg(t, s, d, w) == SubWith(d, 0, 0, TRUE, w)

\* Mistake: ADDX sets Z from its own result alone.
AddxSetsZ(t, s, d, w) == AddWith(s, d, Bit(t.x), TRUE, w)

\* With X; Z stays set only if every part of a long number was zero.
Addx(t, s, d, w) == AddWith(s, d, Bit(t.x), t.z, w)
Subx(t, s, d, w) == SubWith(s, d, Bit(t.x), t.z, w)
Negx(t, s, d, w) == SubWith(d, 0, Bit(t.x), t.z, w)

Cmp(t, s, d, w) == [SubWith(s, d, 0, TRUE, w) EXCEPT !.x = t.x]

Conjoin(t, s, d, w) == Logical(And(s, d, ByteBits * w), t.x, ByteBits * w)
Disjoin(t, s, d, w) == Logical(Or(s, d, ByteBits * w), t.x, ByteBits * w)
Exclude(t, s, d, w) == Logical(Eor(s, d, ByteBits * w), t.x, ByteBits * w)
Invert(t, s, d, w) == Logical(Not(d, ByteBits * w), t.x, ByteBits * w)
Copy(t, s, d, w) == Logical(s, t.x, ByteBits * w)
Test(t, s, d, w) == Logical(d, t.x, ByteBits * w)
=============================================================================
